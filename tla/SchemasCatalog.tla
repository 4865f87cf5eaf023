--------------------------- MODULE SchemasCatalog ---------------------------
(***************************************************************************)
(* Selenity's schemas: one file per schema and a cache in front of them.   *)
(* A schema is the sequence of its fields; the type of a field is "plain", *)
(* "rid" or the name of another schema, which makes the field nested.      *)
(***************************************************************************)
EXTENDS Naturals, Sequences, SequencesExt

CONSTANTS
    Schemas,        \* schema names
    Given,          \* schemas on disk at first
    Definitions,    \* the schemas that queries define
    BlendedName,    \* BlendedName[s]: the name of schema s blended, where queries blend s
    NoSchema,       \* no schema: not in the cache, or no file
    TornSchema      \* a file of length zero

VARIABLES
    schemaFile,     \* schemaFile[s]: the file of s
    schemaCache     \* m_schemas_cache

schemaVars == <<schemaFile, schemaCache>>

SchemasInit ==
    /\ schemaFile = [s \in Schemas |->
          IF \E d \in Given : d.name = s THEN CHOOSE d \in Given : d.name = s ELSE NoSchema]
    /\ schemaCache = [s \in Schemas |-> NoSchema]

Schema(n, fields, inherits) == [name |-> n, fields |-> fields, inherits |-> inherits]

\* A torn file is read as a schema without a name and without fields; saved
\* again, it goes to a file that no schema name reads.
Blank == Schema(TornSchema, <<>>, <<>>)

Nested(field)        == field.type \in Schemas
NestedFields(schema) == SelectSeq(schema.fields, Nested)

\* getSchema: the cache, then the file, which must exist.
HasSchema(s) == schemaCache[s] # NoSchema \/ schemaFile[s] # NoSchema
GetSchema(s) ==
    IF schemaCache[s] # NoSchema THEN schemaCache[s]
    ELSE IF schemaFile[s] = TornSchema THEN Blank
    ELSE schemaFile[s]

\* The cache after getSchema of every schema in a set.
CacheWith(schemas) ==
    [s \in Schemas |-> IF s \in schemas /\ HasSchema(s) THEN GetSchema(s) ELSE schemaCache[s]]

\* createSchema: the fields of the inherited schemas are added to those given.
Inherits(definition) == ToSet(definition.inherits)
Extended(definition) ==
    [definition EXCEPT !.fields =
        FoldLeft(LAMBDA fields, s : fields \o GetSchema(s).fields, @, definition.inherits)]

\* What the fields of a schema lead to, through any number of nested schemas.
FieldSchemas(schema) == {f.type : f \in ToSet(NestedFields(schema))}
ReachedBy[schemas \in SUBSET Schemas] ==
    LET more == schemas \cup UNION {FieldSchemas(GetSchema(s)) : s \in {t \in schemas : HasSchema(t)}}
    IN  IF more = schemas THEN schemas ELSE ReachedBy[more]
Reached(schema) == ReachedBy[FieldSchemas(schema)]

\* makeBlendedFrom: a queue of fields, in which the fields of a nested field's
\* schema take its place at the end.  It ends unless the schema is recursive.
Fields == UNION {ToSet(d.fields) : d \in Given \cup Definitions}
Flat[queue \in Seq(Fields)] ==
    IF queue = <<>> THEN <<>>
    ELSE IF Nested(Head(queue)) THEN Flat[Tail(queue) \o GetSchema(Head(queue).type).fields]
    ELSE <<Head(queue)>> \o Flat[Tail(queue)]

\* What the schemas on the way inherit is inherited as well.
Blended(schema) ==
    Schema(BlendedName[schema.name],
           Flat[schema.fields],
           SetToSeq(Inherits(schema) \cup UNION {Inherits(GetSchema(s)) : s \in Reached(schema)}))

-----------------------------------------------------------------------------
(* saveSchemaToDisk, in two steps; the schema is cached afterwards unless    *)
(* the cache has one of its name.                                            *)
SchemaTruncated(schema) ==
    schemaFile' = IF schema.name = TornSchema THEN schemaFile
                  ELSE [schemaFile EXCEPT ![schema.name] = TornSchema]

SchemaWritten(schema) ==
    schemaFile' = IF schema.name = TornSchema THEN schemaFile
                  ELSE [schemaFile EXCEPT ![schema.name] = schema]

Cached(schema) ==
    schemaCache' = [schemaCache EXCEPT ![schema.name] = IF @ = NoSchema THEN schema ELSE @]

=============================================================================
