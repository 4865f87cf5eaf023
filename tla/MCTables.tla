------------------------------ MODULE MCTables ------------------------------
(* Table tp with a nested field in table tc: p1 refers to c1 and p2 to c2.     *)
(* Table tx has another name and is in another database.  An earlier session   *)
(* has left p1, c1 and x1.                                                     *)
EXTENDS TableWalHistory, TLC

CONSTANTS tp, tc, tx, p1, p2, c1, c2, x1, short, other, long

MCTableOf  == p1 :> tp @@ p2 :> tp @@ c1 :> tc @@ c2 :> tc @@ x1 :> tx
MCChildOf  == tp :> tc @@ tc :> None @@ tx :> None
MCRefOf    == p1 :> c1 @@ p2 :> c2 @@ c1 :> None @@ c2 :> None @@ x1 :> None
MCStored   == tp :> <<Slot(p1, short, "0")>> @@ tc :> <<Slot(c1, long, "0")>>
                @@ tx :> <<Slot(x1, short, "0")>>
MCInserted == [r \in Rids |-> {short}]
MCSize     == short :> 1 @@ other :> 1 @@ long :> 2
TwoDatabases == [pair \in Tables \X Tables |-> (pair[1] = tx) # (pair[2] = tx)]

=============================================================================
