---------------------------- MODULE MCUserMapper ----------------------------
(* Instances of UserMapper for TLC.                                        *)
EXTENDS UserMapper, TLC

Condition(column, op, values) == [column |-> column, op |-> op, values |-> values]

SomeConditions ==
  { Condition("id", "=", <<Null>>), Condition("id", ">=", <<2>>),
    Condition("id", "in", <<>>),
    Condition("name", "is null", <<>>), Condition("name", "not in", <<1, Null>>) }

Rows == 1 :> 1 @@ 2 :> Null @@ 3 :> 2
=============================================================================
