------------------------------- MODULE MCLookups -------------------------------
(***************************************************************************)
(* An instance of Lookups for TLC.                                         *)
(***************************************************************************)
EXTENDS Lookups

MCLists ==
  UNION {[1..n -> [address : BOOLEAN, role : {"master", "sync"}, default : BOOLEAN]] : n \in 0..3}

MCValues == {<<>>} \cup {<<t>> : t \in Tokens} \cup {<<"name", t>> : t \in Tokens}
            \cup {<<"name", "dot", t>> : t \in Tokens}

\* One parameter in every form, and a second one before or after it.
MCRequests ==
  [path : {<<>>} \cup {<<"name">>} \cup {<<t, u>> : t \in Tokens \ {"name"}, u \in {"colon", "colon%"}},
   query : {<<>>} \cup {<<<<k, v>>>> : k \in {"a", "service"}, v \in MCValues}
           \cup {<<<<k, <<t>>>>, <<"service", v>>>> :
                   k \in {"a", "z", "service"}, t \in {"colon", "colon%", "s", "db%"}, v \in MCValues}]
=============================================================================
