---------------------------- MODULE MCServiceConfig ----------------------------
(***************************************************************************)
(* Instances of ServiceConfig for TLC.                                     *)
(***************************************************************************)
EXTENDS ServiceConfig, TLC

CONSTANTS foo, Foo, bar, a1, a2, i1, h1, h2

MCSpellings == {foo, Foo, bar}
MCKeyOf == (foo :> foo) @@ (Foo :> foo) @@ (bar :> bar)

MCEndpoints == {[address |-> a1, instance |-> i1], [address |-> a2, instance |-> None]}

\* A table that holds f for foo, under either spelling, and b for bar, or not.
MCTables(f, b) ==
  {t \in [MCSpellings -> {f, b, None}] :
     /\ t[foo] \in {f, None} /\ t[Foo] \in {f, None} /\ t[bar] \in {b, None}
     /\ t[foo] = None \/ t[Foo] = None}

MCBlank == [s \in MCSpellings |-> None]

\* Hand-edited services with discovery configured, and every way of naming the
\* discovery with one service or none.
MCDisks ==
  {[scheme |-> "http", host |-> h1, legacy |-> None, active |-> a, names |-> ns,
    table |-> [address |-> ta, instance |-> ti], current |-> c] :
     a \in MCSpellings \cup {None},
     ns \in UNION {[1..n -> MCSpellings \cup {None}] : n \in 0..2},
     ta \in MCTables(a1, a2), ti \in {MCBlank, [MCBlank EXCEPT ![Foo] = i1]},
     c \in MCEndpoints \cup {Nothing}}
  \cup
  {[scheme |-> sc, host |-> h, legacy |-> l, active |-> a, names |-> <<>>,
    table |-> [address |-> MCBlank, instance |-> MCBlank],
    current |-> [address |-> ca, instance |-> None]] :
     sc \in Schemes \cup {None}, h \in {h1, None},
     l \in [scheme : Schemes, host : {h1, h2}] \cup {Garbled, None},
     a \in {Foo, None}, ca \in {a1, None}}
=============================================================================
