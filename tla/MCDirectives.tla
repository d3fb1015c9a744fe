--------------------------- MODULE MCDirectives ---------------------------
(***************************************************************************)
(* Instances of Directives for TLC.                                        *)
(***************************************************************************)
EXTENDS Directives, TLC

CONSTANTS h1, h2,
          Hosted      \* sections inside the virtual host

MCHostOf == [d \in Section |->
    IF d \in Hosted THEN CHOOSE s \in Server : s # Global ELSE Global]

(* The handlers h1 and h2 as the documentation's examples declare them:    *)
(* complete routes, and one variable of their own each.  This is the state *)
(* after ten directive lines, counted out of the bound.                    *)
DeclaredHandler(h) ==
    [k \in Key |-> IF k \in HandlerKeys \union Option THEN h ELSE NULL]

InitDeclared ==
    /\ phase = "config"
    /\ lines = 0
    /\ created = {Global}
    /\ server = [s \in Server |->
          IF s = Global
          THEN [NewServerConfig EXCEPT
                  !.declared = {h1, h2},
                  !.handlers = [h \in HandlerName |->
                      IF h \in {h1, h2} THEN DeclaredHandler(h) ELSE EmptyTable]]
          ELSE NewServerConfig]
    /\ dir = [d \in Section |-> EmptyTable]
    /\ file = [c \in Context |-> EmptyTable]
    /\ req = NoRequest

SpecDeclared == InitDeclared /\ [][Next]_vars

===========================================================================
