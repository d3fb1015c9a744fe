-------------------------- MODULE MCChildProcess --------------------------
(***************************************************************************)
(* An instance of ChildProcess for TLC: a server whose configuration file  *)
(* declares a content handler "app", an access handler "guard" and an      *)
(* incomplete handler "half", and locations that use them in each way.     *)
(***************************************************************************)
EXTENDS ChildProcess

CONSTANTS app, guard, half, ghost

HandlerOf(name) ==
    [k \in Key |-> IF k \in HandlerKeys THEN name ELSE NULL]

MCConfig ==
    [NewServerConfig EXCEPT
        !.declared = {app, guard, half},
        !.handlers = [h \in HandlerName |->
            IF h \in {app, guard} THEN HandlerOf(h)
            ELSE IF h = half
                 THEN [EmptyTable EXCEPT !["RubyHandlerModule"] = half]
                 ELSE EmptyTable]]

(* Handlers are named by the location's own RubyHandler and                *)
(* RubyAccessHandler directives; at "routed" only the notes an access      *)
(* handler writes can name one.                                            *)
Directory(content, access) ==
    [EmptyTable EXCEPT !["RubyHandler"] = content,
                       !["RubyAccessHandler"] = access]

MCLocation == {"guarded", "broken", "unguarded", "routed"}

MCDirOptions ==
    [loc \in MCLocation |->
        CASE loc = "guarded"   -> Directory(app, guard)
          [] loc = "broken"    -> Directory(half, half)
          [] loc = "unguarded" -> Directory(ghost, ghost)
          [] loc = "routed"    -> Directory(NULL, guard)]

===========================================================================
