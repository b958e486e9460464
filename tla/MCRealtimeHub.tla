--------------------------- MODULE MCRealtimeHub ---------------------------
(* Instance of RealtimeHub for TLC. *)
EXTENDS RealtimeHub, TLC

CONSTANTS a, b,           \* two API processes
          s1, s2,         \* scoped connections of a; s2 comes late
          c1,             \* a client of b
          e1, e2          \* an event of a, an event of b

HomeOf   == s1 :> a @@ s2 :> a @@ c1 :> b
OriginOf == e1 :> a @@ e2 :> b
\* Both have Redis, or b has not.
Without == {{}, {b}}
\* Both scoped endpoints follow what e1 names; they listen to the type of e2 as well,
\* which names another agent or task.
HeardAs  == e1 :> {s1, s2} @@ e2 :> {s1, s2}
Names    == e1 :> {s1, s2} @@ e2 :> {}
=============================================================================
