---- MODULE MCMaintenance ----
(* Maintenance for TLC: two tools, a class for one and a class for both. *)
EXTENDS Maintenance

CONSTANTS a, b, one, both

Both(t) == {<<t, "success">>, <<t, "rejection">>}

Files == {"pins", "lock"}

Policy(first, second) == [k \in {one, both} |-> IF k = one THEN first ELSE second]

Admits(m, d, g, p, r) == [moves |-> m, detail |-> d, guards |-> g, of |-> p, runs |-> r]

\* A policy that protects what its classes do not move and one that leaves that
\* out, each with a pack that expects some tool to refuse nothing; and two that the
\* check of policies refuses: a pack leaves a tool out, a composite a protection.
MCPolicies ==
  {Policy(Admits({a}, TRUE, Files, {}, {<<a, "success">>}),
          Admits({a, b}, FALSE, Files, {one}, {<<a, "success">>} \cup Both(b))),
   Policy(Admits({b}, TRUE, {}, {}, Both(b)),
          Admits({a, b}, FALSE, {}, {one}, {<<a, "success">>, <<b, "success">>})),
   Policy(Admits({a}, FALSE, Files, {}, Both(a)),
          Admits({a, b}, FALSE, Files, {one}, Both(a))),
   Policy(Admits({a}, FALSE, Files, {}, Both(a)),
          Admits({b}, FALSE, {}, {one}, Both(b)))}
====
