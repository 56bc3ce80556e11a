----------------------------- MODULE MCPrepare ------------------------------
(* Public addresses of both families, one of them also in its mapped form, a *)
(* listed one, and a listed one with a zone.                                 *)
EXTENDS Prepare

Addr(i, f, l, z) == [id |-> i, form |-> f, listed |-> l, zoned |-> z]

MCAddresses ==
    { Addr(1, "v4", FALSE, FALSE), Addr(1, "v4in6", FALSE, FALSE),
      Addr(2, "v4", FALSE, FALSE), Addr(3, "v6", FALSE, FALSE),
      Addr(4, "v6", FALSE, FALSE), Addr(5, "v4in6", TRUE, FALSE),
      Addr(6, "v6", TRUE, TRUE) }

=============================================================================
