-------------------------- MODULE MCReleaseHarness --------------------------
(* Command lines that pass validateConfig, in both backends, and ones that  *)
(* differ from those in a single option.                                    *)
EXTENDS ReleaseHarness

Entries == [match : BOOLEAN, size : {"empty", "fits", "huge"}]

Plain(backend) ==
    [binary |-> TRUE, glob |-> "none", name |-> FALSE, positive |-> TRUE,
     ports |-> <<45565, 45566, 49132, 65535>>, backend |-> backend, named |-> TRUE,
     version |-> FALSE, image |-> TRUE, matches |-> 0, format |-> "zip",
     entries |-> <<>>]

Archived(backend) ==
    {[Plain(backend) EXCEPT !.binary = FALSE, !.glob = "given", !.name = TRUE,
                            !.matches = m, !.format = f, !.entries = <<e, g>>] :
        m \in 0 .. 2, f \in {"tar.gz", "other"}, e \in Entries, g \in Entries}

OneOff(o) ==
    {[o EXCEPT !.glob = "blank"], [o EXCEPT !.glob = "given"],
     [o EXCEPT !.name = TRUE], [o EXCEPT !.binary = FALSE],
     [o EXCEPT !.positive = FALSE], [o EXCEPT !.ports[3] = 0],
     [o EXCEPT !.ports[4] = 65536], [o EXCEPT !.backend = "other"],
     [o EXCEPT !.named = FALSE], [o EXCEPT !.version = TRUE],
     [o EXCEPT !.image = FALSE]}

MCOptions ==
    UNION {{Plain(b)} \cup OneOff(Plain(b)) \cup Archived(b) : b \in {"binary", "container"}}

=============================================================================
