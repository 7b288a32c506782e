---------------------------- MODULE ProvenanceMC -----------------------------
(***************************************************************************)
(* A job of two agents alone, and two jobs of one agent each side by side,  *)
(* one of which asks for a datanet by its id.  Of three datanets one has    *)
(* the domain of the jobs and one is hit by their text; they come and go in *)
(* the listing.  Pod "p" has two editions.                                  *)
(***************************************************************************)
EXTENDS Provenance

Net(id, domains, approval, hits) ==
  [id |-> id, domains |-> domains, approval |-> approval, hits |-> [open |-> hits, named |-> 0, other |-> hits]]
N1 == Net("n1", {"defi"}, 4, 0)
N2 == Net("n2", {"art"}, 9, 0)
N3 == Net("n3", {}, 6, 1)
MCListings == { <<N1, N2, N3>>, <<N3, N1>>, <<N1>>, <<>> }

Job(id, explicit, crew) ==
  [id |-> id, explicit |-> explicit, domains |-> {"art"}, terms |-> TRUE, crew |-> crew]
MCJobs == { Job("open", <<>>, {"x", "y"}), Job("other", <<>>, {"x"}), Job("named", <<"n1">>, {"x"}) }
MCTogether == { {"open"}, {"other", "named"} }

Row(source, edition, net, pod) == [source |-> source, edition |-> edition, net |-> net, pod |-> pod]
P1 == Row("p", 1, "n1", TRUE)
P2 == Row("p", 2, "n1", TRUE)
Q == Row("q", 1, "n2", TRUE)
W == Row("w", 1, "none", FALSE)

Reading(read, cited) == [read |-> read, cited |-> cited]
MCReadings == { Reading({P1, W}, {P1, W}), Reading({P1, P2}, {P1, P2}), Reading({Q, W}, {Q}) }
==============================================================================
