----------------------------- MODULE AgentRunMC -----------------------------
(***************************************************************************)
(* Two datanets.  The public surface ignores its datanet filter, n2 is      *)
(* permissioned and known to the credential only, which also owns a draft   *)
(* in each, and two datanets more.  It owns more than a page of either kind *)
(* holds: /me/pods keeps to its limit, /me/subnets does not.  The           *)
(* recordings hold n1, one pod of it and one of n2.                         *)
(***************************************************************************)
EXTENDS AgentRun

Pod(id, net, up, down, banned, text) ==
  [id |-> id, net |-> net, up |-> up, down |-> down, banned |-> banned, text |-> text]
Net(id) == [id |-> id, net |-> id, text |-> TRUE]

PublicPods == << Pod("p1", "n1", 6, 0, FALSE, TRUE), Pod("p2", "n2", 3, 4, FALSE, TRUE) >>
OwnPods == << Pod("p2", "n2", 3, 4, FALSE, TRUE), Pod("p3", "n1", 0, 0, FALSE, TRUE),
              Pod("p5", "n2", 0, 0, FALSE, FALSE) >>
OwnNets == << [Net("n3") EXCEPT !.text = FALSE], Net("n2"), Net("n4") >>
StrayPod == Pod("p4", "anywhere", 2, 2, TRUE, TRUE)

One(rows, id) == SelectSeq(rows, LAMBDA r : r.id = id)

MCPublic(path) ==
  CASE path[2] = "datanets" -> << Net("n1") >>
    [] path[2] = "datanet" -> One(<< Net("n1") >>, path[3])
    [] path[2] = "pod" -> One(PublicPods, path[3])
    [] OTHER -> PublicPods \o << StrayPod >>

MCMine(path) ==
  CASE path[2] = "datanets" -> OwnNets
    [] path[2] = "datanet" -> One(OwnNets, path[3])
    [] path[2] = "pod" -> One(OwnPods, path[3])
    [] OTHER -> Slice(OwnPods, path[4])

MCOwned(kind) == IF kind = "datanets" THEN OwnNets ELSE OwnPods

MCRecorded(kind) ==
  IF kind = "datanets" THEN << Net("n1") >>
  ELSE << Pod("p1", "n1", 2, 0, FALSE, TRUE), Pod("f1", "n2", 4, 1, FALSE, TRUE) >>

MCWebPage == [id |-> "web", net |-> "anywhere", text |-> TRUE, quality |-> 35]

AllTools == << "reppo_list_datanets", "reppo_search_data", "reppo_get_datanet_data",
               "compute_evidence_stats", "http_get" >>
MCToolsets == { AllTools, << "shell" >>, << "reppo_list_datanets" >> }
MCScopes == { <<>>, << "n1" >> }

Lookup(kind, arg) == [kind |-> kind, arg |-> arg]
MCLookups == { Lookup("datanet", "n1"), Lookup("datanet", "n2"), Lookup("pod", "p3"), Lookup("pod", "p9"),
               Lookup("datanets", Anywhere), Lookup("data", "n1"), Lookup("data", "n2") }

MCInit ==
  \/ AgentInit /\ (run.tools # AllTools => run.vendor \in {"mock", "openai"} /\ run.scope = <<>>)
  \/ LookupInit

MCSpec == MCInit /\ [][AgentNext]_agentVars

=============================================================================
