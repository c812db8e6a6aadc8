------------------------- MODULE MCControlConnection -------------------------
(***************************************************************************)
(* Instances of ControlConnection for TLC: two clients that share a pass    *)
(* and the second client barred, one client and signals, commands without  *)
(* an answer, requests with an error, three requests in one read, and a    *)
(* client that leaves or goes on behind a POST that has no answer.         *)
(***************************************************************************)
EXTENDS ControlConnection

CONSTANTS c1, c2

Get(path, keep) ==
  [path |-> path, post |-> FALSE, keep |-> keep, user |-> TRUE, params |-> TRUE]

Post(path) == [Get(path, TRUE) EXCEPT !.post = TRUE]

Scene(daemon, first, second, leave, barred, sigs) ==
  [daemon |-> daemon, asks |-> (c1 :> first) @@ (c2 :> second),
   leave |-> leave, barred |-> barred, signals |-> sigs]

MCScenes ==
  {Scene("auctioneer", <<Get("/", TRUE), Get("/get_info", TRUE)>>,
         <<Post("/get_modinfo")>>, {c1}, {}, {}),
   Scene("agent", <<Get("/get_info", FALSE)>>, <<Post("/add_request")>>,
         {c1}, {c2}, {}),
   Scene("agent", <<Post(ShellPath("add_req")), Post(ShellPath("get_info"))>>, <<>>,
         {c1}, {}, {"S", "D"}),
   Scene("auctioneer", <<Get("/add_auction", TRUE)>>, <<Get("/", TRUE)>>, {}, {}, {}),
   Scene("agent", <<[Post("/get_info") EXCEPT !.params = FALSE],
                    [Get("/", TRUE) EXCEPT !.user = FALSE]>>,
         <<Get("malformed", TRUE)>>, {}, {}, {}),
   Scene("agent", <<Get("/", TRUE), Get("/help", TRUE), Get("/get_info", TRUE)>>,
         <<>>, {}, {}, {}),
   Scene("agent", <<Post("/add_request"), Get("/get_info", TRUE)>>, <<>>, {c1}, {}, {})}

MCWorks == {1}
==============================================================================
