----------------------------- MODULE AsicServer -----------------------------
(***************************************************************************)
(* The persistent vvp servers of the gating and node ASICs, and the Go     *)
(* clients that ask them (gating_harness.go, node_harness.go, with         *)
(* tb_gating_server.v and tb_node_server.v): a request is an input file    *)
(* and a marker, an answer a result file and a marker, in a directory per  *)
(* unit that outlives the processes.                                       *)
(*                                                                         *)
(* A unit is a gated layer or a (layer, expert) node.  Weights are named   *)
(* by the model they come from and vectors are opaque; an answer is the    *)
(* term <<weights, unit, input>>.                                          *)
(***************************************************************************)
EXTENDS Integers, Sequences, FiniteSets, TLC

CONSTANTS GateUnits,     \* gated layers
          NodeUnits,     \* nodes
          SlowBoot       \* may a server take longer than the boot's ten minutes?

VARIABLES files,         \* the files there are, by <<unit, kind, n>>
          servers,       \* every vvp process ever started
          procs,         \* the client's own processes, by unit
          count,         \* the next request, by unit (asicProc.n)
          call           \* the request the client is making

Units == GateUnits \cup NodeUnits
asicVars == <<files, servers, procs, count, call>>

Absent == <<>>           \* contents are tuples
Unclosed == <<0>>      \* a file opened for writing and not closed yet
NoCall == [unit |-> "none", step |-> "none", input |-> Absent, answer |-> Absent]
NoProc == <<>>           \* no process

Written(name, content) ==
  [f \in DOMAIN files \cup {name} |-> IF f = name THEN content ELSE files[f]]
Removed(names) == [f \in DOMAIN files \ names |-> files[f]]
Content(name)  == IF name \in DOMAIN files THEN files[name] ELSE Absent

InputFile(u) == <<u, "in", count[u]>>
GoFile(u)    == <<u, "go", count[u]>>
ResFile(u)   == <<u, "res", count[u]>>
DoneFile(u)  == <<u, "done", count[u]>>

(* A mutant: a previous run's request markers stay.                        *)
MarkersOfAnswers(u) == { f \in DOMAIN files : f[1] = u /\ f[2] \in {"res", "done"} }

(* "Clear stale request/response markers from a previous run".             *)
Markers(u) == { f \in DOMAIN files : f[1] = u /\ f[2] \in {"go", "res", "done"} }

-----------------------------------------------------------------------------
(* The server, one file operation at a time.                               *)
Server(u) == [unit |-> u, pc |-> "load", n |-> 0, weights |-> Absent, input |-> Absent]

Named(s, kind) == <<s.unit, kind, s.n>>
Goes(p, pc)    == servers' = [servers EXCEPT ![p].pc = pc]

LoadWeights(p) ==
  /\ servers[p].pc = "load"
  /\ servers' = [servers EXCEPT ![p].weights = Content(<<servers[p].unit, "w", 0>>),
                                ![p].pc = "announce"]
  /\ UNCHANGED files

Announce(p) ==
  /\ servers[p].pc = "announce" /\ Goes(p, "wait")
  /\ files' = Written(<<servers[p].unit, "status", 0>>, "ready")

SeeRequest(p) ==
  /\ servers[p].pc = "wait" /\ Named(servers[p], "go") \in DOMAIN files
  /\ Goes(p, "read") /\ UNCHANGED files

(* $readmemh leaves the memory as it is when the file is gone.             *)
ReadInput(p) ==
  /\ servers[p].pc = "read"
  /\ LET got == Content(Named(servers[p], "in"))
     IN  servers' = [servers EXCEPT ![p].input = IF got = Absent THEN @ ELSE got, ![p].pc = "open"]
  /\ UNCHANGED files

OpenResult(p) ==
  /\ servers[p].pc = "open" /\ Goes(p, "close")
  /\ files' = Written(Named(servers[p], "res"), Unclosed)

(* Only then is the text there; a file removed meanwhile stays removed.    *)
CloseResult(p) ==
  LET s == servers[p]
      name == Named(s, "res")
  IN  /\ s.pc = "close" /\ Goes(p, "mark")
      /\ files' = IF name \in DOMAIN files THEN Written(name, <<s.weights, s.unit, s.input>>)
                  ELSE files

MarkDone(p) ==
  /\ servers[p].pc = "mark"
  /\ files' = Written(Named(servers[p], "done"), "done")
  /\ servers' = [servers EXCEPT ![p].n = @ + 1, ![p].pc = "wait"]

(* A vvp process may die (killed, out of memory, a corrupt image).         *)
ServerExit(p) == servers[p].pc # "dead" /\ Goes(p, "dead") /\ UNCHANGED files

Serve ==
  /\ \E p \in DOMAIN servers :
       \/ LoadWeights(p) \/ Announce(p) \/ SeeRequest(p) \/ ReadInput(p)
       \/ OpenResult(p) \/ CloseResult(p) \/ MarkDone(p) \/ ServerExit(p)
  /\ UNCHANGED <<procs, count, call>>

-----------------------------------------------------------------------------
(* The client's side.  bootLayer, up to the wait for status.txt: markers   *)
(* cleared, weights written, the process started.                          *)
BootLayer(u, model) ==
  /\ LET weights == <<u, "w", 0>>
         kept == DOMAIN files \ (Markers(u) \cup {<<u, "status", 0>>})
     IN  files' = [f \in kept \cup {weights} |-> IF f = weights THEN model ELSE files[f]]
  /\ servers' = Append(servers, Server(u)) /\ procs' = [procs EXCEPT ![u] = <<Len(servers) + 1>>]
  /\ count' = [count EXCEPT ![u] = 0]

(* The node's client does the same in three calls (boot when it is made,   *)
(* BuildWeightHex, Start).                                                 *)
NodeBoot(u) ==
  /\ files' = Removed(Markers(u)) /\ count' = [count EXCEPT ![u] = 0]
  /\ UNCHANGED <<servers, procs>>

BuildWeightHex(u, model) ==
  files' = Written(<<u, "w", 0>>, model) /\ UNCHANGED <<servers, procs, count>>

Start(u) ==
  /\ files' = Removed({<<u, "status", 0>>})
  /\ servers' = Append(servers, Server(u)) /\ procs' = [procs EXCEPT ![u] = <<Len(servers) + 1>>]
  /\ UNCHANGED count

(* waitFile on status.txt: any process of the directory may have made it;  *)
(* without it, the client's own has exited, or is late.                    *)
StatusSeen(u) == <<u, "status", 0>> \in DOMAIN files
StatusFails(u, p) == ~StatusSeen(u) /\ (SlowBoot \/ servers[p].pc = "dead")

(* A boot that fails is not in the client's table: its process is not      *)
(* killed with the others.                                                 *)
Forgotten(u) == [procs EXCEPT ![u] = NoProc]

(* Close kills the client's processes.                                     *)
Killed == [p \in DOMAIN servers |->
             IF \E u \in Units : procs[u] = <<p>> THEN [servers[p] EXCEPT !.pc = "dead"]
             ELSE servers[p]]

-----------------------------------------------------------------------------
(* Route, Expert: a request, one file operation at a time.                 *)
Ask(u, input) == call' = [unit |-> u, step |-> "input", input |-> input, answer |-> Absent]

CallGoes(to) == call' = [call EXCEPT !.step = to]
CallAt(step) == call.step = step

WriteInput ==
  /\ CallAt("input") /\ CallGoes("unmark") /\ files' = Written(InputFile(call.unit), call.input)

RemoveDone ==
  /\ CallAt("unmark") /\ CallGoes("unanswer") /\ files' = Removed({DoneFile(call.unit)})

RemoveRes ==
  /\ CallAt("unanswer") /\ CallGoes("go") /\ files' = Removed({ResFile(call.unit)})

WriteGo ==
  /\ CallAt("go") /\ CallGoes("poll") /\ files' = Written(GoFile(call.unit), Unclosed)

SeeDone ==
  /\ CallAt("poll") /\ DoneFile(call.unit) \in DOMAIN files
  /\ CallGoes("parse") /\ UNCHANGED files

RouteTimeout ==
  /\ CallAt("poll") /\ DoneFile(call.unit) \notin DOMAIN files
  /\ CallGoes("failed") /\ UNCHANGED files

(* A result that is missing or cut short is an error.                      *)
Parse ==
  /\ CallAt("parse") /\ UNCHANGED files
  /\ LET got == Content(ResFile(call.unit))
     IN  call' = IF got \in {Absent, Unclosed} THEN [call EXCEPT !.step = "failed"]
                 ELSE [call EXCEPT !.step = "tidy", !.answer = got]

Tidy(keepFiles) ==
  LET u == call.unit
  IN  /\ CallAt("tidy") /\ CallGoes("returned")
      /\ files' = IF keepFiles THEN files
                  ELSE Removed({InputFile(u), GoFile(u), ResFile(u), DoneFile(u)})
      /\ count' = [count EXCEPT ![u] = @ + 1]

Request(keepFiles) ==
  /\ \/ /\ WriteInput \/ RemoveDone \/ RemoveRes \/ WriteGo \/ SeeDone \/ RouteTimeout \/ Parse
        /\ UNCHANGED count
     \/ Tidy(keepFiles)
  /\ UNCHANGED <<servers, procs>>

AsicInit ==
  /\ files = <<>> /\ servers = <<>> /\ call = NoCall
  /\ procs = [u \in Units |-> NoProc] /\ count = [u \in Units |-> 0]

-----------------------------------------------------------------------------
(* What a request returns is the answer to its own input with the weights  *)
(* its client loaded, whatever earlier runs left in the directory and      *)
(* whenever the server got round to it (gating_harness.go Route).          *)
AnswersItsRequest(model) ==
  call.step \in {"tidy", "returned"} => call.answer = <<model, call.unit, call.input>>
=============================================================================
