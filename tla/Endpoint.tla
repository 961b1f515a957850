------------------------------- MODULE Endpoint -------------------------------
(***************************************************************************)
(* The Unix socket a server is reached at: how the write broker            *)
(* (UnixWriteBrokerServer) and the MCP server (_run_streamable_http_unix)  *)
(* take a path over from a process that died, serve at it, and leave it.   *)
(*                                                                         *)
(*   service   the server of this path: "broker" or "mcp"                  *)
(*   path      the socket file at the path, or NoInode                     *)
(*   pc        what each process is about to do                            *)
(*   run       the number of its start; bind makes a new inode, named here *)
(*             by the start that made it                                   *)
(*   saw       the inode its start found at the path (existing)            *)
(*   ident     the inode it takes for its own (_socket_identity)           *)
(*                                                                         *)
(* Nothing excludes a second process: broker.lock is held while a request  *)
(* is handled, not for the life of a broker. Each step is one system call. *)
(* crossed is a history variable: the starts during which another process  *)
(* was starting or stopping, or, for the MCP server, which does not look   *)
(* whether it is alone, alive at all.                                      *)
(***************************************************************************)
EXTENDS Naturals

CONSTANTS Processes, NoInode,
          MaxStarts,   \* bound on the number of starts
          MaxFailures  \* bound on kills and failing system calls

ASSUME EndpointAssumption == /\ NoInode \notin Nat
                             /\ MaxStarts \in Nat /\ MaxFailures \in Nat

VARIABLES service, path, pc, run, saw, ident, starts, failures, crossed

endpointVars == <<service, path, pc, run, saw, ident, starts, failures, crossed>>

Starting == {"look", "probe", "recheck", "unlink", "bind", "identify", "listen", "chmod"}
Stopping == {"close", "remove"}

Starts(p) == pc[p] \in Starting
Alive(p) == pc[p] # "off"

\* A connect to the path reaches p: the broker listens before it sets the
\* mode of the socket, the MCP server after it.
Listens(p) == pc[p] = "serving" \/ (service = "broker" /\ pc[p] = "chmod")

InitEndpoint ==
    /\ service \in {"broker", "mcp"}
    /\ path = NoInode
    /\ pc = [p \in Processes |-> "off"]
    /\ run = [p \in Processes |-> 0]
    /\ saw = [p \in Processes |-> NoInode]
    /\ ident = [p \in Processes |-> NoInode]
    /\ starts = 0 /\ failures = 0
    /\ crossed = {}

Go(p, label) == pc' = [pc EXCEPT ![p] = label]

\* p ends and forgets everything.
Exit(p) == /\ Go(p, "off")
           /\ saw' = [saw EXCEPT ![p] = NoInode]
           /\ ident' = [ident EXCEPT ![p] = NoInode]

-----------------------------------------------------------------------------
(* Starting *)

Start(p) ==
    LET others == {q \in Processes : Alive(q) /\ (service = "mcp" \/ pc[q] # "serving")} IN
    /\ pc[p] = "off" /\ starts < MaxStarts
    /\ Go(p, "look")
    /\ starts' = starts + 1
    /\ run' = [run EXCEPT ![p] = starts']
    /\ crossed' = IF others = {} THEN crossed
                  ELSE crossed \union {starts'} \union {run[q] : q \in others}
    /\ UNCHANGED <<service, path, saw, ident, failures>>

\* The path is inspected. The MCP server replaces whatever socket is there.
Look(p) ==
    /\ pc[p] = "look"
    /\ saw' = [saw EXCEPT ![p] = path]
    /\ Go(p, IF path = NoInode THEN "bind" ELSE IF service = "broker" THEN "probe" ELSE "unlink")
    /\ UNCHANGED <<service, path, run, ident, starts, failures, crossed>>

\* Mutant: a refused connection is no proof that the socket is stale.
ProbeOrRefuse(p) ==
    /\ pc[p] = "probe"
    /\ IF path = NoInode THEN Go(p, "bind") /\ UNCHANGED <<saw, ident>> ELSE Exit(p)
    /\ UNCHANGED <<service, path, run, starts, failures, crossed>>

\* The broker connects to the socket it found. A server that answers is left
\* in peace; a connection that is refused, though a file is there, is proof
\* that the socket is stale.
Probe(p) ==
    /\ pc[p] = "probe"
    /\ \/ path = NoInode /\ Go(p, "bind") /\ UNCHANGED <<saw, ident>>
       \/ (\E q \in Processes : Listens(q) /\ run[q] = path) /\ Exit(p)
       \/ /\ path # NoInode
          /\ \A q \in Processes : Listens(q) => run[q] # path
          /\ Go(p, "recheck") /\ UNCHANGED <<saw, ident>>
    /\ UNCHANGED <<service, path, run, starts, failures, crossed>>

LookAgain(p) ==
    /\ pc[p] = "recheck"
    /\ \/ path = NoInode /\ Go(p, "bind") /\ UNCHANGED <<saw, ident>>
       \/ path = saw[p] /\ Go(p, "unlink") /\ UNCHANGED <<saw, ident>>
       \/ path \notin {NoInode, saw[p]} /\ Exit(p)
    /\ UNCHANGED <<service, path, run, starts, failures, crossed>>

\* The file may be another one by now, or gone: then unlink fails.
Unlink(p) ==
    /\ pc[p] = "unlink"
    /\ path' = NoInode
    /\ IF path = NoInode THEN Exit(p) ELSE Go(p, "bind") /\ UNCHANGED <<saw, ident>>
    /\ UNCHANGED <<service, run, starts, failures, crossed>>

\* A path that exists again is not bound. The broker then leaves it alone; the
\* MCP server removes the socket it finds there, as after any failed start.
Bind(p) ==
    /\ pc[p] = "bind"
    /\ \/ /\ path = NoInode
          /\ path' = run[p]
          /\ Go(p, IF service = "broker" THEN "identify" ELSE "chmod")
          /\ UNCHANGED <<saw, ident>>
       \/ /\ path # NoInode
          /\ IF service = "broker" THEN Exit(p) ELSE Go(p, "close") /\ UNCHANGED <<saw, ident>>
          /\ UNCHANGED path
    /\ UNCHANGED <<service, run, starts, failures, crossed>>

\* The broker takes what is at the path now for what it has bound.
Identify(p) ==
    /\ pc[p] = "identify"
    /\ IF path = NoInode THEN Exit(p)
       ELSE Go(p, "listen") /\ ident' = [ident EXCEPT ![p] = path] /\ UNCHANGED saw
    /\ UNCHANGED <<service, path, run, starts, failures, crossed>>

Listen(p) ==
    /\ pc[p] = "listen"
    /\ Go(p, IF service = "broker" THEN "chmod" ELSE "serving")
    /\ UNCHANGED <<service, path, run, saw, ident, starts, failures, crossed>>

\* The mode of whatever is at the path is set; without a file this fails, and
\* a failed start is closed like a server that stops.
Chmod(p) ==
    /\ pc[p] = "chmod"
    /\ Go(p, CASE path = NoInode -> "close" [] service = "broker" -> "serving" [] OTHER -> "listen")
    /\ UNCHANGED <<service, path, run, saw, ident, starts, failures, crossed>>

-----------------------------------------------------------------------------
(* Stopping *)

\* The server is told to stop, or its start fails after bind: its listener is
\* closed first. This crosses the starts that are under way.
StopOrFail(p) ==
    /\ \/ pc[p] = "serving" /\ UNCHANGED failures
       \/ /\ pc[p] \in {"listen", "chmod"}
          /\ failures < MaxFailures /\ failures' = failures + 1
    /\ Go(p, "close")
    /\ crossed' = crossed \union {run[q] : q \in {x \in Processes \ {p} : Starts(x)}}
    /\ UNCHANGED <<service, path, run, saw, ident, starts>>

\* Mutant: the broker does not look whose socket it removes.
CloseAny(p) ==
    /\ pc[p] = "close"
    /\ IF path # NoInode THEN Go(p, "remove") /\ UNCHANGED <<saw, ident>> ELSE Exit(p)
    /\ UNCHANGED <<service, path, run, starts, failures, crossed>>

\* Only the broker compares the file with its own.
Close(p) ==
    /\ pc[p] = "close"
    /\ IF path # NoInode /\ (service = "mcp" \/ path = ident[p])
       THEN Go(p, "remove") /\ UNCHANGED <<saw, ident>>
       ELSE Exit(p)
    /\ UNCHANGED <<service, path, run, starts, failures, crossed>>

Remove(p) ==
    /\ pc[p] = "remove"
    /\ path' = NoInode
    /\ Exit(p)
    /\ UNCHANGED <<service, run, starts, failures, crossed>>

\* A kill leaves the socket file behind, and nobody listening to it.
Kill(p) ==
    /\ Alive(p)
    /\ failures < MaxFailures /\ failures' = failures + 1
    /\ Exit(p)
    /\ UNCHANGED <<service, path, run, starts, crossed>>

NextEndpoint ==
    \E p \in Processes :
        \/ Start(p) \/ Look(p) \/ Probe(p) \/ LookAgain(p) \/ Unlink(p)
        \/ Bind(p) \/ Identify(p) \/ Listen(p) \/ Chmod(p)
        \/ StopOrFail(p) \/ Close(p) \/ Remove(p) \/ Kill(p)

SpecEndpoint == InitEndpoint /\ [][NextEndpoint]_endpointVars

-----------------------------------------------------------------------------
(* Properties *)

\* A broker whose start nobody crossed stays reachable as long as it serves:
\* no later start replaces its socket and no process that stops, whatever it
\* takes for its own, removes it. (For an MCP server: as long as it is alone.)
ServedStaysReachable ==
    \A p \in Processes :
        pc[p] = "serving" /\ run[p] \notin crossed => path = run[p]

\* What a killed process has left never keeps the next one from serving: a
\* start that nobody crosses gives up only because another broker is reachable
\* at the path, or because a system call fails.
StaleIsReplaced ==
    [][\A p \in Processes :
         Starts(p) /\ pc'[p] \in {"off", "close"} /\ failures' = failures
           /\ run[p] \notin crossed =>
             service = "broker" /\ \E q \in Processes : Listens(q) /\ run[q] = path]_endpointVars
=============================================================================
