------------------------------ MODULE LocalRelay ------------------------------
(***************************************************************************)
(* The local relay (local_relay.cpp): one library, loaded by the App as the  *)
(* server of a named pipe, by adapters as its clients and by guards that     *)
(* only watch their parent.  Each side gives out the bytes of the pipe only  *)
(* while the process it authenticated is alive; the App keeps one pipe       *)
(* instance for its life and disconnects it between clients.                *)
(*                                                                         *)
(* A process runs once; its restart is another process, which the system may *)
(* give the identifier of one that ended.  The kernel names the other end of *)
(* a pipe by the identifier of the process that made it; the library opens   *)
(* whoever has that identifier by then and keeps the handle.  A call holds   *)
(* the mutex of its process and never waits; accept, connect, read and write *)
(* make two steps, between which the rest of the machine may move.  Other    *)
(* programs of the user may take the pipe's name or connect to it, and an    *)
(* end may survive its process in one that inherited it.                     *)
(***************************************************************************)
EXTENDS Naturals, Sequences, FiniteSets

CONSTANTS
  Apps,      \* processes with the image of the server
  Clients,   \* processes with the image of the client
  Others,    \* programs with another image, without the library
  MaxConns,  \* bound: connections of a behaviour
  MaxBytes,  \* bound: chunks waiting in one direction
  MaxOpens,  \* bound: opens of one process (the code stops at UINT64_MAX)
  RelayMaxFaults  \* bound: calls in which closing a handle or freeing fails

Users == Apps \cup Clients
Procs == Users \cup Others

None == "none"
Heir == "heir"    \* whoever inherited an end from a process that ended

RelayParameters ==
  /\ Apps \cap Clients = {} /\ Users \cap Others = {}
  /\ Procs \cap {None, Heir} = {}
  /\ {MaxConns, MaxBytes, MaxOpens, RelayMaxFaults} \subseteq Nat

ASSUME RelayAssumption == RelayParameters

VARIABLES
  pipe,      \* the kernel's pipe under the endpoint's name
  lib,       \* lib[p]: "owned" of process p, its generation and cleanup_failed
  doing,     \* doing[p]: the call of p that has its second step before it
  running,   \* processes that run
  ident,     \* ident[p]: p's identifier, named after the first that had it
  launched,  \* Apps that run and whose parent, the shell of their start, does too
  relayFaults  \* calls with a failed close so far

relayVars == <<pipe, lib, doing, running, ident, launched, relayFaults>>

Handles == {"pipe", "peer", "images", "launch"}

\* server and client are the processes that made the ends, heirs the ends
\* that survived theirs.
NoPipe == [at |-> "absent", server |-> None, client |-> None, heirs |-> {},
           conn |-> 0, toServer |-> <<>>, toClient |-> <<>>]

\* other is the process by whose identifier the peer was found.
NotOwned == [role |-> None, connected |-> FALSE, failed |-> FALSE, peer |-> None,
             other |-> None, conn |-> 0, h |-> {}]
FreshLib == [own |-> NotOwned, generation |-> 0, cleanupFailed |-> FALSE]

\* A history: seen says that the peer ran when the call looked at it.
Idle == [call |-> None, seen |-> FALSE]

RelayInit ==
  /\ pipe = NoPipe
  /\ lib = [p \in Users |-> FreshLib]
  /\ doing = [p \in Users |-> Idle]
  /\ running = {}
  /\ ident = [p \in Procs |-> None]
  /\ launched = {}
  /\ relayFaults = 0

Own(p) == lib[p].own
Set(p, own) == lib' = [lib EXCEPT ![p].own = own]

\* get: a call names the generation it opened, and an older one gets nothing.
\* Here callers only use the generation that open gave them last.
Owned(p) == Own(p).role # None

\* The mutex: one call of a process at a time.
Free(p) == p \in running /\ doing[p] = Idle
Begins(p, call, seen) == doing' = [doing EXCEPT ![p] = [call |-> call, seen |-> seen]]
Returns(p) == doing' = [doing EXCEPT ![p] = Idle]

\* OpenProcess: whoever has the identifier now.
Opens(q) == {r \in running : ident[r] = ident[q]}

(***************************************************************************)
(* The kernel's pipe.                                                      *)
(***************************************************************************)
Vanished == [NoPipe EXCEPT !.conn = pipe.conn]

\* The end that is left of a connection gives out what was written to it
\* before, and takes no more.
ServerEndClosed ==
  IF pipe.at = "connected"
  THEN [pipe EXCEPT !.at = "orphan", !.toServer = <<>>, !.heirs = @ \ {"server"}]
  ELSE Vanished

ClientEndClosed ==
  IF pipe.at = "orphan" THEN Vanished
  ELSE [pipe EXCEPT !.at = "broken", !.toClient = <<>>, !.heirs = @ \ {"client"}]

HasEnd(p) ==
  \/ pipe.server = p /\ pipe.at \in {"idle", "listening", "connected", "broken"}
                     /\ "server" \notin pipe.heirs
  \/ pipe.client = p /\ pipe.at \in {"connected", "orphan"}
                     /\ "client" \notin pipe.heirs

EndClosed(p) ==
  IF ~HasEnd(p) THEN pipe
  ELSE IF pipe.server = p THEN ServerEndClosed ELSE ClientEndClosed

Connects(p) ==
  /\ pipe.at = "listening" /\ pipe.conn < MaxConns
  /\ pipe' = [pipe EXCEPT !.at = "connected", !.client = p, !.conn = @ + 1]

Chunk(p) == [from |-> p, conn |-> pipe.conn]

Puts(end, chunk) ==
  IF end = "server"
  THEN /\ Len(pipe.toClient) < MaxBytes
       /\ pipe' = [pipe EXCEPT !.toClient = Append(@, chunk)]
  ELSE /\ Len(pipe.toServer) < MaxBytes
       /\ pipe' = [pipe EXCEPT !.toServer = Append(@, chunk)]

\* Closing the handles hs of p; those in bad are reported as failed and stay
\* in the record.  cleanup_failed is for good.
Closed(own, hs, bad) ==
  [own EXCEPT !.h = (@ \ hs) \cup bad,
              !.peer = IF "peer" \in hs \ bad THEN None ELSE @]

CloseFault(p, own, bad) ==
  /\ bad # {} => relayFaults < RelayMaxFaults
  /\ relayFaults' = relayFaults + (IF bad = {} THEN 0 ELSE 1)
  /\ lib' = [lib EXCEPT ![p].own = own,
                        ![p].cleanupFailed = @ \/ bad # {}]

(***************************************************************************)
(* Opening.  A server or a guard is admitted only as a child of the shell    *)
(* that runs; a failed open closes what it had opened.                       *)
(***************************************************************************)
\* Mutant: a failed cleanup does not stop a new open.
BugMayOpen(p) == Free(p) /\ ~Owned(p) /\ lib[p].generation < MaxOpens

MayOpen(p) ==
  /\ Free(p) /\ ~Owned(p)
  /\ ~lib[p].cleanupFailed /\ lib[p].generation < MaxOpens

Opened(p, own) ==
  lib' = [lib EXCEPT ![p].own = own, ![p].generation = @ + 1]

OpenServer(p) ==
  /\ p \in Apps \cap launched /\ MayOpen(p)
  /\ pipe.at = "absent"
  /\ pipe' = [pipe EXCEPT !.at = "listening", !.server = p]
  /\ Opened(p, [NotOwned EXCEPT !.role = "server", !.h = {"pipe", "launch"}])
  /\ UNCHANGED <<doing, running, ident, launched, relayFaults>>

\* The App's guard watches its shell only; an adapter's also its parent, which
\* started before it and therefore has not lent its identifier.
OpenGuard(p) ==
  /\ MayOpen(p)
  /\ \/ /\ p \in Apps \cap launched
        /\ Opened(p, [NotOwned EXCEPT !.role = "guard", !.connected = TRUE,
                                      !.h = {"launch"}])
     \/ /\ p \in Clients
        /\ \E q \in Apps \cap running \cap launched :
              Opened(p, [NotOwned EXCEPT
                           !.role = "guard", !.connected = TRUE, !.peer = q,
                           !.other = q, !.h = {"peer", "images", "launch"}])
  /\ UNCHANGED <<pipe, doing, running, ident, launched, relayFaults>>

\* A client has connected; its open has still to authenticate the server.
ClientConnect(p) ==
  /\ p \in Clients /\ MayOpen(p)
  /\ Connects(p)
  /\ Set(p, [NotOwned EXCEPT !.role = "opening", !.other = pipe.server,
                             !.conn = pipe.conn + 1])
  /\ Begins(p, "open", FALSE)
  /\ UNCHANGED <<running, ident, launched, relayFaults>>

\* bind_image.
Right(p, q) == IF p \in Apps THEN q \in Clients ELSE q \in Apps

ClientAuthenticate(p) ==
  /\ doing[p].call = "open"
  /\ \/ \E q \in Opens(Own(p).other) :
          /\ Right(p, q)
          /\ Opened(p, [Own(p) EXCEPT !.role = "client", !.connected = TRUE,
                                      !.peer = q, !.h = {"pipe", "peer", "images"}])
          /\ UNCHANGED <<pipe, relayFaults>>
     \/ \E bad \in {{}, {"pipe"}} :
          /\ CloseFault(p, NotOwned, bad)
          /\ pipe' \in (IF bad = {} THEN {EndClosed(p)} ELSE {pipe, EndClosed(p)})
  /\ Returns(p)
  /\ UNCHANGED <<running, ident, launched>>

(***************************************************************************)
(* Serving.                                                                *)
(***************************************************************************)
LaunchCurrent(p) == Own(p).role = "client" \/ p \in launched

\* Mutant: the process that was authenticated is not looked at again.
BugLive(p) == Own(p).connected /\ ~Own(p).failed /\ LaunchCurrent(p)

Live(p) ==
  /\ Own(p).connected /\ ~Own(p).failed /\ LaunchCurrent(p)
  /\ Own(p).peer \in running

\* accept: the first call on a disconnected instance only makes it available;
\* one that finds a client goes on to authenticate it, and one that finds a
\* client that is gone again fails the pipe until disconnect.
Accept(p) ==
  /\ Free(p) /\ Own(p).role = "server" /\ ~Own(p).failed /\ ~Own(p).connected
  /\ LaunchCurrent(p)
  /\ \/ /\ pipe.at = "idle"
        /\ pipe' = [pipe EXCEPT !.at = "listening"]
        /\ UNCHANGED <<lib, doing>>
     \/ /\ pipe.at = "connected"
        /\ Begins(p, "accept", FALSE)
        /\ UNCHANGED <<pipe, lib>>
     \/ /\ pipe.at = "broken"
        /\ Set(p, [Own(p) EXCEPT !.failed = TRUE])
        /\ UNCHANGED <<pipe, doing>>
  /\ UNCHANGED <<running, ident, launched, relayFaults>>

\* Mutant: any program of the user is taken for an adapter.
BugAuthenticates(p, q) == q \in Opens(pipe.client) /\ LaunchCurrent(p)

Authenticates(p, q) ==
  q \in Opens(pipe.client) /\ Right(p, q) /\ LaunchCurrent(p)

\* Its second step; whatever it met, it may fail.
AcceptAuthenticate(p) ==
  /\ doing[p].call = "accept"
  /\ \/ \E q \in running :
          /\ Authenticates(p, q)
          /\ Set(p, [Own(p) EXCEPT !.connected = TRUE, !.peer = q,
                                   !.other = pipe.client, !.conn = pipe.conn,
                                   !.h = @ \cup {"peer", "images"}])
     \/ \E q \in Opens(pipe.client) :
          Set(p, [Own(p) EXCEPT !.failed = TRUE, !.peer = q,
                                !.h = @ \cup {"peer", "images"}])
     \/ Set(p, [Own(p) EXCEPT !.failed = TRUE])
  /\ Returns(p)
  /\ UNCHANGED <<pipe, running, ident, launched, relayFaults>>

\* live, with which read and write begin.
Looks(p) ==
  /\ Free(p) /\ Own(p).role \in {"server", "client"} /\ Live(p)
  /\ \E call \in {"read", "write"} : Begins(p, call, Own(p).peer \in running)
  /\ UNCHANGED <<pipe, lib, running, ident, launched, relayFaults>>

Inbox(p) == IF Own(p).role = "server" THEN "toServer" ELSE "toClient"
EndOpen(p) == "pipe" \in Own(p).h /\ HasEnd(p)

\* read takes the oldest chunk, or several; without any, or without a pipe, it
\* gives out nothing.
RelayRead(p) ==
  /\ doing[p].call = "read"
  /\ \/ /\ EndOpen(p) /\ pipe[Inbox(p)] # <<>>
        /\ pipe' = [pipe EXCEPT ![Inbox(p)] = Tail(@)]
        /\ Returns(p) \/ UNCHANGED doing
     \/ Returns(p) /\ UNCHANGED pipe
  /\ UNCHANGED <<lib, running, ident, launched, relayFaults>>

RelayWrite(p) ==
  /\ doing[p].call = "write"
  /\ \/ EndOpen(p) /\ pipe.at = "connected" /\ Puts(Own(p).role, Chunk(p))
     \/ UNCHANGED pipe
  /\ Returns(p)
  /\ UNCHANGED <<lib, running, ident, launched, relayFaults>>

\* Mutant: the instance is made ready without disconnecting it.
BugDisconnected == [pipe EXCEPT !.at = "idle", !.client = None, !.heirs = {}]

\* DisconnectNamedPipe drops what nobody read and the old client's end.
Disconnected ==
  [pipe EXCEPT !.at = "idle", !.client = None, !.heirs = {}, !.toServer = <<>>,
               !.toClient = <<>>]

\* disconnect: failed until every handle of the old client was closed.
Disconnect(p) ==
  LET hs == {"peer", "images"}
  IN
  /\ Free(p) /\ Own(p).role = "server" /\ "pipe" \in Own(p).h
  /\ ~lib[p].cleanupFailed /\ LaunchCurrent(p)
  /\ \/ /\ pipe' = Disconnected
        /\ \E bad \in SUBSET (hs \cap Own(p).h) :
              CloseFault(p, [Closed(Own(p), hs, bad) EXCEPT
                               !.connected = IF bad = {} THEN FALSE ELSE @,
                               !.failed = bad # {}], bad)
     \/ /\ Set(p, [Own(p) EXCEPT !.failed = TRUE])
        /\ UNCHANGED <<pipe, relayFaults>>
  /\ UNCHANGED <<doing, running, ident, launched>>

\* close: owned is kept until every handle is closed, and closing those that
\* failed is tried again.  Whether a failed one is open is unknown.
RelayClose(p) ==
  LET own == [Own(p) EXCEPT !.failed = TRUE]
  IN
  /\ Free(p) /\ Owned(p)
  /\ \E bad \in SUBSET own.h :
        /\ CloseFault(p, IF bad = {} THEN NotOwned ELSE Closed(own, own.h, bad),
                      bad)
        /\ pipe' \in (IF "pipe" \in bad THEN {pipe, EndClosed(p)}
                      ELSE IF "pipe" \in own.h THEN {EndClosed(p)} ELSE {pipe})
  /\ UNCHANGED <<doing, running, ident, launched>>

\* A buffer that cannot be freed, which takes no mutex, and a handle of a check
\* that cannot be closed are failed cleanups as well.
CleanupFails(p) ==
  /\ p \in running /\ ~lib[p].cleanupFailed /\ relayFaults < RelayMaxFaults
  /\ relayFaults' = relayFaults + 1
  /\ lib' = [lib EXCEPT ![p].cleanupFailed = TRUE]
  /\ UNCHANGED <<pipe, doing, running, ident, launched>>

(***************************************************************************)
(* The rest of the machine.                                                *)
(***************************************************************************)
OtherTakesName(p) ==
  /\ p \in Others \cap running /\ pipe.at = "absent"
  /\ pipe' = [pipe EXCEPT !.at = "listening", !.server = p]
  /\ UNCHANGED <<lib, doing, running, ident, launched, relayFaults>>

OtherConnects(p) ==
  /\ p \in Others \cap running /\ p # pipe.server
  /\ Connects(p)
  /\ UNCHANGED <<lib, doing, running, ident, launched, relayFaults>>

\* Whoever holds an end without the library writes to it or closes it.
Outsider(end) ==
  \/ end \in pipe.heirs
  \/ end = "server" /\ pipe.server \in Others /\ HasEnd(pipe.server)
  \/ end = "client" /\ pipe.client \in Others /\ HasEnd(pipe.client)

OutsiderWrites(end) ==
  /\ Outsider(end) /\ pipe.at = "connected"
  /\ Puts(end, Chunk(IF end \in pipe.heirs THEN Heir ELSE pipe[end]))
  /\ UNCHANGED <<lib, doing, running, ident, launched, relayFaults>>

OutsiderCloses(end) ==
  /\ Outsider(end)
  /\ pipe' = IF end = "server" THEN ServerEndClosed ELSE ClientEndClosed
  /\ UNCHANGED <<lib, doing, running, ident, launched, relayFaults>>

\* A process ends; its end may have been inherited and stays open, but not the
\* App's, which no handle is inherited from.
Exit(p) ==
  /\ p \in running
  /\ running' = running \ {p}
  /\ lib' = [q \in Users |-> IF q = p THEN FreshLib ELSE lib[q]]
  /\ doing' = [q \in Users |-> IF q = p THEN Idle ELSE doing[q]]
  /\ \/ pipe' = EndClosed(p)
     \/ /\ HasEnd(p) /\ p \notin Apps
        /\ pipe' = [pipe EXCEPT !.heirs = @ \cup
                      {IF pipe.server = p THEN "server" ELSE "client"}]
  /\ launched' = launched \ {p}
  /\ UNCHANGED <<ident, relayFaults>>

\* A process is started by the shell of its time, with an identifier that was
\* never given out or that of a process that ended.
Start(p) ==
  /\ ident[p] = None
  /\ \E i \in ({p} \cup {ident[q] : q \in Procs}) \ {None} :
        /\ \A q \in running : ident[q] # i
        /\ ident' = [ident EXCEPT ![p] = i]
  /\ running' = running \cup {p}
  /\ launched' = launched \cup ({p} \cap Apps)
  /\ UNCHANGED <<pipe, lib, doing, relayFaults>>

ShellExits ==
  /\ launched # {}
  /\ launched' = {}
  /\ UNCHANGED <<pipe, lib, doing, running, ident, relayFaults>>

RelayNext ==
  \/ \E p \in Users :
        \/ OpenServer(p) \/ OpenGuard(p) \/ ClientConnect(p)
        \/ ClientAuthenticate(p) \/ Accept(p) \/ AcceptAuthenticate(p) \/ Looks(p)
        \/ RelayRead(p) \/ RelayWrite(p) \/ Disconnect(p) \/ RelayClose(p)
        \/ CleanupFails(p)
  \/ \E p \in Others : OtherTakesName(p) \/ OtherConnects(p)
  \/ \E end \in {"server", "client"} : OutsiderWrites(end) \/ OutsiderCloses(end)
  \/ \E p \in Procs : Exit(p) \/ Start(p)
  \/ ShellExits

RelaySpec == RelayInit /\ [][RelayNext]_relayVars

(***************************************************************************)
(* Properties.                                                             *)
(***************************************************************************)
Chunks == [from : Procs \cup {Heir}, conn : 1..MaxConns]

RelayTypeOK ==
  /\ pipe.at \in {"absent", "idle", "listening", "connected", "broken", "orphan"}
  /\ pipe.server \in Procs \cup {None} /\ pipe.client \in Procs \cup {None}
  /\ pipe.heirs \subseteq {"server", "client"}
  /\ pipe.conn \in 0..MaxConns
  /\ pipe.toServer \in Seq(Chunks) /\ pipe.toClient \in Seq(Chunks)
  /\ \A p \in Users :
       /\ lib[p].generation \in 0..MaxOpens
       /\ Own(p).role \in {None, "server", "client", "guard", "opening"}
       /\ Own(p).h \subseteq Handles
       /\ Own(p).role = None => Own(p) = NotOwned
       /\ (Own(p).role = "opening") = (doing[p].call = "open")
       /\ p \notin running => lib[p] = FreshLib /\ doing[p] = Idle
  /\ relayFaults \in 0..RelayMaxFaults

\* Who may have written what a read of p gives out: its peer; if the peer ended
\* while this call was on its way, whoever inherited the end; and if the process
\* that made the end had ended before and the peer has its identifier, that one
\* or its heir, whose bytes the library takes for the peer's.
Writers(p) ==
  LET peer == Own(p).peer  other == Own(p).other
  IN  IF other = peer
      THEN {peer} \cup IF peer \in running THEN {} ELSE {Heir}
      ELSE IF ident[other] = ident[peer] /\ other \notin running
      THEN {other, Heir} ELSE {}

\* Every chunk that read gives out was written on the connection on which the
\* peer was authenticated, by the peer or by those that Writers excepts; the
\* peer has the right image and still ran when this very call looked.  Nothing
\* comes from an earlier client of the instance, from one that was never
\* accepted, or from a peer that had ended before the call.
OnlyPeerBytes ==
  [][\A p \in Users :
        LET waiting == pipe[Inbox(p)]  left == pipe'[Inbox(p)]
        IN  /\ Own(p).role \in {"server", "client"} /\ EndOpen(p)
            /\ Len(left) < Len(waiting) /\ pipe'.at = pipe.at
            => /\ waiting[1].conn = Own(p).conn
               /\ waiting[1].from \in Writers(p)
               /\ Right(p, Own(p).peer) /\ doing[p].seen]_relayVars

\* After a failed cleanup a process opens nothing more, and a server that has
\* served goes on to no other client.
FailedCleanupIsFinal ==
  [][\A p \in Users :
        lib[p].cleanupFailed /\ p \in running /\ p \in running' =>
           /\ lib'[p].cleanupFailed
           /\ lib'[p].generation > lib[p].generation => Own(p).role = "opening"
           /\ Own(p).peer # None => Own(p)'.peer \in {Own(p).peer, None}]_relayVars
===============================================================================
