------------------------------- MODULE NNTPConn -------------------------------
(***************************************************************************)
(* One pipelined NNTP connection (internal/nntp): the handshake, the       *)
(* callers of Fetch and Stat, the reader goroutine that pairs responses    *)
(* with the FIFO of pending commands, and the three ways it is torn down:  *)
(* the reader, a failed write, Close.  The server is external: it answers  *)
(* commands in order, and may send a stray line or drop the connection.    *)
(***************************************************************************)
EXTENDS Integers, Sequences, FiniteSets

CONSTANTS
    CmdCfg,     \* the calls: CmdCfg[c] = [kind |-> "BODY" | "STAT", id |-> Message-ID]
    Depths,     \* the values of cfg.PipeliningRequests
    Auth,       \* whether the server is configured with credentials
    NetFaults   \* bound on stray lines, dropped connections and failed writes

Cmd == DOMAIN CmdCfg
NoId == "none"
Quit == 0    \* on the wire; the calls are numbered from 1
Ids == {CmdCfg[c].id : c \in Cmd}

VARIABLES
    state,     \* Conn.state
    fetches,   \* Cmd -> [pc, alive, ret, got]: the goroutine inside Fetch or Stat
    result,    \* Cmd -> "open" or [code, id]: pendingCmd.result once done is closed
    pending,   \* Conn.pending
    depth,     \* cap(Conn.sem)
    sem,       \* len(Conn.sem)
    sendLock,  \* the caller that holds sendLock, or {}
    reader,    \* [pc, cmd, line]: runReader, the command it has popped, its line
    closing,   \* closeOnce: "none" | "mid" (closed is set) | "done"
    closer,    \* who runs closeOnce: "none" | "reader" | "close"
    sock,      \* the socket is open
    bwErr,     \* bufio.Writer's sticky error
    toServer, fromServer,
    netFaults

connVars == <<state, fetches, result, pending, sem, sendLock, reader, closing, closer,
            sock, bwErr, toServer, fromServer, netFaults>>
nntpVars == <<depth, connVars>>
wireVars == <<toServer, fromServer, netFaults>>

\* successResponse: the code that marks success, for the kinds that are sent.
successCode(c) == IF CmdCfg[c].kind = "BODY" THEN "222" ELSE "223"
hasBody(c) == CmdCfg[c].kind = "BODY"
Line(code, id) == [code |-> code, id |-> id]
NoLine == Line("none", NoId)

NntpInit ==
    /\ state = "Disconnected"
    /\ fetches = [c \in Cmd |-> [pc |-> "idle", alive |-> TRUE, ret |-> "none", got |-> NoId]]
    /\ result = [c \in Cmd |-> NoLine]
    /\ pending = <<>> /\ sendLock = {}
    /\ depth \in Depths /\ sem = 0
    /\ reader = [pc |-> "none", cmd |-> {}, line |-> NoLine]
    /\ closing = "none" /\ closer = "none"
    /\ sock = TRUE /\ bwErr = FALSE
    /\ toServer = <<>> /\ fromServer = <<>> /\ netFaults = 0

-----------------------------------------------------------------------------
(* The handshake, on the dialling goroutine.                                 *)
canTransition(from, to) ==
    \/ from = "Disconnected"  /\ to \in {"Connected", "Closed"}
    \/ from = "Connected"     /\ to \in {"Authenticated", "Ready", "Closed"}
    \/ from = "Authenticated" /\ to \in {"Ready", "Closed"}
    \/ from = "Ready"         /\ to \in {"Connected", "Closed"}

setState(to) == canTransition(state, to) /\ state' = to

handshaking == state \in {"Disconnected", "Connected", "Authenticated"} /\ sock
offline == UNCHANGED <<fetches, result, pending, sem, sendLock, closing, closer, bwErr, wireVars>>

expectGreeting ==
    /\ handshaking /\ state = "Disconnected"
    /\ setState("Connected")
    /\ offline /\ UNCHANGED <<reader, sock>>

\* AUTHINFO USER and, unless that suffices, AUTHINFO PASS.
authenticate ==
    /\ handshaking /\ state = "Connected" /\ Auth
    /\ setState("Authenticated")
    /\ offline /\ UNCHANGED <<reader, sock>>

\* The capability probe is best effort; then the reader starts.
Ready ==
    /\ handshaking /\ state = (IF Auth THEN "Authenticated" ELSE "Connected")
    /\ setState("Ready")
    /\ reader' = [reader EXCEPT !.pc = "line"]
    /\ offline /\ UNCHANGED sock

\* A bad greeting, rejected credentials, or the deadline: Dial closes the socket.
HandshakeFails ==
    /\ handshaking /\ sock' = FALSE
    /\ offline /\ UNCHANGED <<state, reader>>

-----------------------------------------------------------------------------
(* Fetch and Stat.                                                           *)
goes(c, pc) == [fetches EXCEPT ![c].pc = pc]
returns(c, ret, id) == [fetches EXCEPT ![c].pc = "ret", ![c].ret = ret, ![c].got = id]

Call(c) ==
    /\ fetches[c].pc = "idle" /\ reader.pc # "none"
    /\ fetches' = IF state # "Ready" \/ ~fetches[c].alive THEN returns(c, "err", NoId) ELSE goes(c, "acquire")
    /\ UNCHANGED <<state, result, pending, sem, sendLock, reader, closing, closer, sock, bwErr, wireVars>>

\* The caller's context ends: a pause or a shutdown.
Cancel(c) ==
    /\ fetches[c].alive /\ fetches[c].pc # "ret" /\ reader.pc # "none"
    /\ fetches' = [fetches EXCEPT ![c].alive = FALSE]
    /\ UNCHANGED <<state, result, pending, sem, sendLock, reader, closing, closer, sock, bwErr, wireVars>>

\* select: a slot of the semaphore, the caller's context, the connection's.
Acquire(c) ==
    /\ fetches[c].pc = "acquire"
    /\ \/ sem < depth /\ sem' = sem + 1 /\ fetches' = goes(c, "slot")
       \/ ~fetches[c].alive /\ fetches' = returns(c, "cancelled", NoId) /\ UNCHANGED sem
       \/ closing # "none" /\ fetches' = returns(c, "err", NoId) /\ UNCHANGED sem
    /\ UNCHANGED <<state, result, pending, sendLock, reader, closing, closer, sock, bwErr, wireVars>>

released == IF sem > 0 THEN sem - 1 ELSE 0

\* submit, under sendLock: append to the FIFO unless the connection is closed ...
submit(c) ==
    /\ fetches[c].pc = "slot" /\ sendLock = {}
    /\ IF closing # "none"
       THEN /\ sem' = released /\ fetches' = returns(c, "err", NoId)
            /\ UNCHANGED <<pending, sendLock>>
       ELSE /\ pending' = Append(pending, c) /\ sendLock' = {c}
            /\ fetches' = goes(c, "write") /\ UNCHANGED sem
    /\ UNCHANGED <<state, result, reader, closing, closer, sock, bwErr, wireVars>>

unappendPending(c) ==
    IF pending # <<>> /\ pending[Len(pending)] = c THEN SubSeq(pending, 1, Len(pending) - 1) ELSE pending

\* ... then write and flush it; a failure takes it off again and frees the slot.
WriteCommand(c) ==
    /\ fetches[c].pc = "write"
    /\ sendLock' = {}
    /\ \/ /\ sock /\ ~bwErr
          /\ toServer' = Append(toServer, c) /\ fetches' = goes(c, "wait")
          /\ UNCHANGED <<pending, sem, bwErr, netFaults>>
       \/ /\ ~sock \/ bwErr \/ netFaults < NetFaults
          /\ netFaults' = IF sock /\ ~bwErr THEN netFaults + 1 ELSE netFaults
          /\ pending' = unappendPending(c) /\ sem' = released
          /\ bwErr' = TRUE /\ fetches' = returns(c, "err", NoId)
          /\ UNCHANGED toServer
    /\ UNCHANGED <<state, result, reader, closing, closer, sock, fromServer>>

\* The answer, classified; or the context: the response is left to the reader.
Return(c) ==
    /\ fetches[c].pc = "wait"
    /\ \/ /\ result[c] # NoLine
          /\ fetches' = returns(c, CASE result[c].code = successCode(c) -> "ok"
                                   [] result[c].code = "430" -> "no"
                                   [] OTHER -> "err", result[c].id)
       \/ ~fetches[c].alive /\ fetches' = returns(c, "cancelled", NoId)
    /\ UNCHANGED <<state, result, pending, sem, sendLock, reader, closing, closer, sock, bwErr, wireVars>>

-----------------------------------------------------------------------------
(* runReader.                                                                *)
fails == [reader EXCEPT !.pc = "finish", !.cmd = {}]
delivered(c, r) == [result EXCEPT ![c] = r]
Failure == Line("err", NoId)

\* Mutant of Trusted: the response is trusted by its position.
TrustedByPosition(c, r) == TRUE
\* The response names the article that the command asked for.
Trusted(c, r) == r.code = successCode(c) => r.id = CmdCfg[c].id

\* close(done), then the slot; an empty semaphore ends the connection.
completes(c, r) ==
    /\ result' = delivered(c, r)
    /\ sem' = released
    /\ reader' = IF sem > 0 THEN [reader EXCEPT !.pc = "line", !.cmd = {}] ELSE fails

\* Mutant of failPopped: the popped command is left to the teardown.
failUnpopped(c) == result' = result /\ reader' = fails
failPopped(c) == result' = delivered(c, Failure) /\ reader' = fails

\* One status line, paired with the head of the FIFO.
ReadLine ==
    /\ reader.pc = "line" /\ fromServer # <<>>
    /\ fromServer' = Tail(fromServer)
    /\ LET r == Head(fromServer)
           c == Head(pending)
       IN  IF pending = <<>> THEN reader' = fails /\ UNCHANGED <<result, sem, pending>>
           ELSE /\ pending' = Tail(pending)
                /\ IF ~Trusted(c, r) THEN failPopped(c) /\ UNCHANGED sem
                   ELSE IF r.code = successCode(c) /\ hasBody(c)
                        THEN /\ reader' = [reader EXCEPT !.pc = "body", !.cmd = {c}, !.line = r]
                             /\ UNCHANGED <<result, sem>>
                        ELSE completes(c, r)
    /\ UNCHANGED <<state, fetches, sendLock, closing, closer, sock, bwErr, toServer, netFaults>>

\* The dot-terminated body, or an error in the middle of it.
ReadBody ==
    /\ reader.pc = "body"
    /\ \E c \in reader.cmd :
         \/ completes(c, reader.line) /\ UNCHANGED netFaults
         \/ /\ ~sock \/ netFaults < NetFaults
            /\ netFaults' = IF sock THEN netFaults + 1 ELSE netFaults
            /\ failPopped(c) /\ UNCHANGED sem
    /\ UNCHANGED <<state, fetches, pending, sendLock, closing, closer, sock, bwErr, toServer, fromServer>>

\* The read fails: the socket is closed, or nothing came for readTimeout.
ReadFails ==
    /\ reader.pc = "line" /\ (fromServer = <<>> \/ ~sock)
    /\ reader' = fails
    /\ UNCHANGED <<state, fetches, result, pending, sem, sendLock, closing, closer, sock, bwErr, wireVars>>

\* finishReader and Close share closeOnce: whoever is first sets closed ...
FinishReader ==
    /\ reader.pc = "finish" /\ closing = "none"
    /\ closing' = "mid" /\ closer' = "reader" /\ sock' = FALSE
    /\ UNCHANGED <<state, fetches, result, pending, sem, sendLock, reader, bwErr, wireVars>>

\* ... Close after a polite QUIT, if no write is under way.
Close ==
    /\ state = "Ready" /\ closing = "none"
    /\ closing' = "mid" /\ closer' = "close"
    /\ toServer' = IF sendLock = {} /\ sock /\ ~bwErr THEN Append(toServer, Quit) ELSE toServer
    /\ UNCHANGED <<state, fetches, result, pending, sem, sendLock, reader, sock, bwErr, fromServer, netFaults>>

\* ... and wakes everyone still in the FIFO.  Nothing on the wire matters any
\* more: the reader would find no command for it.
wakeOrphans ==
    /\ closing = "mid"
    /\ closing' = "done" /\ sock' = FALSE
    /\ state' = IF closer = "close" THEN "Closed" ELSE state
    /\ result' = [c \in Cmd |-> IF \E i \in DOMAIN pending : pending[i] = c THEN Failure ELSE result[c]]
    /\ pending' = <<>> /\ toServer' = <<>> /\ fromServer' = <<>>
    /\ UNCHANGED <<fetches, sem, sendLock, reader, closer, bwErr, netFaults>>

ReaderExits ==
    /\ reader.pc = "finish" /\ closing = "done"
    /\ reader' = [reader EXCEPT !.pc = "exit", !.line = NoLine]
    /\ UNCHANGED <<state, fetches, result, pending, sem, sendLock, closing, closer, sock, bwErr, wireVars>>

-----------------------------------------------------------------------------
(* The server.  430 stands for every refusal: none is checked for identity.  *)
Answer ==
    /\ toServer # <<>> /\ sock
    /\ toServer' = Tail(toServer)
    /\ LET c == Head(toServer)
       IN  \E r \in IF c = Quit THEN {Line("205", NoId)}
                    ELSE {Line(successCode(c), CmdCfg[c].id), Line("430", NoId)} :
             fromServer' = Append(fromServer, r)
    /\ UNCHANGED <<state, fetches, result, pending, sem, sendLock, reader, closing, closer, sock, bwErr, netFaults>>

\* A line nobody asked for: another article, no Message-ID, or an error.
Stray ==
    /\ reader.pc \in {"line", "body"} /\ sock /\ netFaults < NetFaults
    /\ netFaults' = netFaults + 1
    /\ \E r \in {Line("222", i) : i \in Ids \cup {NoId}} \cup {Line("430", NoId)} :
         fromServer' = Append(fromServer, r)
    /\ UNCHANGED <<state, fetches, result, pending, sem, sendLock, reader, closing, closer, sock, bwErr, toServer>>

ServerDrops ==
    /\ sock /\ state = "Ready" /\ netFaults < NetFaults
    /\ netFaults' = netFaults + 1 /\ sock' = FALSE
    /\ UNCHANGED <<state, fetches, result, pending, sem, sendLock, reader, closing, closer, bwErr, toServer, fromServer>>

-----------------------------------------------------------------------------
Dialling == expectGreeting \/ authenticate \/ Ready \/ HandshakeFails
CallSteps(c) == Call(c) \/ Acquire(c) \/ submit(c) \/ WriteCommand(c) \/ Return(c)
Reading == ReadLine \/ ReadBody \/ ReadFails \/ FinishReader \/ wakeOrphans \/ ReaderExits

NntpNext ==
    /\ UNCHANGED depth
    /\ \/ Dialling \/ Reading \/ Close \/ Answer \/ Stray \/ ServerDrops
       \/ \E c \in Cmd : CallSteps(c) \/ Cancel(c)

\* Goroutines run, and a read without data times out.  Of the server nothing
\* is assumed.
NntpFairness == WF_connVars(Reading) /\ \A c \in Cmd : WF_connVars(CallSteps(c))

-----------------------------------------------------------------------------
\* Fetch never returns the body of another article, whatever stray lines,
\* cancellations and teardowns do to the pairing of responses by position.
BodyIsAsked == \A c \in Cmd : fetches[c].ret = "ok" => fetches[c].got = CmdCfg[c].id

\* While the connection is up, the semaphore holds one slot per command that
\* has one: none is leaked by a cancelled caller, none is freed twice.
SlotsConserved ==
    closing = "none" /\ ~bwErr /\ reader.pc \in {"line", "body"} =>
        sem = Cardinality({c \in Cmd : fetches[c].pc = "slot"}) + Len(pending) + Cardinality(reader.cmd)

\* Nobody waits on a connection for ever: every call of Fetch or Stat returns,
\* answered, cancelled, or because the connection is gone.
EveryCallReturns == \A c \in Cmd : (fetches[c].pc \notin {"idle", "ret"}) ~> (fetches[c].pc = "ret")

NntpSpec == NntpInit /\ [][NntpNext]_nntpVars

-----------------------------------------------------------------------------
(* The invariant behind BodyIsAsked.                                         *)

\* What a command was answered with, and what the reader is about to answer
\* the command it popped with, was checked against that command.
AnswersChecked ==
    /\ \A c \in Cmd : Trusted(c, result[c])
    /\ \A c \in reader.cmd : c \in Cmd /\ Trusted(c, reader.line)

NntpIInv ==
    /\ fetches = [c \in Cmd |-> fetches[c]]
    /\ \A c \in Cmd : fetches[c] = [pc |-> fetches[c].pc, alive |-> fetches[c].alive,
                                    ret |-> fetches[c].ret, got |-> fetches[c].got]
    /\ result = [c \in Cmd |-> result[c]]
    /\ reader = [pc |-> reader.pc, cmd |-> reader.cmd, line |-> reader.line]
    /\ pending \in Seq(Cmd)
    /\ AnswersChecked
    /\ BodyIsAsked
=============================================================================
