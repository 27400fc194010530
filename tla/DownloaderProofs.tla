------------------------- MODULE DownloaderProofs ---------------------------
(***************************************************************************)
(* The downloader's safety properties for any number of articles, servers, *)
(* connections and pipelined commands, any channel capacities and any      *)
(* options, faults and calls.                                              *)
(*                                                                         *)
(* A step changes at most one handler besides what it does to contexts and *)
(* connections, which no property here reads.  HandlerSteps says what the  *)
(* step of a handler comes to; the other steps are taken one by one.       *)
(***************************************************************************)
EXTENDS Downloader, FiniteSetTheorems, SequenceTheorems, WellFoundedInduction, TLAPS

(* The first of several servers, or of several free slots, is one of them. *)
LEMMA MinIsAMember ==
  ASSUME NEW S \in SUBSET Nat, S # {}
  PROVE  Min(S) \in S
<1> DEFINE R == {p \in Nat \X Nat : p[1] < p[2]}
<1>1. IsWellFoundedOn(R, Nat)
  BY NatLessThanWellFounded DEF OpToRel
<1>2. PICK x \in S : \A y \in S : ~ (<<y, x>> \in R)
  <2> HIDE DEF R
  <2> QED  BY <1>1, WFMin
<1>3. \A y \in S : ~(y < x)
  BY <1>2
<1>4. \A y \in S : x =< y
  BY <1>3
<1> QED  BY <1>4 DEF Min

(* The servers are numbered, and those of a worker are among them. *)
LEMMA Servers ==
  /\ Server \subseteq Nat /\ IsFiniteSet(Server) /\ -1 \notin Server /\ -2 \notin Server
  /\ \A w \in Worker : srvOf(w) \in Server /\ Depth(w) \in Nat /\ Slot(w) = 1..(2 * Depth(w))
  /\ Article \subseteq Nat /\ 0 \notin Article
  /\ \A x \in Scenario : x.on \subseteq Server /\ x.opts \in Options /\ x.done \subseteq Article
<1>1. ServerCfg \in Seq([optional : BOOLEAN, required : BOOLEAN, priority : Nat, conns : Nat, depth : Nat])
  BY ServersAssumption
<1>2. Len(ServerCfg) \in Nat /\ Server = 1..Len(ServerCfg)
  BY <1>1 DEF Server
<1>3. Server \subseteq Nat /\ IsFiniteSet(Server) /\ -1 \notin Server /\ -2 \notin Server
  BY <1>2, FS_Interval
<1>4. \A s \in Server : ServerCfg[s].depth \in Nat
  <2> DEFINE T == [optional : BOOLEAN, required : BOOLEAN, priority : Nat, conns : Nat, depth : Nat]
  <2>1. \A x \in T : x.depth \in Nat
    OBVIOUS
  <2>2. ServerCfg \in Seq(T)
    BY <1>1
  <2> HIDE DEF T
  <2> QED  BY <2>1, <2>2 DEF Server
<1>5. \A w \in Worker : srvOf(w) \in Server
  BY DEF Worker, srvOf
<1>6. \A w \in Worker : Depth(w) \in Nat
  BY <1>4, <1>5 DEF Depth
<1>7. Article \subseteq Nat /\ 0 \notin Article
  BY BoundsAssumption DEF Article
<1>8. \A x \in Scenario : x.on \subseteq Server /\ x.opts \in Options /\ x.done \subseteq Article
  BY BoundsAssumption DEF Server, Article
<1> QED  BY <1>3, <1>5, <1>6, <1>7, <1>8 DEF Slot
-----------------------------------------------------------------------------
(* Handlers.  A step sets one of them, and others change at most in their  *)
(* context and connection.                                                 *)
HandlersOK == DOMAIN hnd = Worker /\ \A w \in Worker : hnd[w] \in [Slot(w) -> Handler]

Alike(w, k) ==
    /\ hnd'[w][k].pc = hnd[w][k].pc
    /\ hnd'[w][k].art = hnd[w][k].art
    /\ hnd'[w][k].kind = hnd[w][k].kind

Others(w, k) == \A x \in Worker : \A m \in Slot(x) : ~(x = w /\ m = k) => Alike(x, m)

LEMMA FreeIsAHandler == Free \in Handler /\ Free.pc = "free" /\ Free.art = 0
  BY DEF Free, Handler, Kind

LEMMA OneHandler ==
  ASSUME HandlersOK, NEW w \in Worker, NEW k \in Slot(w), NEW h \in Handler,
         hnd' = [hnd EXCEPT ![w][k] = h]
  PROVE  HandlersOK' /\ Others(w, k) /\ hnd'[w][k] = h
<1>1. DOMAIN hnd' = Worker /\ hnd'[w] = [hnd[w] EXCEPT ![k] = h]
      /\ \A x \in Worker \ {w} : hnd'[x] = hnd[x]
  BY DEF HandlersOK
<1>2. hnd'[w] \in [Slot(w) -> Handler] /\ hnd'[w][k] = h
      /\ \A m \in Slot(w) \ {k} : hnd'[w][m] = hnd[w][m]
  BY <1>1 DEF HandlersOK
<1> QED  BY <1>1, <1>2 DEF HandlersOK, Others, Alike

(* A context dies under every handler, or a connection under some. *)
LEMMA AllHandlers ==
  ASSUME HandlersOK, DOMAIN hnd' = Worker,
         \A w \in Worker : DOMAIN hnd'[w] = Slot(w) /\ hnd'[w] = [k \in Slot(w) |-> hnd'[w][k]],
         \A w \in Worker : \A k \in Slot(w) : hnd'[w][k] \in Handler /\ Alike(w, k)
  PROVE  HandlersOK' /\ \A w \in Worker : \A k \in Slot(w) : Alike(w, k)
  BY DEF HandlersOK

LEMMA CutAll ==
  ASSUME HandlersOK, hnd' = cutAll
  PROVE  HandlersOK' /\ \A w \in Worker : \A k \in Slot(w) : Alike(w, k)
<1>1. ASSUME NEW h \in Handler
      PROVE  LET g == [h EXCEPT !.live = FALSE] IN g \in Handler /\ g.pc = h.pc /\ g.art = h.art /\ g.kind = h.kind
  BY DEF Handler
<1>2. DOMAIN hnd' = Worker /\ \A w \in Worker : hnd'[w] = [k \in Slot(w) |-> [hnd[w][k] EXCEPT !.live = FALSE]]
  BY DEF cutAll
<1>3. \A w \in Worker : \A k \in Slot(w) : hnd[w][k] \in Handler
  BY DEF HandlersOK
<1>4. \A w \in Worker : \A k \in Slot(w) : hnd'[w][k] = [hnd[w][k] EXCEPT !.live = FALSE]
  BY ZenonT(40), <1>2
<1>5. \A w \in Worker : \A k \in Slot(w) : hnd'[w][k] \in Handler /\ Alike(w, k)
  BY <1>1, <1>3, <1>4 DEF Alike
<1>6. \A w \in Worker : DOMAIN hnd'[w] = Slot(w) /\ hnd'[w] = [k \in Slot(w) |-> hnd'[w][k]]
  BY <1>2
<1> QED  BY <1>2, <1>5, <1>6, AllHandlers

(* What a step of one handler comes to. *)
Frees(w, k) ==
    /\ hnd'[w][k].pc = "free" /\ hnd'[w][k].art = 0
    /\ inFlight' = cleared(hnd[w][k].art)

Goes(w, k) ==
    /\ hnd[w][k].pc \in Asking /\ hnd'[w][k].pc \in Asking
    /\ hnd'[w][k].art = hnd[w][k].art
    /\ UNCHANGED <<bits, tried, inFlight, answered, results>>

GivesBack(w, k) ==
    /\ hnd[w][k].pc \in Asking
    /\ Frees(w, k)
    /\ tried' = [tried EXCEPT ![hnd[w][k].art] = @ \ {srvOf(w)}]
    /\ bits' = bits \/ bits' = clearEmitted(bits, hnd[w][k].art)
    /\ UNCHANGED <<answered, results>>

Refuses(w, k) ==
    /\ hnd[w][k].pc \in Asking /\ hnd'[w][k].pc \in {"emit", "emitNo"}
    /\ hnd'[w][k].art = hnd[w][k].art
    /\ answered' = [answered EXCEPT ![hnd[w][k].art] = @ \cup {srvOf(w)}]
    /\ UNCHANGED <<bits, tried, inFlight, results>>

Decodes(w, k) ==
    /\ hnd[w][k].pc \in Asking /\ hnd'[w][k].pc = "emit" /\ hnd'[w][k].kind \in Terminal
    /\ hnd'[w][k].art = hnd[w][k].art
    /\ bits' = IF exists THEN markEmitted(bits, hnd[w][k].art) ELSE bits
    /\ tried' = [tried EXCEPT ![hnd[w][k].art] = {}]
    /\ answered' = [answered EXCEPT ![hnd[w][k].art] = {}]
    /\ UNCHANGED <<inFlight, results>>

Emits(w, k) ==
    /\ hnd[w][k].pc \in {"emit", "emitNo"}
    /\ Frees(w, k)
    /\ \/ /\ results' = Append(results, [art |-> hnd[w][k].art, kind |-> hnd[w][k].kind])
          /\ UNCHANGED bits
       \/ /\ bits' = IF exists THEN clearEmitted(bits, hnd[w][k].art) ELSE bits
          /\ UNCHANGED results
    /\ UNCHANGED <<tried, answered>>

LEMMA FetchErrors ==
  ASSUME HandlersOK, NEW w \in Worker, NEW k \in Slot(w),
         hnd' = [(IF hnd[w][k].c = "current" THEN dropConn(hnd, w) ELSE hnd) EXCEPT ![w][k] = Free]
  PROVE  HandlersOK' /\ Others(w, k) /\ hnd'[w][k] = Free
<1>1. CASE hnd[w][k].c # "current"
  BY <1>1, OneHandler, FreeIsAHandler
<1>2. CASE hnd[w][k].c = "current"
  <2> DEFINE g == dropConn(hnd, w)
             F(h) == [h EXCEPT !.c = IF @ = "current" THEN "stale" ELSE @]
  <2>1. ASSUME NEW h \in Handler
        PROVE  F(h) \in Handler /\ F(h).pc = h.pc /\ F(h).art = h.art /\ F(h).kind = h.kind
    BY DEF Handler
  <2>2. DOMAIN g = Worker /\ g[w] = [m \in Slot(w) |-> F(hnd[w][m])] /\ \A x \in Worker \ {w} : g[x] = hnd[x]
    BY DEF dropConn, HandlersOK
  <2>3. hnd' = [g EXCEPT ![w][k] = Free]
    BY <1>2
  <2> HIDE DEF F, g
  <2>4. DOMAIN hnd' = Worker /\ hnd'[w] = [g[w] EXCEPT ![k] = Free] /\ \A x \in Worker \ {w} : hnd'[x] = hnd[x]
    BY <2>2, <2>3
  <2>5. \A m \in Slot(w) : hnd[w][m] \in Handler
    BY DEF HandlersOK
  <2>6. g[w] \in [Slot(w) -> Handler]
    BY <2>1, <2>2, <2>5
  <2>7. hnd'[w] \in [Slot(w) -> Handler] /\ hnd'[w][k] = Free /\ \A m \in Slot(w) \ {k} : hnd'[w][m] = F(hnd[w][m])
    <3>1. hnd'[w] \in [Slot(w) -> Handler] /\ hnd'[w][k] = Free
      BY ZenonT(40), <2>4, <2>6, FreeIsAHandler
    <3>2. \A m \in Slot(w) \ {k} : hnd'[w][m] = g[w][m]
      BY <2>4, <2>6
    <3>3. \A m \in Slot(w) : g[w][m] = F(hnd[w][m])
      BY <2>2
    <3> QED  BY <3>1, <3>2, <3>3
  <2>8. \A m \in Slot(w) \ {k} : Alike(w, m)
    BY <2>1, <2>5, <2>7 DEF Alike
  <2>9. \A x \in Worker : hnd'[x] \in [Slot(x) -> Handler]
    BY <2>4, <2>7 DEF HandlersOK
  <2>10. HandlersOK'
    BY <2>4, <2>9 DEF HandlersOK
  <2>11. \A x \in Worker \ {w} : \A m \in Slot(x) : Alike(x, m)
    BY <2>4 DEF Alike
  <2> QED  BY <2>7, <2>8, <2>10, <2>11 DEF Others
<1> QED  BY <1>1, <1>2

LEMMA HandlerSteps ==
  ASSUME HandlersOK, NEW w \in Worker, NEW k \in Slot(w), Handling(w, k)
  PROVE  /\ HandlersOK' /\ Others(w, k)
         /\ UNCHANGED <<job, work, loop, held, disp, opts, pause, phase>>
         /\ Goes(w, k) \/ GivesBack(w, k) \/ Refuses(w, k) \/ Decodes(w, k) \/ Emits(w, k)
<1> USE DEF prog, track, net, ctl
<1> DEFINE h == hnd[w][k]
<1>0. h \in Handler /\ "start" \in Asking /\ "stat" \in Asking /\ "wire" \in Asking /\ "dead" \in Asking
  BY DEF HandlersOK, Asking
<1>1. UNCHANGED <<job, work, loop, held, disp, opts, pause, phase>>
  BY DEF Handling, Refrain, GetOpen, Dial, Stat, NoArticle, CRCMismatch, Decoded, Broken, Emit
<1>2. ASSUME NEW pc \in {"emit", "emitNo"}, NEW kind \in Kind, hnd' = sending(w, k, pc, kind)
      PROVE  HandlersOK' /\ Others(w, k) /\ hnd'[w][k].pc = pc /\ hnd'[w][k].kind = kind /\ hnd'[w][k].art = h.art
  <2> DEFINE g == [h EXCEPT !.pc = pc, !.kind = kind]
  <2>1. g \in Handler /\ g.pc = pc /\ g.kind = kind /\ g.art = h.art
    BY <1>0 DEF Handler
  <2>2. hnd' = [hnd EXCEPT ![w][k] = g]
    BY <1>2 DEF sending, HandlersOK
  <2> HIDE DEF g, h
  <2> QED  BY <2>1, <2>2, OneHandler
<1>3. ASSUME NEW f \in Handler, f.art = h.art, hnd' = next(w, k, f)
      PROVE  HandlersOK' /\ Others(w, k) /\ hnd'[w][k].pc \in Asking /\ hnd'[w][k].art = h.art
  <2> DEFINE g == [f EXCEPT !.pc = IF h.live THEN "wire" ELSE "dead"]
  <2>1. g \in Handler /\ g.pc \in Asking /\ g.art = h.art
    BY <1>0, <1>3 DEF Handler, Asking
  <2>2. hnd' = [hnd EXCEPT ![w][k] = g]
    BY <1>3 DEF next, HandlersOK
  <2> HIDE DEF g, h
  <2> QED  BY <2>1, <2>2, OneHandler
<1>4. ASSUME command(w, k) PROVE HandlersOK' /\ Others(w, k) /\ hnd'[w][k].pc \in Asking /\ hnd'[w][k].art = h.art
  <2> DEFINE f == [h EXCEPT !.c = "current"]
             g == [f EXCEPT !.pc = "stat"]
  <2>1. f \in Handler /\ f.art = h.art /\ g \in Handler /\ g.art = h.art /\ g.pc \in Asking
    BY <1>0 DEF Handler, Asking
  <2>2. hnd' = [hnd EXCEPT ![w][k] = g] \/ hnd' = next(w, k, f)
    BY <1>4 DEF command
  <2> HIDE DEF f, g, h
  <2> QED  BY <1>3, <2>1, <2>2, OneHandler
<1>5. ASSUME hnd' = [hnd EXCEPT ![w][k] = Free]
      PROVE  HandlersOK' /\ Others(w, k) /\ hnd'[w][k].pc = "free" /\ hnd'[w][k].art = 0
  BY <1>5, OneHandler, FreeIsAHandler
<1>6. ASSUME refused(w, k)
      PROVE  HandlersOK' /\ Others(w, k) /\ hnd'[w][k].pc = "emitNo" /\ hnd'[w][k].art = h.art
             /\ answered' = [answered EXCEPT ![h.art] = @ \cup {srvOf(w)}]
  BY <1>2, <1>6 DEF refused, Kind
<1> HIDE DEF h
<1>7. CASE Refrain(w, k)
  BY <1>0, <1>5, <1>7 DEF Refrain, at, giveBack, GivesBack, Frees, h
<1>8. CASE GetOpen(w, k)
  BY <1>0, <1>4, <1>8 DEF GetOpen, mayFetch, at, command, Goes, h
<1>9. CASE Dial(w, k)
  <2>1. h.pc \in Asking /\ UNCHANGED <<bits, answered, results>>
    BY <1>0, <1>9 DEF Dial, mayFetch, at, h
  <2>2. CASE command(w, k)
    BY <1>1, <1>4, <2>1, <2>2 DEF command, Goes, h
  <2>3. CASE giveBack(w, k) /\ hnd' = [hnd EXCEPT ![w][k] = Free]
    BY <1>1, <1>5, <2>1, <2>3 DEF giveBack, GivesBack, Frees, h
  <2> QED  BY <1>9, <1>1, <2>2, <2>3 DEF Dial
<1>10. CASE Stat(w, k)
  <2>1. h.pc \in Asking /\ UNCHANGED <<bits, tried, inFlight, results>>
    BY <1>0, <1>10 DEF Stat, at, h
  <2>2. CASE refused(w, k)
    BY <1>1, <1>6, <2>1, <2>2 DEF Refuses, h
  <2>3. CASE hnd' = next(w, k, h) /\ UNCHANGED answered
    BY <1>0, <1>1, <1>3, <2>1, <2>3 DEF Goes, h
  <2> QED  BY <1>1, <1>10, <2>2, <2>3 DEF Stat, h
<1>11. CASE NoArticle(w, k)
  BY <1>0, <1>6, <1>11 DEF NoArticle, at, Refuses, h
<1>12. CASE CRCMismatch(w, k)
  BY <1>0, <1>2, <1>12 DEF CRCMismatch, at, Refuses, Kind, h
<1>13. CASE Decoded(w, k)
  <2>1. PICK kind \in {"fatal", "good"} : hnd' = sending(w, k, "emit", kind)
    BY <1>13 DEF Decoded
  <2>2. kind \in Kind /\ kind \in Terminal
    BY DEF Kind, Terminal
  <2> QED  BY <1>0, <1>1, <1>2, <1>13, <2>1, <2>2 DEF Decoded, at, Decodes, h
<1>14. CASE Broken(w, k)
  <2>1. h.pc \in Asking /\ UNCHANGED <<bits, answered, results>> /\ giveBack(w, k)
        /\ hnd' = [(IF h.c = "current" THEN dropConn(hnd, w) ELSE hnd) EXCEPT ![w][k] = Free]
    BY <1>0, <1>14 DEF Broken, fetchError, h
  <2> QED  BY <1>1, <2>1, FetchErrors, FreeIsAHandler DEF giveBack, GivesBack, Frees, h
<1>15. CASE Emit(w, k)
  BY <1>5, <1>15 DEF Emit, Emits, Frees, h
<1> QED  BY <1>1, <1>7, <1>8, <1>9, <1>10, <1>11, <1>12, <1>13, <1>14, <1>15 DEF Handling
-----------------------------------------------------------------------------
(* The job's bitsets. *)
BitsOK == bits \in [Article -> [done : BOOLEAN, failed : BOOLEAN, emitted : BOOLEAN]]

LEMMA BitDoors ==
  ASSUME BitsOK, DoneIsNotEmitted, NEW a \in Article,
         NEW b, b = bits \/ b = markEmitted(bits, a) \/ b = clearEmitted(bits, a)
                \/ b = markDone(bits, a) \/ b = markFailed(bits, a)
  PROVE  /\ b \in [Article -> [done : BOOLEAN, failed : BOOLEAN, emitted : BOOLEAN]]
         /\ \A x \in Article : b[x].done => ~b[x].emitted
         /\ \A x \in Article \ {a} : b[x] = bits[x]
         /\ b = clearEmitted(bits, a) \/ b = markDone(bits, a) \/ b = markFailed(bits, a) => ~b[a].emitted
<1> DEFINE T == [done : BOOLEAN, failed : BOOLEAN, emitted : BOOLEAN]
<1>0. bits \in [Article -> T] /\ bits[a] \in T /\ (bits[a].done => ~bits[a].emitted)
  BY DEF BitsOK, DoneIsNotEmitted
<1>1. CASE b = bits
  <2>1. ASSUME b = clearEmitted(bits, a) PROVE ~b[a].emitted
    BY <1>0, <2>1 DEF clearEmitted
  <2>2. ASSUME b = markDone(bits, a) PROVE ~b[a].emitted
    BY <1>0, <2>2 DEF markDone
  <2>3. ASSUME b = markFailed(bits, a) PROVE ~b[a].emitted
    BY <1>0, <2>3 DEF markFailed
  <2> QED  BY <1>0, <1>1, <2>1, <2>2, <2>3 DEF DoneIsNotEmitted
<1>2. CASE b # bits
  <2>1. PICK c \in T : b = [bits EXCEPT ![a] = c] /\ (c.done => ~c.emitted)
          /\ (b = clearEmitted(bits, a) \/ b = markDone(bits, a) \/ b = markFailed(bits, a) => ~c.emitted)
    <3>1. CASE b = markEmitted(bits, a)
      <4> DEFINE c == [bits[a] EXCEPT !.emitted = TRUE]
      <4>1. b = [bits EXCEPT ![a] = c] /\ ~bits[a].done
        BY <1>0, <1>2, <3>1 DEF markEmitted
      <4>2. c \in T /\ ~c.done /\ c.emitted
        BY <1>0, <4>1
      <4>3. b[a].emitted
        BY <1>0, <4>1, <4>2
      <4>4. b # clearEmitted(bits, a)
        BY <1>0, <4>3 DEF clearEmitted
      <4>5. b # markDone(bits, a) /\ b # markFailed(bits, a)
        BY <1>0, <4>1, <4>3 DEF markDone, markFailed
      <4> QED  BY <4>1, <4>2, <4>4, <4>5
    <3>2. CASE b = clearEmitted(bits, a)
      <4> DEFINE c == [bits[a] EXCEPT !.emitted = FALSE]
      <4>1. b = [bits EXCEPT ![a] = c]
        BY <1>0, <3>2 DEF clearEmitted
      <4>2. c \in T /\ ~c.emitted
        BY <1>0
      <4> QED  BY <4>1, <4>2
    <3>3. CASE b = markDone(bits, a)
      <4> DEFINE c == [bits[a] EXCEPT !.done = TRUE, !.emitted = FALSE]
      <4>1. b = [bits EXCEPT ![a] = c]
        BY <1>0, <1>2, <3>3 DEF markDone
      <4>2. c \in T /\ ~c.emitted
        BY <1>0
      <4> QED  BY <4>1, <4>2
    <3>4. CASE b = markFailed(bits, a)
      <4> DEFINE c == [done |-> TRUE, failed |-> TRUE, emitted |-> FALSE]
      <4>1. b = [bits EXCEPT ![a] = c]
        BY <1>0, <1>2, <3>4 DEF markFailed
      <4>2. c \in T /\ ~c.emitted
        OBVIOUS
      <4> QED  BY <4>1, <4>2
    <3> QED  BY <1>2, <3>1, <3>2, <3>3, <3>4
  <2> HIDE DEF T
  <2>2. b[a] = c /\ \A x \in Article \ {a} : b[x] = bits[x]
    BY <1>0, <2>1
  <2>3. b \in [Article -> T]
    BY <1>0, <2>1
  <2> QED  BY <1>0, <2>1, <2>2, <2>3 DEF DoneIsNotEmitted, T
<1> QED  BY <1>1, <1>2
-----------------------------------------------------------------------------
(* The dispatch goroutine's plan. *)
Plan == [pc : {"idle", "build", "apply", "emit", "exit"}, i : Nat, ex : Seq(Article),
         any : BOOLEAN, hop : BOOLEAN, opts : Options]

LEMMA IdlePlan ==
  ASSUME scn \in Scenario
  PROVE  Idle \in Plan /\ Idle.ex = <<>> /\ Idle.pc = "idle" /\ Idle.i = 1
<1>1. scn.opts \in Options
  BY Servers
<1>2. <<>> \in Seq(Article)
  OBVIOUS
<1> QED  BY <1>1, <1>2 DEF Idle, Plan

(* What is left of a plan is nothing, or the same plan to be applied. *)
LEMMA RestOfPlan ==
  ASSUME scn \in Scenario, NEW d \in Plan
  PROVE  /\ rest(d) \in Plan
         /\ \/ rest(d).ex = <<>> /\ rest(d).pc = "idle" /\ d.ex = <<>>
            \/ /\ rest(d).pc = "apply" /\ rest(d).ex = d.ex
               /\ rest(d).i = d.i /\ rest(d).opts = d.opts
<1> DEFINE e == [d EXCEPT !.pc = "apply"]
<1>1. e \in Plan /\ e.pc = "apply" /\ e.ex = d.ex /\ e.i = d.i /\ e.opts = d.opts
  BY DEF Plan
<1>2. (rest(d) = e) \/ (rest(d) = Idle /\ d.ex = <<>>)
  BY DEF rest
<1> HIDE DEF e
<1> QED  BY <1>1, <1>2, IdlePlan

\* What every step but a walk, a claim and an emission does to the plan.
PlanKept ==
    /\ disp' \in Plan
    /\ \/ disp'.ex = <<>> /\ disp'.pc # "emit"
       \/ /\ disp'.ex = disp.ex /\ disp'.i = disp.i /\ disp'.opts = disp.opts
          /\ disp'.pc = disp.pc \/ (disp.pc = "build" /\ disp'.pc = "apply")

LEMMA StartPassPlan ==
  ASSUME scn \in Scenario, disp \in Plan, PlanOK, opts \in Options, StartPass
  PROVE  PlanKept
<1> DEFINE plan == [Idle EXCEPT !.opts = opts]
           hop == [plan EXCEPT !.hop = TRUE]
           build == [plan EXCEPT !.pc = "build"]
<1>1. plan \in Plan /\ plan.ex = <<>> /\ plan.pc = "idle"
  BY IdlePlan DEF Plan
<1>2. hop \in Plan /\ hop.ex = <<>>
  BY <1>1 DEF Plan
<1>3. build \in Plan /\ build.ex = <<>> /\ build.pc = "build"
  BY <1>1 DEF Plan
<1>4. (disp' = disp) \/ (disp' = rest(hop)) \/ (disp' = build) \/ (disp' = rest(plan))
  BY DEF StartPass
<1> HIDE DEF plan, hop, build
<1>5. CASE disp' = rest(hop)
  BY <1>2, <1>5, RestOfPlan DEF PlanKept
<1>6. CASE disp' = rest(plan)
  BY <1>1, <1>6, RestOfPlan DEF PlanKept
<1>7. CASE disp' = disp
  BY <1>7 DEF PlanKept
<1>8. CASE disp' = build
  BY <1>3, <1>8 DEF PlanKept
<1> QED  BY <1>4, <1>5, <1>6, <1>7, <1>8

LEMMA OtherPlans ==
  ASSUME scn \in Scenario, disp \in Plan, PlanOK,
         WalkCut \/ EndPass \/ DispatcherExits
  PROVE  PlanKept
<1>1. CASE WalkCut
  <2>1. disp' = rest(disp) /\ disp.pc = "build"
    BY <1>1 DEF WalkCut
  <2> QED  BY <2>1, RestOfPlan DEF PlanKept
<1>2. CASE EndPass
  BY <1>2, IdlePlan DEF EndPass, PlanKept
<1>3. CASE DispatcherExits
  <2> DEFINE e == [disp EXCEPT !.pc = "exit"]
  <2>1. e \in Plan /\ e.pc = "exit" /\ e.ex = disp.ex
    BY DEF Plan
  <2>2. disp' = e /\ disp.ex = <<>>
    BY <1>3 DEF DispatcherExits, PlanOK
  <2> QED  BY <2>1, <2>2 DEF PlanKept
<1> QED  BY <1>1, <1>2, <1>3

LEMMA KeptPlanOK ==
  ASSUME disp \in Plan, PlanOK, PlanKept
  PROVE  PlanOK'
<1>1. CASE disp'.ex = <<>> /\ disp'.pc # "emit"
  BY <1>1 DEF PlanOK
<1>2. CASE disp'.ex = disp.ex /\ disp'.i = disp.i /\ (disp'.pc = disp.pc \/ (disp.pc = "build" /\ disp'.pc = "apply"))
  BY <1>2 DEF PlanOK
<1> QED  BY <1>1, <1>2 DEF PlanKept

(* The tail of a sequence of articles. *)
LEMMA TailOf ==
  ASSUME NEW T, NEW q \in Seq(T), q # <<>>
  PROVE  /\ Tail(q) \in Seq(T) /\ Len(q) \in Nat \ {0} /\ Len(Tail(q)) = Len(q) - 1
         /\ Head(q) = q[1] /\ q[1] \in T /\ 1 \in DOMAIN q
         /\ \A i \in DOMAIN Tail(q) : i + 1 \in DOMAIN q /\ Tail(q)[i] = q[i + 1]
         /\ \A i \in DOMAIN q : i = 1 \/ (i - 1 \in DOMAIN Tail(q) /\ Tail(q)[i - 1] = q[i])
<1>1. Len(q) \in Nat \ {0}
  BY EmptySeq
<1>2. Tail(q) \in Seq(T) /\ Len(Tail(q)) = Len(q) - 1 /\ \A i \in 1..Len(Tail(q)) : Tail(q)[i] = q[i + 1]
  BY HeadTailProperties
<1>3. Head(q) = q[1] /\ q[1] \in T /\ 1 \in DOMAIN q /\ DOMAIN q = 1..Len(q) /\ DOMAIN Tail(q) = 1..Len(Tail(q))
  BY <1>1, <1>2
<1> QED  BY <1>1, <1>2, <1>3

LEMMA AppendOf ==
  ASSUME NEW T, NEW q \in Seq(T), NEW x \in T
  PROVE  /\ Append(q, x) \in Seq(T) /\ Len(q) \in Nat /\ DOMAIN q = 1..Len(q)
         /\ DOMAIN Append(q, x) = 1..(Len(q) + 1) /\ Append(q, x)[Len(q) + 1] = x
         /\ \A i \in DOMAIN q : i \in DOMAIN Append(q, x) /\ Append(q, x)[i] = q[i]
         /\ \A i \in DOMAIN Append(q, x) : i = Len(q) + 1 \/ i \in DOMAIN q
<1>1. Append(q, x) \in Seq(T) /\ Len(Append(q, x)) = Len(q) + 1 /\ \A i \in 1..Len(q) : Append(q, x)[i] = q[i]
  BY AppendProperties
<1>2. Append(q, x)[Len(q) + 1] = x /\ Len(q) \in Nat
  BY AppendProperties
<1>3. DOMAIN q = 1..Len(q) /\ DOMAIN Append(q, x) = 1..(Len(q) + 1)
  BY <1>1
<1> QED  BY <1>1, <1>2, <1>3

LEMMA GiveUpPlan ==
  ASSUME disp \in Plan, PlanOK, GiveUp
  PROVE  /\ disp' \in Plan /\ PlanOK' /\ disp'.ex = disp.ex /\ disp'.opts = disp.opts /\ disp'.pc = "emit"
         /\ disp.pc = "apply" /\ disp.ex # <<>> /\ Head(disp.ex) \in Article
<1> DEFINE e == [disp EXCEPT !.pc = "emit"]
<1>1. e \in Plan /\ e.pc = "emit" /\ e.ex = disp.ex /\ e.opts = disp.opts /\ e.i = disp.i /\ disp.ex \in Seq(Article)
  BY DEF Plan
<1>2. disp' = e /\ disp.ex # <<>> /\ disp.pc = "apply"
  BY DEF GiveUp
<1> HIDE DEF e
<1>3. PlanOK'
  BY <1>1, <1>2 DEF PlanOK
<1> QED  BY <1>1, <1>2, <1>3, TailOf

LEMMA EmitGivenUpPlan ==
  ASSUME scn \in Scenario, disp \in Plan, PlanOK, EmitGivenUp
  PROVE  /\ disp' \in Plan /\ PlanOK' /\ disp'.pc # "emit"
         /\ disp'.ex = <<>> \/ (disp'.ex = Tail(disp.ex) /\ disp'.opts = disp.opts)
         /\ disp.pc = "emit" /\ disp.ex # <<>> /\ Head(disp.ex) \in Article
<1> DEFINE e == [disp EXCEPT !.ex = Tail(@)]
<1>1. disp.pc = "emit" /\ disp.ex # <<>> /\ disp' = rest(e)
  BY DEF EmitGivenUp, PlanOK
<1>2. disp.ex \in Seq(Article) /\ disp.i \in Nat
  BY DEF Plan
<1>3. e \in Plan /\ e.ex = Tail(disp.ex) /\ e.opts = disp.opts /\ e.i = disp.i
  BY <1>1, <1>2, TailOf DEF Plan
<1> HIDE DEF e
<1>4. /\ disp' \in Plan
      /\ \/ disp'.ex = <<>> /\ disp'.pc = "idle"
         \/ disp'.pc = "apply" /\ disp'.ex = e.ex /\ disp'.i = e.i /\ disp'.opts = e.opts
  BY <1>1, <1>3, RestOfPlan
<1>5. \A i \in DOMAIN disp.ex : i \in Nat
  BY <1>2
<1>6. \A i \in DOMAIN Tail(disp.ex) : i \in Nat /\ i + 1 \in DOMAIN disp.ex /\ Tail(disp.ex)[i] = disp.ex[i + 1]
  <2>1. Tail(disp.ex) \in Seq(Article)
    BY <1>1, <1>2, TailOf
  <2> QED  BY <1>1, <1>2, <2>1, TailOf
<1>7. PlanOK'
  <2>1. CASE disp'.ex = <<>> /\ disp'.pc = "idle"
    BY <2>1 DEF PlanOK
  <2>2. CASE disp'.pc = "apply" /\ disp'.ex = Tail(disp.ex) /\ disp'.i = disp.i
    BY <1>6, <2>2 DEF PlanOK
  <2> QED  BY <1>3, <1>4, <2>1, <2>2
<1> QED  BY <1>1, <1>2, <1>3, <1>4, <1>7, TailOf

\* What one article of the walk comes to.
Walks(a) ==
    LET v == tryDispatch(a) IN
    /\ disp.pc = "build" /\ a >= disp.i /\ Unfinished(a)
    /\ UNCHANGED <<bits, job, loop, hnd, results, held, opts, pause, phase, answered>>
    /\ disp' \in Plan /\ PlanOK' /\ disp'.pc # "emit"
    /\ \/ disp'.ex = <<>>
       \/ /\ disp'.ex = IF v = giveUp THEN Append(disp.ex, a) ELSE disp.ex
          /\ disp'.opts = disp.opts
    /\ \/ /\ v \in Server
          /\ work' = [work EXCEPT ![v] = Append(@, a)]
          /\ tried' = [tried EXCEPT ![a] = @ \cup {v}]
          /\ inFlight' = [inFlight EXCEPT ![a] = @ + 1]
       \/ v \notin Server /\ UNCHANGED <<work, tried, inFlight>>

LEMMA WalkPlan ==
  ASSUME scn \in Scenario, disp \in Plan, PlanOK, BuildPlan
  PROVE  \E a \in Article : Walks(a)
<1> USE DEF prog, ctl
<1>1. PICK a \in {b \in Article : b >= disp.i /\ Unfinished(b)} :
        LET v == tryDispatch(a) IN
            /\ IF v \in Server
               THEN /\ work' = [work EXCEPT ![v] = Append(@, a)]
                    /\ tried' = [tried EXCEPT ![a] = @ \cup {v}]
                    /\ inFlight' = [inFlight EXCEPT ![a] = @ + 1]
               ELSE UNCHANGED <<work, tried, inFlight>>
            /\ LET d == [disp EXCEPT !.i = a + 1,
                                     !.any = @ \/ v # later,
                                     !.ex = IF v = giveUp THEN Append(@, a) ELSE @]
               IN  (disp' = rest(d)) \/ (disp' = d)
  BY DEF BuildPlan
<1> DEFINE v == tryDispatch(a)
           ex == IF v = giveUp THEN Append(disp.ex, a) ELSE disp.ex
           d == [disp EXCEPT !.i = a + 1, !.any = @ \/ v # later, !.ex = ex]
<1>2. disp.pc = "build" /\ a \in Article /\ a \in Nat /\ a >= disp.i /\ Unfinished(a)
  BY <1>1, Servers DEF BuildPlan
<1>3. disp.ex \in Seq(Article) /\ disp.i \in Nat
  BY DEF Plan
<1>4. ex \in Seq(Article)
  BY <1>2, <1>3, AppendOf
<1>5. d \in Plan /\ d.ex = ex /\ d.i = a + 1 /\ d.opts = disp.opts /\ d.pc = "build"
  <2>1. ASSUME NEW y \in BOOLEAN
        PROVE  LET g == [disp EXCEPT !.i = a + 1, !.any = y, !.ex = ex]
               IN  g \in Plan /\ g.ex = ex /\ g.i = a + 1 /\ g.opts = disp.opts /\ g.pc = "build"
    <3> DEFINE g1 == [disp EXCEPT !.i = a + 1]
               g2 == [g1 EXCEPT !.any = y]
               g3 == [g2 EXCEPT !.ex = ex]
    <3> HIDE DEF ex, v
    <3>1. g1 \in Plan /\ g1.i = a + 1 /\ g1.opts = disp.opts /\ g1.pc = "build"
      BY <1>2 DEF Plan
    <3> HIDE DEF g1
    <3>2. g2 \in Plan /\ g2.i = a + 1 /\ g2.opts = disp.opts /\ g2.pc = "build"
      BY <3>1 DEF Plan
    <3> HIDE DEF g2
    <3>3. g3 \in Plan /\ g3.ex = ex /\ g3.i = a + 1 /\ g3.opts = disp.opts /\ g3.pc = "build"
      BY <1>4, <3>2 DEF Plan
    <3> HIDE DEF g3
    <3>4. [disp EXCEPT !.i = a + 1, !.any = y, !.ex = ex] = g3
      BY Zenon DEF g1, g2, g3
    <3> QED  BY <3>3, <3>4
  <2>2. (disp.any \/ v # later) \in BOOLEAN
    OBVIOUS
  <2> QED  BY <2>1, <2>2
<1>6. (disp' = rest(d)) \/ (disp' = d)
  BY <1>1
<1>7. /\ \A i \in DOMAIN ex : ex[i] < a + 1
      /\ \A i, k \in DOMAIN ex : ex[i] = ex[k] => i = k
  <2>1. \A i \in DOMAIN disp.ex : disp.ex[i] \in Nat /\ disp.ex[i] < a
    <3>1. \A i \in DOMAIN disp.ex : disp.ex[i] \in Article
      BY <1>3
    <3>2. \A i \in DOMAIN disp.ex : disp.ex[i] \in Nat
      BY <3>1, Servers
    <3> QED  BY <1>2, <1>3, <3>2 DEF PlanOK
  <2>2. \A i, k \in DOMAIN disp.ex : disp.ex[i] = disp.ex[k] => i = k
    BY DEF PlanOK
  <2>3. CASE v # giveUp
    BY <1>2, <2>1, <2>2, <2>3
  <2>4. CASE v = giveUp
    <3>1. ex = Append(disp.ex, a)
      BY <2>4
    <3>2. \A i \in DOMAIN ex : (ex[i] = a /\ i = Len(disp.ex) + 1) \/ (i \in DOMAIN disp.ex /\ ex[i] = disp.ex[i])
      BY <1>2, <1>3, <3>1, AppendOf
    <3> HIDE DEF ex
    <3> QED  BY <1>2, <2>1, <2>2, <3>2
  <2> QED  BY <2>3, <2>4
<1> HIDE DEF d, ex
<1>8. /\ disp' \in Plan
      /\ \/ disp'.ex = <<>> /\ disp'.pc = "idle"
         \/ disp'.pc \in {"apply", "build"} /\ disp'.ex = ex /\ disp'.i = a + 1 /\ disp'.opts = disp.opts
  BY <1>5, <1>6, RestOfPlan
<1>9. PlanOK'
  <2>1. CASE disp'.ex = <<>> /\ disp'.pc = "idle"
    BY <2>1 DEF PlanOK
  <2>2. CASE disp'.pc \in {"apply", "build"} /\ disp'.ex = ex /\ disp'.i = a + 1
    BY <1>7, <2>2 DEF PlanOK
  <2> QED  BY <1>8, <2>1, <2>2
<1>10. UNCHANGED <<bits, job, loop, hnd, results, held, opts, pause, phase, answered>>
  BY DEF BuildPlan
<1>11. \/ /\ v \in Server
          /\ work' = [work EXCEPT ![v] = Append(@, a)]
          /\ tried' = [tried EXCEPT ![a] = @ \cup {v}]
          /\ inFlight' = [inFlight EXCEPT ![a] = @ + 1]
       \/ v \notin Server /\ UNCHANGED <<work, tried, inFlight>>
  BY <1>1
<1> QED  BY <1>2, <1>8, <1>9, <1>10, <1>11 DEF Walks, ex
-----------------------------------------------------------------------------
(* The connection workers. *)
LoopState == [mode : {"acquire", "select", "drain", "exiting", "exit"}, snap : {"nil", "live", "fired"}]

SameModes == loop' \in [Worker -> LoopState] /\ \A w \in Worker : loop'[w].mode = loop[w].mode

AllAlike == HandlersOK' /\ \A w \in Worker : \A k \in Slot(w) : Alike(w, k)

LEMMA SameHandlers ==
  ASSUME HandlersOK, UNCHANGED hnd
  PROVE  AllAlike
  BY DEF HandlersOK, AllAlike, Alike

LEMMA Signalled ==
  ASSUME loop \in [Worker -> LoopState], loop' = loop \/ loop' = signalled(loop)
  PROVE  SameModes
<1>1. CASE loop' = loop
  BY <1>1 DEF SameModes
<1>2. CASE loop' = signalled(loop)
  <2>1. ASSUME NEW l \in LoopState
        PROVE  LET m == [l EXCEPT !.snap = IF @ = "live" THEN "fired" ELSE @] IN m \in LoopState /\ m.mode = l.mode
    BY DEF LoopState
  <2>2. loop' = [w \in Worker |-> [loop[w] EXCEPT !.snap = IF @ = "live" THEN "fired" ELSE @]]
    BY <1>2 DEF signalled
  <2>3. \A w \in Worker : loop[w] \in LoopState
    OBVIOUS
  <2>4. \A w \in Worker : loop'[w] \in LoopState /\ loop'[w].mode = loop[w].mode
    BY <2>1, <2>2, <2>3
  <2>5. loop' \in [Worker -> LoopState]
    BY <2>2, <2>4
  <2> QED  BY <2>4, <2>5 DEF SameModes
<1> QED  BY <1>1, <1>2

LEMMA SameSlots ==
  ASSUME SlotsOK, AllAlike, SameModes
  PROVE  SlotsOK'
  BY DEF SlotsOK, AllAlike, Alike, SameModes

(* A handler that moves on, or frees its slot, had the slot. *)
LEMMA HandlerSlots ==
  ASSUME SlotsOK, NEW w \in Worker, NEW k \in Slot(w), Others(w, k), UNCHANGED loop,
         hnd[w][k].pc # "free",
         hnd'[w][k].pc = "free" <=> hnd'[w][k].art = 0
  PROVE  SlotsOK'
<1>1. \A x \in Worker : \A m \in Slot(x) : hnd'[x][m].pc = "free" <=> hnd'[x][m].art = 0
  BY DEF SlotsOK, Others, Alike
<1>2. loop[w].mode # "exit"
  BY DEF SlotsOK
<1>3. \A x \in Worker : loop[x].mode = "exit" => \A m \in Slot(x) : hnd'[x][m].pc = "free"
  BY <1>2 DEF SlotsOK, Others, Alike
<1>4. \A x \in Worker : loop[x].mode = "select" => \E m \in Slot(x) : hnd'[x][m].pc = "free"
  BY DEF SlotsOK, Others, Alike
<1> QED  BY <1>1, <1>3, <1>4 DEF SlotsOK

(* A worker whose handlers number less than its slots has one to spare. *)
LEMMA SpareSlot ==
  ASSUME NEW w \in Worker, Cardinality(Busy(w)) < 2 * Depth(w)
  PROVE  \E k \in Slot(w) : hnd[w][k].pc = "free"
<1>1. SUFFICES ASSUME \A k \in Slot(w) : hnd[w][k].pc # "free" PROVE FALSE
  OBVIOUS
<1>2. Busy(w) = 1..(2 * Depth(w)) /\ Depth(w) \in Nat
  BY <1>1, Servers DEF Busy
<1>3. Cardinality(1..(2 * Depth(w))) = 2 * Depth(w)
  BY <1>2, FS_Interval
<1> QED  BY <1>2, <1>3

\* A request moves from the queue to a handler.
Takes(w, k) ==
    /\ hnd[w][k].pc = "free" /\ hnd'[w][k].pc = "start" /\ hnd'[w][k].art = Head(work[srvOf(w)])
    /\ HandlersOK' /\ Others(w, k)
    /\ work[srvOf(w)] # <<>> /\ work' = [work EXCEPT ![srvOf(w)] = Tail(@)]
    /\ loop' \in [Worker -> LoopState] /\ loop'[w].mode = "acquire"
    /\ \A x \in Worker \ {w} : loop'[x] = loop[x]
    /\ UNCHANGED <<bits, job, tried, inFlight, results, held, disp, opts, pause, phase, answered>>

LEMMA LoopOne ==
  ASSUME loop \in [Worker -> LoopState], NEW w \in Worker, NEW l \in LoopState, loop' = [loop EXCEPT ![w] = l]
  PROVE  loop' \in [Worker -> LoopState] /\ loop'[w] = l /\ \A x \in Worker \ {w} : loop'[x] = loop[x]
  OBVIOUS

LEMMA TakeSteps ==
  ASSUME FetchTypeOK, SlotsOK, NEW w \in Worker, Take(w)
  PROVE  \E k \in Slot(w) : Takes(w, k)
<1> USE DEF prog, track, ctl
<1> DEFINE s == srvOf(w)
           k == Min(Slot(w) \ Busy(w))
           f1 == [Free EXCEPT !.pc = "start"]
           f2 == [f1 EXCEPT !.art = Head(work[s])]
           f3 == [f2 EXCEPT !.live = pause.live /\ phase = "run"]
<1>1. k \in Slot(w) /\ hnd[w][k].pc = "free"
  <2>1. \E m \in Slot(w) : hnd[w][m].pc = "free"
    BY DEF Take, SlotsOK
  <2>2. Slot(w) \ Busy(w) # {} /\ Slot(w) \ Busy(w) \in SUBSET Nat
    BY <2>1, Servers DEF Busy
  <2>3. k \in Slot(w) \ Busy(w)
    BY <2>2, MinIsAMember
  <2> QED  BY <2>3 DEF Busy
<1>2. s \in Server /\ work[s] # <<>> /\ work[s] \in Seq(Article) /\ Head(work[s]) \in Article
  <2>1. s \in Server /\ work[s] # <<>>
    BY Servers DEF Take
  <2>2. work[s] \in Seq(Article)
    BY <2>1 DEF FetchTypeOK
  <2> QED  BY <2>1, <2>2, TailOf
<1>3. f1 \in Handler /\ f1.pc = "start"
  BY FreeIsAHandler DEF Handler, Asking
<1>4. f2 \in Handler /\ f2.pc = "start" /\ f2.art = Head(work[s])
  <2> HIDE DEF f1, s
  <2> QED  BY <1>2, <1>3 DEF Handler
<1>5. f3 \in Handler /\ f3.pc = "start" /\ f3.art = Head(work[s])
  <2> HIDE DEF f2, s
  <2>1. (pause.live /\ phase = "run") \in BOOLEAN
    OBVIOUS
  <2>2. ASSUME NEW y \in BOOLEAN
        PROVE  LET g == [f2 EXCEPT !.live = y] IN g \in Handler /\ g.pc = "start" /\ g.art = Head(work[s])
    BY <1>4 DEF Handler
  <2> QED  BY <2>1, <2>2
<1>6. hnd' = [hnd EXCEPT ![w][k] = f3]
  BY Zenon DEF Take
<1>7. HandlersOK
  BY DEF HandlersOK, FetchTypeOK
<1> HIDE DEF f1, f2, f3, k
<1>8. HandlersOK' /\ Others(w, k) /\ hnd'[w][k] = f3
  BY <1>1, <1>5, <1>6, <1>7, OneHandler
<1>9. [mode |-> "acquire", snap |-> "nil"] \in LoopState
  BY DEF LoopState
<1>10. loop \in [Worker -> LoopState]
  BY DEF FetchTypeOK, LoopState
<1>11. loop' \in [Worker -> LoopState] /\ loop'[w].mode = "acquire" /\ \A x \in Worker \ {w} : loop'[x] = loop[x]
  BY <1>9, <1>10, LoopOne DEF Take
<1>12. work' = [work EXCEPT ![s] = Tail(@)] /\ UNCHANGED <<bits, job, tried, inFlight, results, held, disp, opts, pause, phase, answered>>
  BY DEF Take
<1> QED  BY <1>1, <1>2, <1>5, <1>8, <1>11, <1>12 DEF Takes

LEMMA LoopSteps ==
  ASSUME FetchTypeOK, SlotsOK, NEW w \in Worker, Arm(w) \/ Disconnect(w) \/ Drained(w) \/ WorkerStops(w)
  PROVE  /\ loop' \in [Worker -> LoopState] /\ SlotsOK' /\ AllAlike
         /\ UNCHANGED <<bits, job, tried, inFlight, work, results, held, disp, opts, pause, phase, answered>>
<1> USE DEF prog, track, ctl
<1>1. UNCHANGED <<bits, job, tried, inFlight, work, results, held, disp, opts, pause, phase, answered>> /\ UNCHANGED hnd
  BY DEF Arm, Disconnect, Drained, WorkerStops
<1>2. AllAlike
  BY <1>1, SameHandlers DEF FetchTypeOK, HandlersOK
<1>3. loop \in [Worker -> LoopState] /\ loop[w] \in LoopState
  BY DEF FetchTypeOK, LoopState
<1>4. \E l \in LoopState : /\ loop' = [loop EXCEPT ![w] = l]
                           /\ l.mode = "select" => \E k \in Slot(w) : hnd[w][k].pc = "free"
                           /\ l.mode = "exit" => \A k \in Slot(w) : hnd[w][k].pc = "free"
  <2>1. CASE Arm(w)
    <3> DEFINE l == [mode |-> "select", snap |-> IF ~conn[w] /\ Busy(w) = {} THEN "nil"
                                                 ELSE IF disc THEN "fired" ELSE "live"]
    <3>1. l \in LoopState /\ l.mode = "select" /\ loop' = [loop EXCEPT ![w] = l]
      BY <2>1 DEF Arm, LoopState
    <3>2. \E k \in Slot(w) : hnd[w][k].pc = "free"
      BY <2>1, SpareSlot DEF Arm
    <3> QED  BY <3>1, <3>2
  <2>2. CASE Disconnect(w) \/ WorkerStops(w)
    <3> DEFINE l == [mode |-> "drain", snap |-> "nil"]
               m == [mode |-> "exiting", snap |-> "nil"]
    <3>1. l \in LoopState /\ m \in LoopState /\ l.mode = "drain" /\ m.mode = "exiting"
      BY DEF LoopState
    <3>2. (loop' = [loop EXCEPT ![w] = l]) \/ (loop' = [loop EXCEPT ![w] = m])
      BY <2>2 DEF Disconnect, WorkerStops
    <3> HIDE DEF l, m
    <3> QED  BY <3>1, <3>2
  <2>3. CASE Drained(w)
    <3> DEFINE l == [loop[w] EXCEPT !.mode = IF @ = "drain" THEN "acquire" ELSE "exit"]
    <3>1. l \in LoopState /\ l.mode \in {"acquire", "exit"}
      BY <1>3 DEF LoopState
    <3>2. loop' = [loop EXCEPT ![w] = l]
      BY <1>3, <2>3 DEF Drained
    <3>3. \A k \in Slot(w) : hnd[w][k].pc = "free"
      BY <2>3 DEF Drained, Busy
    <3> HIDE DEF l
    <3> QED  BY <3>1, <3>2, <3>3
  <2> QED  BY <2>1, <2>2, <2>3
<1>5. PICK l \in LoopState : /\ loop' = [loop EXCEPT ![w] = l]
                             /\ l.mode = "select" => \E k \in Slot(w) : hnd[w][k].pc = "free"
                             /\ l.mode = "exit" => \A k \in Slot(w) : hnd[w][k].pc = "free"
  BY <1>4
<1>6. loop' \in [Worker -> LoopState] /\ loop'[w] = l /\ \A x \in Worker \ {w} : loop'[x] = loop[x]
  BY <1>3, <1>5, LoopOne
<1>7. SlotsOK'
  BY <1>1, <1>5, <1>6 DEF SlotsOK
<1> QED  BY <1>1, <1>2, <1>6, <1>7
-----------------------------------------------------------------------------
(* Types, slots, plans and bits: the part of the invariant that needs      *)
(* nothing else.                                                           *)
FetchBase == FetchTypeOK /\ SlotsOK /\ PlanOK /\ DoneIsNotEmitted

BitState == [done : BOOLEAN, failed : BOOLEAN, emitted : BOOLEAN]

Completion == [art : Article, kind : Kind]

FetchParts ==
    /\ scn \in Scenario /\ BitsOK
    /\ job \in {"young", "run", "paused", "cancelled", "left", "gone"}
    /\ tried \in [Article -> SUBSET Server] /\ answered \in [Article -> SUBSET Server]
    /\ inFlight \in [Article -> Nat] /\ work \in [Server -> Seq(Article)]
    /\ loop \in [Worker -> LoopState] /\ HandlersOK
    /\ results \in Seq(Completion) /\ held \subseteq Article /\ disp \in Plan /\ opts \in Options
    /\ pause \in [queue : BOOLEAN, flag : BOOLEAN, live : BOOLEAN, low : BOOLEAN]
    /\ phase \in {"run", "stop"}

LEMMA Parts == FetchTypeOK <=> FetchParts
  BY DEF FetchTypeOK, FetchParts, BitsOK, LoopState, HandlersOK, Completion, Plan

LEMMA PartsNext == FetchTypeOK' <=> FetchParts'
  BY DEF FetchTypeOK, FetchParts, BitsOK, LoopState, HandlersOK, Completion, Plan

\* A busy handler has an article.
LEMMA BusyHasArticle ==
  ASSUME HandlersOK, SlotsOK, NEW w \in Worker, NEW k \in Slot(w), hnd[w][k].pc # "free"
  PROVE  hnd[w][k].art \in Article /\ hnd[w][k].kind \in Kind
<1>1. hnd[w][k] \in Handler
  BY DEF HandlersOK
<1>2. hnd[w][k].art \in Article \cup {0} /\ hnd[w][k].kind \in Kind
  BY <1>1 DEF Handler
<1> QED  BY <1>2 DEF SlotsOK

LEMMA ClearedCount ==
  ASSUME inFlight \in [Article -> Nat], NEW a \in Article, inFlight' = cleared(a)
  PROVE  inFlight' \in [Article -> Nat] /\ (inFlight[a] \in {0, 1} => inFlight'[a] = 0)
         /\ \A x \in Article \ {a} : inFlight'[x] = inFlight[x]
  BY DEF cleared

LEMMA HandlerBase ==
  ASSUME FetchBase, UNCHANGED scn, NEW w \in Worker, NEW k \in Slot(w), Handling(w, k)
  PROVE  FetchBase'
<1>1. HandlersOK /\ SlotsOK /\ BitsOK /\ DoneIsNotEmitted /\ scn \in Scenario
  BY Parts DEF FetchBase, FetchParts
<1>2. /\ HandlersOK' /\ Others(w, k)
      /\ UNCHANGED <<job, work, loop, held, disp, opts, pause, phase>>
      /\ Goes(w, k) \/ GivesBack(w, k) \/ Refuses(w, k) \/ Decodes(w, k) \/ Emits(w, k)
  BY <1>1, HandlerSteps
<1> DEFINE a == hnd[w][k].art
           s == srvOf(w)
<1>3. hnd[w][k].pc # "free"
  BY <1>2 DEF Goes, GivesBack, Refuses, Decodes, Emits, Asking
<1>4. a \in Article /\ a # 0 /\ hnd[w][k].kind \in Kind /\ s \in Server
  BY <1>1, <1>3, BusyHasArticle, Servers
<1>5. hnd'[w][k].pc = "free" <=> hnd'[w][k].art = 0
  BY <1>2, <1>4 DEF Goes, GivesBack, Refuses, Decodes, Emits, Frees, Asking
<1>6. SlotsOK'
  BY <1>1, <1>2, <1>3, <1>5, HandlerSlots
<1> HIDE DEF a, s
<1>7. bits' = bits \/ bits' = markEmitted(bits, a) \/ bits' = clearEmitted(bits, a)
  BY <1>2 DEF Goes, GivesBack, Refuses, Decodes, Emits, a
<1>8. BitsOK' /\ DoneIsNotEmitted'
  BY <1>1, <1>4, <1>7, BitDoors DEF BitsOK, DoneIsNotEmitted
<1>9. tried' \in [Article -> SUBSET Server]
  <2>1. tried \in [Article -> SUBSET Server]
    BY Parts DEF FetchBase, FetchParts
  <2>2. tried' = tried \/ tried' = [tried EXCEPT ![a] = @ \ {s}] \/ tried' = [tried EXCEPT ![a] = {}]
    BY <1>2 DEF Goes, GivesBack, Refuses, Decodes, Emits, a, s
  <2> QED  BY <1>4, <2>1, <2>2
<1>10. answered' \in [Article -> SUBSET Server]
  <2>1. answered \in [Article -> SUBSET Server]
    BY Parts DEF FetchBase, FetchParts
  <2>2. answered' = answered \/ answered' = [answered EXCEPT ![a] = @ \cup {s}] \/ answered' = [answered EXCEPT ![a] = {}]
    BY <1>2 DEF Goes, GivesBack, Refuses, Decodes, Emits, a, s
  <2> QED  BY <1>4, <2>1, <2>2
<1>11. inFlight' \in [Article -> Nat]
  <2>1. inFlight \in [Article -> Nat]
    BY Parts DEF FetchBase, FetchParts
  <2>2. inFlight' = inFlight \/ inFlight' = cleared(a)
    BY <1>2 DEF Goes, GivesBack, Refuses, Decodes, Emits, Frees, a
  <2> QED  BY <1>4, <2>1, <2>2, ClearedCount
<1>12. results' \in Seq(Completion)
  <2>1. results \in Seq(Completion)
    BY Parts DEF FetchBase, FetchParts
  <2>2. results' = results \/ results' = Append(results, [art |-> a, kind |-> hnd[w][k].kind])
    BY <1>2 DEF Goes, GivesBack, Refuses, Decodes, Emits, a
  <2>3. [art |-> a, kind |-> hnd[w][k].kind] \in Completion
    BY <1>4 DEF Completion
  <2> QED  BY <2>1, <2>2, <2>3, AppendOf
<1>13. PlanOK'
  BY <1>2 DEF PlanOK, FetchBase
<1>14. FetchTypeOK'
  <2>1. scn' \in Scenario /\ held' \subseteq Article /\ disp' \in Plan /\ opts' \in Options /\ phase' \in {"run", "stop"}
        /\ pause' \in [queue : BOOLEAN, flag : BOOLEAN, live : BOOLEAN, low : BOOLEAN]
        /\ job' \in {"young", "run", "paused", "cancelled", "left", "gone"}
        /\ work' \in [Server -> Seq(Article)] /\ loop' \in [Worker -> LoopState]
    BY <1>2, Parts DEF FetchBase, FetchParts
  <2> QED  BY <1>2, <1>8, <1>9, <1>10, <1>11, <1>12, <2>1, PartsNext DEF FetchParts
<1> QED  BY <1>6, <1>8, <1>13, <1>14 DEF FetchBase

LEMMA TakeBase ==
  ASSUME FetchBase, UNCHANGED scn, NEW w \in Worker, Take(w)
  PROVE  FetchBase'
<1>0. FetchParts /\ SlotsOK /\ FetchTypeOK
  BY Parts DEF FetchBase
<1>1. PICK k \in Slot(w) : Takes(w, k)
  BY <1>0, TakeSteps
<1> DEFINE s == srvOf(w)
<1>2. s \in Server /\ work[s] \in Seq(Article) /\ Head(work[s]) \in Article /\ Tail(work[s]) \in Seq(Article)
  <2>1. s \in Server /\ work[s] # <<>>
    BY <1>1, Servers DEF Takes
  <2>2. work[s] \in Seq(Article)
    BY <1>0, <2>1 DEF FetchParts
  <2> QED  BY <2>1, <2>2, TailOf
<1>3. work' \in [Server -> Seq(Article)]
  <2>1. work' = [work EXCEPT ![s] = Tail(work[s])]
    BY <1>0, <1>1, <1>2 DEF Takes, FetchParts
  <2> HIDE DEF s
  <2> QED  BY <1>0, <1>2, <2>1 DEF FetchParts
<1>4. SlotsOK'
  <2>1. \A x \in Worker : \A m \in Slot(x) : hnd'[x][m].pc = "free" <=> hnd'[x][m].art = 0
    <3>1. hnd'[w][k].pc # "free" /\ hnd'[w][k].art # 0
      BY <1>1, <1>2, Servers DEF Takes
    <3>2. \A x \in Worker : \A m \in Slot(x) : ~(x = w /\ m = k) =>
            hnd'[x][m].pc = hnd[x][m].pc /\ hnd'[x][m].art = hnd[x][m].art
      BY <1>1 DEF Takes, Others, Alike
    <3> QED  BY <1>0, <3>1, <3>2 DEF SlotsOK
  <2>2. \A x \in Worker \ {w} : \A m \in Slot(x) : hnd'[x][m].pc = hnd[x][m].pc
    BY <1>1 DEF Takes, Others, Alike
  <2>3. loop'[w].mode = "acquire" /\ \A x \in Worker \ {w} : loop'[x].mode = loop[x].mode
    BY <1>1 DEF Takes
  <2> QED  BY <1>0, <2>1, <2>2, <2>3 DEF SlotsOK
<1>5. PlanOK' /\ DoneIsNotEmitted' /\ BitsOK'
  BY <1>0, <1>1 DEF Takes, PlanOK, DoneIsNotEmitted, FetchBase, FetchParts, BitsOK
<1>6. FetchTypeOK'
  BY <1>0, <1>1, <1>3, <1>5, PartsNext DEF FetchParts, Takes
<1> QED  BY <1>4, <1>5, <1>6 DEF FetchBase

LEMMA WalkBase ==
  ASSUME FetchBase, UNCHANGED scn, BuildPlan
  PROVE  FetchBase'
<1>0. FetchParts /\ SlotsOK /\ PlanOK
  BY Parts DEF FetchBase
<1>1. PICK a \in Article : Walks(a)
  BY <1>0, WalkPlan DEF FetchParts
<1> DEFINE v == tryDispatch(a)
<1>2. work' \in [Server -> Seq(Article)] /\ tried' \in [Article -> SUBSET Server] /\ inFlight' \in [Article -> Nat]
  <2> HIDE DEF v
  <2>1. CASE v \in Server
    <3>1. work' = [work EXCEPT ![v] = Append(work[v], a)] /\ tried' = [tried EXCEPT ![a] = @ \cup {v}]
          /\ inFlight' = [inFlight EXCEPT ![a] = @ + 1]
      BY <1>0, <1>1, <2>1 DEF Walks, v, FetchParts
    <3>2. Append(work[v], a) \in Seq(Article)
      BY <1>0, <2>1, AppendOf DEF FetchParts
    <3> QED  BY <1>0, <2>1, <3>1, <3>2 DEF FetchParts
  <2>2. CASE v \notin Server
    BY <1>0, <1>1, <2>2 DEF Walks, v, FetchParts
  <2> QED  BY <2>1, <2>2
<1>3. HandlersOK' /\ SlotsOK' /\ DoneIsNotEmitted' /\ BitsOK'
  <2>1. UNCHANGED <<hnd, loop, bits>>
    BY <1>1 DEF Walks
  <2> QED  BY <1>0, <2>1 DEF FetchParts, FetchBase, HandlersOK, SlotsOK, DoneIsNotEmitted, BitsOK
<1>4. FetchTypeOK' /\ PlanOK'
  <2>1. UNCHANGED <<job, loop, results, held, opts, pause, phase, answered>> /\ disp' \in Plan /\ PlanOK'
    BY <1>1 DEF Walks
  <2> QED  BY <1>0, <1>2, <1>3, <2>1, PartsNext DEF FetchParts
<1> QED  BY <1>3, <1>4 DEF FetchBase

LEMMA GiveUpBase ==
  ASSUME FetchBase, UNCHANGED scn, GiveUp
  PROVE  FetchBase'
<1> USE DEF prog, net, ctl
<1>0. FetchParts /\ SlotsOK /\ PlanOK /\ DoneIsNotEmitted /\ BitsOK
  BY Parts DEF FetchBase, FetchParts
<1> DEFINE a == Head(disp.ex)
<1>1. disp' \in Plan /\ PlanOK' /\ a \in Article
  BY <1>0, GiveUpPlan DEF FetchParts
<1> HIDE DEF a
<1>2. /\ bits' = bits \/ bits' = markEmitted(bits, a)
      /\ tried' = [tried EXCEPT ![a] = {}] /\ answered' = [answered EXCEPT ![a] = {}]
      /\ UNCHANGED <<job, inFlight, work, loop, hnd, results, held, opts, pause, phase>>
  BY DEF GiveUp, a
<1>3. BitsOK' /\ DoneIsNotEmitted'
  BY <1>0, <1>1, <1>2, BitDoors DEF BitsOK, DoneIsNotEmitted
<1>4. tried' \in [Article -> SUBSET Server] /\ answered' \in [Article -> SUBSET Server]
  BY <1>0, <1>1, <1>2 DEF FetchParts
<1>5. HandlersOK' /\ SlotsOK'
  BY <1>0, <1>2 DEF FetchParts, HandlersOK, SlotsOK
<1>6. FetchTypeOK'
  BY <1>0, <1>1, <1>2, <1>3, <1>4, <1>5, PartsNext DEF FetchParts
<1> QED  BY <1>1, <1>3, <1>5, <1>6 DEF FetchBase

\* No request is queued, taken up, answered or forgotten.
Quiet == AllAlike /\ UNCHANGED <<work, tried, inFlight, answered>>

LEMMA QuietBase ==
  ASSUME FetchBase, UNCHANGED scn, Quiet, SlotsOK', PlanOK', BitsOK', DoneIsNotEmitted',
         loop' \in [Worker -> LoopState], disp' \in Plan, results' \in Seq(Completion), held' \subseteq Article,
         job' \in {"young", "run", "paused", "cancelled", "left", "gone"}, opts' \in Options,
         pause' \in [queue : BOOLEAN, flag : BOOLEAN, live : BOOLEAN, low : BOOLEAN],
         phase' \in {"run", "stop"}
  PROVE  FetchBase'
<1>1. FetchParts
  BY Parts DEF FetchBase
<1>2. FetchParts'
  BY <1>1 DEF FetchParts, Quiet, AllAlike
<1> QED  BY <1>2, PartsNext DEF FetchBase

LEMMA PassBase ==
  ASSUME FetchBase, UNCHANGED scn, StartPass \/ WalkCut \/ EndPass \/ DispatcherExits
  PROVE  FetchBase' /\ Quiet /\ PlanKept /\ UNCHANGED <<bits, results, held>> /\ (job' = job \/ (job = "run" /\ job' = "left"))
<1> USE DEF prog, track, net, ctl
<1>0. FetchParts /\ SlotsOK /\ PlanOK /\ DoneIsNotEmitted
  BY Parts DEF FetchBase
<1>1. /\ UNCHANGED <<bits, tried, inFlight, work, hnd, results, held, opts, pause, phase, answered>>
      /\ job' = job \/ (job = "run" /\ job' = "left")
      /\ loop' = loop \/ loop' = signalled(loop)
  BY DEF StartPass, WalkCut, EndPass, DispatcherExits
<1>2. PlanKept
  BY <1>0, StartPassPlan, OtherPlans DEF FetchParts
<1>3. Quiet
  BY <1>0, <1>1, SameHandlers DEF Quiet, FetchParts
<1>4. SameModes /\ SlotsOK'
  BY <1>0, <1>1, <1>3, Signalled, SameSlots DEF FetchParts, Quiet
<1>5. PlanOK' /\ disp' \in Plan
  BY <1>0, <1>2, KeptPlanOK DEF FetchParts, PlanKept
<1>6. BitsOK' /\ DoneIsNotEmitted'
  BY <1>0, <1>1 DEF BitsOK, DoneIsNotEmitted, FetchParts
<1>7. FetchBase'
  BY <1>0, <1>1, <1>3, <1>4, <1>5, <1>6, QuietBase DEF FetchParts, SameModes
<1> QED  BY <1>1, <1>2, <1>3, <1>7

LEMMA EmitGivenUpBase ==
  ASSUME FetchBase, UNCHANGED scn, EmitGivenUp
  PROVE  FetchBase' /\ Quiet /\ UNCHANGED <<job, held>>
<1> USE DEF prog, track, net, ctl
<1>0. FetchParts /\ SlotsOK /\ PlanOK /\ DoneIsNotEmitted
  BY Parts DEF FetchBase
<1> DEFINE a == Head(disp.ex)
           r == [art |-> a, kind |-> "exhausted"]
<1>1. disp' \in Plan /\ PlanOK' /\ a \in Article
  BY <1>0, EmitGivenUpPlan DEF FetchParts
<1> HIDE DEF a
<1>2. /\ UNCHANGED <<job, tried, inFlight, work, loop, hnd, held, opts, pause, phase, answered>>
      /\ results' = results \/ results' = Append(results, r)
      /\ bits' = bits \/ bits' = clearEmitted(bits, a)
  BY DEF EmitGivenUp, a
<1>3. r \in Completion
  BY <1>1 DEF Completion, Kind
<1> HIDE DEF r
<1>4. results' \in Seq(Completion)
  <2>1. results \in Seq(Completion)
    BY <1>0 DEF FetchParts
  <2> QED  BY <1>2, <1>3, <2>1, AppendOf
<1>5. BitsOK' /\ DoneIsNotEmitted'
  BY <1>0, <1>1, <1>2, BitDoors DEF BitsOK, DoneIsNotEmitted, FetchParts
<1>6. Quiet /\ SlotsOK'
  BY <1>0, <1>2, SameHandlers DEF Quiet, FetchParts, SlotsOK
<1>7. FetchBase'
  BY <1>0, <1>1, <1>2, <1>4, <1>5, <1>6, QuietBase DEF FetchParts
<1> QED  BY <1>2, <1>6, <1>7

LEMMA LoopBase ==
  ASSUME FetchBase, UNCHANGED scn, NEW w \in Worker, Arm(w) \/ Disconnect(w) \/ Drained(w) \/ WorkerStops(w)
  PROVE  FetchBase' /\ Quiet /\ UNCHANGED <<bits, job, results, held, disp>>
<1>0. FetchParts /\ SlotsOK /\ PlanOK /\ DoneIsNotEmitted /\ FetchTypeOK
  BY Parts DEF FetchBase
<1>1. /\ loop' \in [Worker -> LoopState] /\ SlotsOK' /\ AllAlike
      /\ UNCHANGED <<bits, job, tried, inFlight, work, results, held, disp, opts, pause, phase, answered>>
  BY <1>0, LoopSteps
<1>2. PlanOK' /\ BitsOK' /\ DoneIsNotEmitted'
  BY <1>0, <1>1 DEF PlanOK, BitsOK, DoneIsNotEmitted, FetchParts
<1>3. Quiet
  BY <1>1 DEF Quiet
<1> QED  BY <1>0, <1>1, <1>2, <1>3, QuietBase DEF FetchParts

LEMMA PipeBase ==
  ASSUME FetchBase, UNCHANGED scn, Piping \/ \E a \in Article : AckDurable(a)
  PROVE  FetchBase' /\ Quiet /\ UNCHANGED disp /\ (job' = job \/ (job = "run" /\ job' = "left"))
<1> USE DEF prog, track, net, ctl
<1>0. FetchParts /\ SlotsOK /\ PlanOK /\ DoneIsNotEmitted
  BY Parts DEF FetchBase
<1>1. /\ UNCHANGED <<tried, inFlight, work, loop, hnd, disp, opts, pause, phase, answered>>
      /\ job' = job \/ (job = "run" /\ job' = "left")
  BY DEF Piping, HandleRetry, HandleFatal, HandleGood, AckDurable
<1>2. /\ results' \in Seq(Completion)
      /\ \E a \in Article :
            /\ bits' = bits \/ bits' = clearEmitted(bits, a) \/ bits' = markFailed(bits, a) \/ bits' = markDone(bits, a)
            /\ held' = held \/ held' = held \cup {a} \/ held' = held \ {a}
  <2>1. CASE Piping
    <3>1. results \in Seq(Completion) /\ results # <<>> /\ results' = Tail(results)
      BY <1>0, <2>1 DEF FetchParts, Piping, HandleRetry, HandleFatal, HandleGood
    <3>2. Tail(results) \in Seq(Completion) /\ Head(results) \in Completion
      BY <3>1, TailOf
    <3>3. Head(results).art \in Article
      BY <3>2 DEF Completion
    <3>4. /\ \/ bits' = bits \/ bits' = clearEmitted(bits, Head(results).art)
             \/ bits' = markFailed(bits, Head(results).art)
          /\ held' = held \/ held' = held \cup {Head(results).art}
      BY <2>1 DEF Piping, HandleRetry, HandleFatal, HandleGood
    <3> QED  BY <3>1, <3>2, <3>3, <3>4
  <2>2. CASE \E a \in Article : AckDurable(a)
    <3>1. PICK a \in Article : AckDurable(a)
      BY <2>2
    <3>2. results' = results /\ (bits' = bits \/ bits' = markDone(bits, a)) /\ held' = held \ {a}
      BY <3>1 DEF AckDurable
    <3> QED  BY <1>0, <3>2 DEF FetchParts
  <2> QED  BY <2>1, <2>2
<1>3. BitsOK' /\ DoneIsNotEmitted' /\ held' \subseteq Article
  <2>1. PICK a \in Article :
            /\ bits' = bits \/ bits' = clearEmitted(bits, a) \/ bits' = markFailed(bits, a) \/ bits' = markDone(bits, a)
            /\ held' = held \/ held' = held \cup {a} \/ held' = held \ {a}
    BY <1>2
  <2>2. held' \subseteq Article
    BY <1>0, <2>1 DEF FetchParts
  <2>3. BitsOK
    BY <1>0 DEF FetchParts
  <2> QED  BY <1>0, <2>1, <2>2, <2>3, BitDoors DEF BitsOK, DoneIsNotEmitted
<1>4. Quiet /\ SlotsOK'
  BY <1>0, <1>1, SameHandlers DEF Quiet, FetchParts, SlotsOK
<1>5. PlanOK'
  BY <1>0, <1>1 DEF PlanOK
<1>6. FetchBase'
  <2>1. job' \in {"young", "run", "paused", "cancelled", "left", "gone"}
    BY <1>0, <1>1 DEF FetchParts
  <2>2. /\ loop' \in [Worker -> LoopState] /\ disp' \in Plan /\ opts' \in Options
        /\ pause' \in [queue : BOOLEAN, flag : BOOLEAN, live : BOOLEAN, low : BOOLEAN]
        /\ phase' \in {"run", "stop"}
    BY <1>0, <1>1 DEF FetchParts
  <2> QED  BY <1>2, <1>3, <1>4, <1>5, <2>1, <2>2, QuietBase
<1> QED  BY <1>1, <1>4, <1>6

\* The calls and the passing of time that leave every request alone.
Outside ==
    \/ Pause \/ Resume \/ LowDisk \/ SetDispatchOptions \/ PauseJob \/ RemoveJob \/ Stop \/ LowDiskCut \/ Aged
    \/ \E s \in Server : UnblockServer(s) \/ PenaltyExpires(s)

LEMMA OutsideBase ==
  ASSUME FetchBase, UNCHANGED scn, Outside \/ UNCHANGED moving
  PROVE  /\ FetchBase' /\ Quiet /\ UNCHANGED <<bits, results, held, disp>>
         /\ job' \in Tracked => job \in Tracked
         /\ job' # "gone" => job # "gone"
<1> USE DEF prog, track, net, ctl, moving
<1>0. FetchParts /\ SlotsOK /\ PlanOK /\ DoneIsNotEmitted
  BY Parts DEF FetchBase
<1>1. /\ UNCHANGED <<bits, tried, inFlight, work, results, held, disp, answered>>
      /\ hnd' = hnd \/ hnd' = cutAll
      /\ loop' = loop \/ loop' = signalled(loop)
  BY DEF Outside, Pause, Resume, LowDisk, SetDispatchOptions, PauseJob, RemoveJob, Stop, LowDiskCut, Aged,
         UnblockServer, PenaltyExpires, cutOff
<1>2. /\ job' \in {"young", "run", "paused", "cancelled", "left", "gone"}
      /\ job' \in Tracked => job \in Tracked
      /\ job' # "gone" => job # "gone"
  <2>1. job \in {"young", "run", "paused", "cancelled", "left", "gone"}
    BY <1>0 DEF FetchParts
  <2>2. (job' = job) \/ (job \in Tracked /\ job' \in {"run", "paused"}) \/ (job' = "gone")
    BY DEF Outside, Pause, Resume, LowDisk, SetDispatchOptions, PauseJob, RemoveJob, Stop, LowDiskCut, Aged,
           UnblockServer, PenaltyExpires, Tracked
  <2> QED  BY <2>1, <2>2 DEF Tracked
<1>3. opts' \in Options /\ phase' \in {"run", "stop"}
  BY <1>0 DEF FetchParts, Outside, Pause, Resume, LowDisk, SetDispatchOptions, PauseJob, RemoveJob, Stop,
              LowDiskCut, Aged, UnblockServer, PenaltyExpires
<1>4. pause' \in [queue : BOOLEAN, flag : BOOLEAN, live : BOOLEAN, low : BOOLEAN]
  <2> DEFINE T == [queue : BOOLEAN, flag : BOOLEAN, live : BOOLEAN, low : BOOLEAN]
  <2>1. pause \in T
    BY <1>0 DEF FetchParts
  <2>3. CASE Pause
    BY <2>1, <2>3 DEF Pause
  <2>4. CASE Resume
    BY <2>1, <2>4 DEF Resume
  <2>5. CASE LowDisk
    BY <2>1, <2>5 DEF LowDisk
  <2>6. CASE LowDiskCut
    BY <2>1, <2>6 DEF LowDiskCut
  <2>7. CASE pause' = pause
    BY <2>1, <2>7
  <2> QED
    BY <2>3, <2>4, <2>5, <2>6, <2>7 DEF Outside, SetDispatchOptions, PauseJob, RemoveJob, Stop, Aged,
                                        UnblockServer, PenaltyExpires
<1>5. AllAlike
  BY <1>0, <1>1, SameHandlers, CutAll DEF FetchParts, AllAlike
<1>6. SameModes
  BY <1>0, <1>1, Signalled DEF FetchParts
<1>7. Quiet /\ SlotsOK' /\ loop' \in [Worker -> LoopState]
  BY <1>0, <1>1, <1>5, <1>6, SameSlots DEF Quiet, SameModes
<1>8. PlanOK' /\ BitsOK' /\ DoneIsNotEmitted' /\ disp' \in Plan /\ results' \in Seq(Completion) /\ held' \subseteq Article
  BY <1>0, <1>1 DEF PlanOK, BitsOK, DoneIsNotEmitted, FetchParts
<1>9. FetchBase'
  BY <1>2, <1>3, <1>4, <1>7, <1>8, QuietBase
<1> QED  BY <1>1, <1>2, <1>7, <1>9

LEMMA CancelBase ==
  ASSUME FetchBase, UNCHANGED scn, CancelJob
  PROVE  FetchBase' /\ job' = "cancelled" /\ AllAlike /\ UNCHANGED <<bits, work, results, held, disp>>
<1> USE DEF net, ctl
<1>0. FetchParts /\ SlotsOK /\ PlanOK /\ DoneIsNotEmitted
  BY Parts DEF FetchBase
<1>1. /\ UNCHANGED <<bits, work, loop, hnd, results, held, disp, opts, pause, phase>>
      /\ job' = "cancelled"
      /\ tried' = [a \in Article |-> {}] /\ inFlight' = [a \in Article |-> 0] /\ answered' = [a \in Article |-> {}]
  BY DEF CancelJob
<1>2. tried' \in [Article -> SUBSET Server] /\ answered' \in [Article -> SUBSET Server] /\ inFlight' \in [Article -> Nat]
  BY <1>1
<1>3. AllAlike
  BY <1>0, <1>1, SameHandlers DEF FetchParts
<1>4. SlotsOK' /\ PlanOK' /\ BitsOK' /\ DoneIsNotEmitted'
  BY <1>0, <1>1 DEF SlotsOK, PlanOK, BitsOK, DoneIsNotEmitted, FetchParts
<1>5. FetchParts'
  BY <1>0, <1>1, <1>2, <1>3, <1>4 DEF FetchParts, AllAlike
<1> QED  BY <1>1, <1>3, <1>4, <1>5, PartsNext DEF FetchBase

(* A reload keeps an emitted bit only where the assembler keeps the article. *)
LEMMA ReloadBits ==
  ASSUME BitsOK, DoneIsNotEmitted, held \subseteq Article, Reload
  PROVE  /\ BitsOK' /\ DoneIsNotEmitted' /\ held' \subseteq Article
         /\ exists => \A a \in Article : bits'[a].emitted => bits[a].emitted /\ held' = held
<1>1. PICK protected \in BOOLEAN, complete \in BOOLEAN :
        LET acked == [a \in Article |-> IF protected /\ a \in held /\ exists
                                        THEN markDone(bits, a)[a] ELSE bits[a]]
            reset(b) == IF b.failed /\ ~complete THEN [done |-> FALSE, failed |-> FALSE, emitted |-> FALSE]
                        ELSE [b EXCEPT !.emitted = @ /\ ~protected]
        IN  /\ bits' = IF exists THEN [a \in Article |-> reset(acked[a])] ELSE bits
            /\ held' = IF protected THEN {} ELSE held
  BY ZenonT(40) DEF Reload
<1> DEFINE acked == [a \in Article |-> IF protected /\ a \in held /\ exists THEN markDone(bits, a)[a] ELSE bits[a]]
           reset(b) == IF b.failed /\ ~complete THEN [done |-> FALSE, failed |-> FALSE, emitted |-> FALSE]
                       ELSE [b EXCEPT !.emitted = @ /\ ~protected]
<1>2. held' \subseteq Article
  BY <1>1
<1>3. CASE ~exists
  BY <1>1, <1>2, <1>3 DEF BitsOK, DoneIsNotEmitted
<1>4. CASE exists
  <2>1. \A a \in Article : acked[a] \in BitState /\ (acked[a].done => ~acked[a].emitted)
        /\ (~protected => acked[a] = bits[a])
    <3> SUFFICES ASSUME NEW a \in Article
                 PROVE  acked[a] \in BitState /\ (acked[a].done => ~acked[a].emitted) /\ (~protected => acked[a] = bits[a])
      OBVIOUS
    <3>1. bits[a] \in BitState /\ (bits[a].done => ~bits[a].emitted)
      BY DEF BitsOK, BitState, DoneIsNotEmitted
    <3>2. markDone(bits, a)[a] \in BitState /\ (markDone(bits, a)[a].done => ~markDone(bits, a)[a].emitted)
      BY BitDoors DEF BitState
    <3>3. acked[a] = IF protected /\ a \in held /\ exists THEN markDone(bits, a)[a] ELSE bits[a]
      OBVIOUS
    <3> HIDE DEF acked
    <3> QED  BY <3>1, <3>2, <3>3
  <2>2. ASSUME NEW b \in BitState, b.done => ~b.emitted
        PROVE  reset(b) \in BitState /\ (reset(b).done => ~reset(b).emitted) /\ (reset(b).emitted => ~protected /\ b.emitted)
    <3>1. CASE b.failed /\ ~complete
      BY <3>1 DEF BitState
    <3>2. CASE ~(b.failed /\ ~complete)
      <4> DEFINE c == [b EXCEPT !.emitted = b.emitted /\ ~protected]
      <4>1. (b.emitted /\ ~protected) \in BOOLEAN
        OBVIOUS
      <4>2. ASSUME NEW y \in BOOLEAN
            PROVE  LET g == [b EXCEPT !.emitted = y] IN g \in BitState /\ g.done = b.done /\ g.emitted = y
        BY DEF BitState
      <4>3. c \in BitState /\ c.done = b.done /\ c.emitted = (b.emitted /\ ~protected)
        BY <4>1, <4>2
      <4>4. reset(b) = c
        BY <3>2
      <4> HIDE DEF c, reset
      <4> QED  BY <2>2, <4>3, <4>4
    <3> QED  BY <3>1, <3>2
  <2>3. bits' = [a \in Article |-> reset(acked[a])]
    BY <1>1, <1>4
  <2> HIDE DEF acked, reset
  <2>4. \A a \in Article : bits'[a] = reset(acked[a])
    BY <2>3
  <2>5. \A a \in Article : bits'[a] \in BitState /\ (bits'[a].done => ~bits'[a].emitted)
                           /\ (bits'[a].emitted => ~protected /\ acked[a].emitted)
    BY <2>1, <2>2, <2>4
  <2>6. BitsOK' /\ DoneIsNotEmitted'
    BY <2>3, <2>5 DEF BitsOK, DoneIsNotEmitted, BitState
  <2>7. \A a \in Article : bits'[a].emitted => bits[a].emitted /\ held' = held
    BY <1>1, <2>1, <2>5
  <2> QED  BY <1>2, <2>6, <2>7
<1> QED  BY <1>3, <1>4

LEMMA ReloadBase ==
  ASSUME FetchBase, UNCHANGED scn, Reload
  PROVE  /\ FetchBase' /\ UNCHANGED <<job, hnd, results>> /\ results = <<>> /\ disp.pc = "exit"
         /\ \A w \in Worker : \A k \in Slot(w) : hnd[w][k].pc = "free" /\ hnd[w][k].art = 0
         /\ work' = [s \in Server |-> <<>>] /\ disp'.ex = <<>>
         /\ tried' = [a \in Article |-> {}] /\ inFlight' = [a \in Article |-> 0]
<1>0. FetchParts /\ SlotsOK /\ PlanOK /\ DoneIsNotEmitted
  BY Parts DEF FetchBase
<1>1. /\ UNCHANGED <<job, hnd, results, opts>> /\ results = <<>> /\ disp.pc = "exit" /\ phase' = "run"
      /\ work' = [s \in Server |-> <<>>] /\ disp' = Idle /\ loop' = loopsAtStart
      /\ tried' = [a \in Article |-> {}] /\ inFlight' = [a \in Article |-> 0] /\ answered' = [a \in Article |-> {}]
      /\ \A w \in Worker : loop[w].mode = "exit"
  BY DEF Reload
<1>2. \A w \in Worker : \A k \in Slot(w) : hnd[w][k].pc = "free" /\ hnd[w][k].art = 0
  BY <1>0, <1>1 DEF SlotsOK
<1>3. tried' \in [Article -> SUBSET Server] /\ answered' \in [Article -> SUBSET Server] /\ inFlight' \in [Article -> Nat]
      /\ work' \in [Server -> Seq(Article)]
  BY <1>1
<1>4. disp' \in Plan /\ disp'.ex = <<>> /\ disp'.pc = "idle"
  BY <1>0, <1>1, IdlePlan DEF FetchParts
<1>5. PlanOK'
  BY <1>4 DEF PlanOK
<1>6. loop' \in [Worker -> LoopState] /\ \A w \in Worker : loop'[w].mode \in {"acquire", "exit"}
  <2> DEFINE L(w) == [mode |-> IF srvOf(w) \in scn.on THEN "acquire" ELSE "exit", snap |-> "nil"]
  <2>1. \A w \in Worker : L(w) \in LoopState /\ L(w).mode \in {"acquire", "exit"}
    BY DEF LoopState
  <2>2. loop' = [w \in Worker |-> L(w)]
    BY <1>1 DEF loopsAtStart
  <2> HIDE DEF L
  <2> QED  BY <2>1, <2>2
<1>7. SlotsOK' /\ HandlersOK'
  <2>1. HandlersOK'
    BY <1>0, <1>1 DEF FetchParts, HandlersOK
  <2>2. SlotsOK'
    BY <1>1, <1>2, <1>6 DEF SlotsOK
  <2> QED  BY <2>1, <2>2
<1>8. BitsOK' /\ DoneIsNotEmitted' /\ held' \subseteq Article
  BY <1>0, ReloadBits DEF FetchParts
<1>9. pause' \in [queue : BOOLEAN, flag : BOOLEAN, live : BOOLEAN, low : BOOLEAN]
  BY <1>0 DEF FetchParts, Reload
<1>10. FetchParts'
  BY <1>0, <1>1, <1>3, <1>4, <1>6, <1>7, <1>8, <1>9 DEF FetchParts
<1> QED  BY <1>1, <1>2, <1>4, <1>5, <1>7, <1>8, <1>10, PartsNext DEF FetchBase
-----------------------------------------------------------------------------
(* Where a request is, and what the tracker knows of it. *)
LEMMA QuietPlaces ==
  ASSUME Quiet
  PROVE  /\ \A a : Asked(a)' <=> Asked(a)
         /\ OnePlace => OnePlace'
         /\ TriedAnswered => TriedAnswered'
<1>1. \A a : Asked(a)' <=> Asked(a)
  BY DEF Quiet, AllAlike, Alike, Asked
<1>2. ASSUME OnePlace PROVE OnePlace'
  <2>1. \A a \in Article : inFlight'[a] = IF Asked(a)' THEN 1 ELSE 0
    BY <1>1, <1>2 DEF OnePlace, Quiet
  <2>2. \A w, x \in Worker : \A k \in Slot(w), m \in Slot(x) :
          hnd'[w][k].art = hnd'[x][m].art /\ hnd'[w][k].art # 0 => w = x /\ k = m
    BY <1>2 DEF OnePlace, Quiet, AllAlike, Alike
  <2>3. \A s \in Server : \A i \in DOMAIN work'[s] : \A w \in Worker : \A k \in Slot(w) :
          work'[s][i] # hnd'[w][k].art
    BY <1>2 DEF OnePlace, Quiet, AllAlike, Alike
  <2>4. \A s, t \in Server : \A i \in DOMAIN work'[s], k \in DOMAIN work'[t] :
          work'[s][i] = work'[t][k] => s = t /\ i = k
    BY <1>2 DEF OnePlace, Quiet
  <2> QED  BY <2>1, <2>2, <2>3, <2>4 DEF OnePlace
<1>3. ASSUME TriedAnswered PROVE TriedAnswered'
  <2>1. \A a, s : AskedOf(a, s)' <=> AskedOf(a, s)
    BY DEF Quiet, AllAlike, Alike, AskedOf
  <2> QED  BY <1>3, <2>1 DEF TriedAnswered, Quiet
<1> QED  BY <1>1, <1>2, <1>3

\* The article of a handler that works is asked for, and its handler is its only place.
LEMMA HandlerPlaces ==
  ASSUME FetchBase, UNCHANGED scn, NEW w \in Worker, NEW k \in Slot(w), Handling(w, k)
  PROVE  /\ \A a \in Article : Asked(a)' => Asked(a)
         /\ Asked(hnd[w][k].art) /\ hnd[w][k].art \in Article
         /\ OnePlace => OnePlace'
<1>0. FetchParts /\ SlotsOK /\ BitsOK
  BY Parts DEF FetchBase, FetchParts
<1>1. /\ HandlersOK' /\ Others(w, k)
      /\ UNCHANGED <<job, work, loop, held, disp, opts, pause, phase>>
      /\ Goes(w, k) \/ GivesBack(w, k) \/ Refuses(w, k) \/ Decodes(w, k) \/ Emits(w, k)
  BY <1>0, HandlerSteps DEF FetchParts
<1> DEFINE b == hnd[w][k].art
<1>2. hnd[w][k].pc # "free"
  BY <1>1 DEF Goes, GivesBack, Refuses, Decodes, Emits, Asking
<1>3. b \in Article /\ b # 0
  BY <1>0, <1>2, BusyHasArticle, Servers DEF FetchParts
<1>4. Asked(b)
  BY DEF Asked
<1>5. (hnd'[w][k].art = b /\ inFlight' = inFlight) \/ (hnd'[w][k].art = 0 /\ inFlight' = cleared(b))
  BY <1>1 DEF Goes, GivesBack, Refuses, Decodes, Emits, Frees
<1>6. \A x \in Worker : \A m \in Slot(x) : ~(x = w /\ m = k) => hnd'[x][m].art = hnd[x][m].art
  BY <1>1 DEF Others, Alike
<1> HIDE DEF b
<1>7. CASE hnd'[w][k].art = b /\ inFlight' = inFlight
  <2>1. \A x \in Worker : \A m \in Slot(x) : hnd'[x][m].art = hnd[x][m].art
    BY <1>6, <1>7 DEF b
  <2>2. \A a : Asked(a)' <=> Asked(a)
    BY <1>1, <2>1 DEF Asked
  <2>3. ASSUME OnePlace PROVE OnePlace'
    BY <1>1, <1>7, <2>1, <2>2, <2>3 DEF OnePlace
  <2> QED  BY <1>3, <1>4, <2>2, <2>3 DEF b
<1>8. CASE hnd'[w][k].art = 0 /\ inFlight' = cleared(b)
  <2>1. \A a \in Article : Asked(a)' => Asked(a)
    BY <1>1, <1>6, <1>8, Servers DEF Asked
  <2>2. ASSUME OnePlace PROVE OnePlace'
    <3>1. \A a \in Article \ {b} : Asked(a) => Asked(a)'
      BY <1>1, <1>6, <1>8 DEF Asked, b
    <3>2. \A a \in Article : a = b => ~Asked(a)'
      <4> SUFFICES ASSUME NEW a \in Article, a = b PROVE ~Asked(a)'
        OBVIOUS
      <4>1. \A s \in Server : \A i \in DOMAIN work[s] : work[s][i] # a
        BY <2>2 DEF OnePlace, b
      <4>2. \A x \in Worker : \A m \in Slot(x) : hnd'[x][m].art # a
        BY <1>3, <1>6, <1>8, <2>2 DEF OnePlace, b
      <4> QED  BY <1>1, <4>1, <4>2 DEF Asked
    <3>3. inFlight[b] = 1
      BY <1>3, <1>4, <2>2 DEF OnePlace
    <3>4. inFlight \in [Article -> Nat]
      BY <1>0 DEF FetchParts
    <3>5. inFlight'[b] = 0 /\ \A a \in Article \ {b} : inFlight'[a] = inFlight[a]
      BY <1>3, <1>8, <3>3, <3>4, ClearedCount
    <3>6. \A a \in Article : inFlight'[a] = IF Asked(a)' THEN 1 ELSE 0
      BY <2>1, <2>2, <3>1, <3>2, <3>5 DEF OnePlace
    <3>7. \A v, x \in Worker : \A m \in Slot(v), n \in Slot(x) :
            hnd'[v][m].art = hnd'[x][n].art /\ hnd'[v][m].art # 0 => v = x /\ m = n
      BY <1>6, <1>8, <2>2 DEF OnePlace
    <3>8. \A s \in Server : \A i \in DOMAIN work[s] : work[s][i] \in Article
      BY <1>0 DEF FetchParts
    <3>9. \A s \in Server : \A i \in DOMAIN work[s] : \A x \in Worker : \A m \in Slot(x) :
            work[s][i] # hnd'[x][m].art
      BY <1>6, <1>8, <2>2, <3>8, Servers DEF OnePlace
    <3>10. \A s, t \in Server : \A i \in DOMAIN work[s], j \in DOMAIN work[t] :
            work[s][i] = work[t][j] => s = t /\ i = j
      BY <2>2 DEF OnePlace
    <3> QED  BY <1>1, <3>6, <3>7, <3>9, <3>10 DEF OnePlace
  <2> QED  BY <1>3, <1>4, <2>1, <2>2 DEF b
<1> QED  BY <1>5, <1>7, <1>8

LEMMA HandlerTries ==
  ASSUME FetchBase, UNCHANGED scn, TriedAnswered, NEW w \in Worker, NEW k \in Slot(w), Handling(w, k)
  PROVE  TriedAnswered'
<1>0. FetchParts /\ SlotsOK
  BY Parts DEF FetchBase, FetchParts
<1>1. /\ HandlersOK' /\ Others(w, k)
      /\ UNCHANGED <<job, work, loop, held, disp, opts, pause, phase>>
      /\ Goes(w, k) \/ GivesBack(w, k) \/ Refuses(w, k) \/ Decodes(w, k) \/ Emits(w, k)
  BY <1>0, HandlerSteps DEF FetchParts
<1> DEFINE b == hnd[w][k].art
           s == srvOf(w)
<1>2. b \in Article /\ tried \in [Article -> SUBSET Server] /\ answered \in [Article -> SUBSET Server]
  BY <1>0, HandlerPlaces DEF FetchParts
<1>3. \A x \in Worker : \A m \in Slot(x) : ~(x = w /\ m = k) =>
        hnd'[x][m].art = hnd[x][m].art /\ hnd'[x][m].pc = hnd[x][m].pc
  BY <1>1 DEF Others, Alike
<1>4. \A a \in Article : \A t \in Server : AskedOf(a, t) => AskedOf(a, t)' \/ (a = b /\ t = s /\ hnd[w][k].pc \in Asking)
  BY <1>1, <1>3 DEF AskedOf
<1>5. CASE Goes(w, k)
  <2>1. \A a \in Article : \A t \in Server : AskedOf(a, t) => AskedOf(a, t)'
    BY <1>1, <1>3, <1>5 DEF AskedOf, Goes
  <2>2. tried' = tried /\ answered' = answered
    BY <1>5 DEF Goes
  <2> QED  BY <1>2, <2>1, <2>2 DEF TriedAnswered
<1> HIDE DEF b, s
<1>6. CASE GivesBack(w, k)
  <2>1. tried' = [tried EXCEPT ![b] = @ \ {s}] /\ answered' = answered
    BY <1>6 DEF GivesBack, b, s
  <2> QED  BY <1>2, <1>4, <2>1 DEF TriedAnswered
<1>7. CASE Refuses(w, k)
  <2>1. answered' = [answered EXCEPT ![b] = @ \cup {s}] /\ tried' = tried
    BY <1>7 DEF Refuses, b, s
  <2> QED  BY <1>2, <1>4, <2>1 DEF TriedAnswered
<1>8. CASE Decodes(w, k)
  <2>1. tried' = [tried EXCEPT ![b] = {}] /\ answered' = [answered EXCEPT ![b] = {}]
    BY <1>8 DEF Decodes, b
  <2> QED  BY <1>2, <1>4, <2>1 DEF TriedAnswered
<1>9. CASE Emits(w, k)
  <2>1. tried' = tried /\ answered' = answered /\ hnd[w][k].pc \notin Asking
    BY <1>9 DEF Emits, Asking
  <2> QED  BY <1>2, <1>4, <2>1 DEF TriedAnswered
<1> QED  BY <1>1, <1>5, <1>6, <1>7, <1>8, <1>9

LEMMA TakePlaces ==
  ASSUME FetchBase, UNCHANGED scn, NEW w \in Worker, Take(w)
  PROVE  /\ \A a \in Article : Asked(a)' => Asked(a)
         /\ OnePlace => OnePlace'
         /\ TriedAnswered => TriedAnswered'
<1>0. FetchParts /\ SlotsOK /\ FetchTypeOK
  BY Parts DEF FetchBase
<1>1. PICK k \in Slot(w) : Takes(w, k)
  BY <1>0, TakeSteps
<1> DEFINE s == srvOf(w)
           b == Head(work[s])
<1>2. s \in Server /\ work[s] # <<>> /\ work \in [Server -> Seq(Article)] /\ work[s] \in Seq(Article)
  BY <1>0, <1>1, Servers DEF Takes, FetchParts
<1>3. b = work[s][1] /\ 1 \in DOMAIN work[s] /\ b \in Article /\ b # 0
  BY <1>2, TailOf, Servers
<1>4. work'[s] = Tail(work[s]) /\ \A t \in Server \ {s} : work'[t] = work[t]
  BY <1>1, <1>2 DEF Takes
<1>5. \A t \in Server : \A i \in DOMAIN work[t] : i \in Nat /\ work[t][i] \in Article
  BY <1>2
<1>6. \A i \in DOMAIN work'[s] : i \in Nat /\ i + 1 \in DOMAIN work[s] /\ work'[s][i] = work[s][i + 1]
  <2>1. Tail(work[s]) \in Seq(Article)
    BY <1>2, TailOf
  <2> QED  BY <1>2, <1>4, <2>1, TailOf
<1>7. \A i \in DOMAIN work[s] : i = 1 \/ (i - 1 \in DOMAIN work'[s] /\ work'[s][i - 1] = work[s][i])
  BY <1>2, <1>4, TailOf
<1>8. /\ hnd[w][k].art = 0 /\ hnd[w][k].pc = "free" /\ hnd'[w][k].pc = "start"
      /\ \A a : a = b => hnd'[w][k].art = a
      /\ \A x \in Worker : \A m \in Slot(x) : ~(x = w /\ m = k) =>
            hnd'[x][m].art = hnd[x][m].art /\ hnd'[x][m].pc = hnd[x][m].pc
  BY <1>0, <1>1 DEF Takes, Others, Alike, SlotsOK
<1>9. UNCHANGED <<tried, inFlight, answered>>
  BY <1>1 DEF Takes
<1> HIDE DEF s, b
<1>14. \A t \in Server : \A i \in DOMAIN work'[t] : \E j \in DOMAIN work[t] :
         i \in Nat /\ work'[t][i] = work[t][j] /\ (t = s => j = i + 1) /\ (t # s => j = i)
  <2> SUFFICES ASSUME NEW t \in Server, NEW i \in DOMAIN work'[t]
               PROVE  \E j \in DOMAIN work[t] :
                        i \in Nat /\ work'[t][i] = work[t][j] /\ (t = s => j = i + 1) /\ (t # s => j = i)
    OBVIOUS
  <2>1. CASE t = s
    BY <1>6, <2>1
  <2>2. CASE t # s
    <3>1. work'[t] = work[t] /\ i \in Nat
      BY <1>4, <1>5, <2>2
    <3> QED  BY <2>2, <3>1
  <2> QED  BY <2>1, <2>2
<1>15. \A t \in Server : \A j \in DOMAIN work[t] :
         (t = s /\ j = 1) \/ \E i \in DOMAIN work'[t] : work'[t][i] = work[t][j]
  <2> SUFFICES ASSUME NEW t \in Server, NEW j \in DOMAIN work[t], ~(t = s /\ j = 1)
               PROVE  \E i \in DOMAIN work'[t] : work'[t][i] = work[t][j]
    OBVIOUS
  <2>1. CASE t = s
    BY <1>7, <2>1
  <2>2. CASE t # s
    BY <1>4, <2>2
  <2> QED  BY <2>1, <2>2
<1>10. \A a \in Article : Asked(a)' => Asked(a)
  <2> SUFFICES ASSUME NEW a \in Article, Asked(a)' PROVE Asked(a)
    OBVIOUS
  <2>1. CASE \E t \in Server : \E i \in DOMAIN work'[t] : work'[t][i] = a
    BY <1>14, <2>1 DEF Asked
  <2>2. CASE \E x \in Worker : \E m \in Slot(x) : hnd'[x][m].art = a
    BY <1>2, <1>3, <1>8, <2>2 DEF Asked
  <2> QED  BY <2>1, <2>2 DEF Asked
<1>11. \A a \in Article : Asked(a) => Asked(a)'
  <2> SUFFICES ASSUME NEW a \in Article, Asked(a) PROVE Asked(a)'
    OBVIOUS
  <2>1. CASE a = b
    BY <1>8, <2>1 DEF Asked
  <2>2. CASE a # b /\ \E t \in Server : \E i \in DOMAIN work[t] : work[t][i] = a
    <3>1. PICK t \in Server : \E i \in DOMAIN work[t] : work[t][i] = a
      BY <2>2
    <3>2. \E j \in DOMAIN work'[t] : work'[t][j] = a
      BY <1>3, <1>15, <2>2, <3>1
    <3> QED  BY <3>2 DEF Asked
  <2>3. CASE \E x \in Worker : \E m \in Slot(x) : hnd[x][m].art = a
    <3>1. PICK x \in Worker : \E m \in Slot(x) : hnd[x][m].art = a
      BY <2>3
    <3>2. \E m \in Slot(x) : hnd'[x][m].art = a
      BY <1>8, <3>1, Servers
    <3> QED  BY <3>2 DEF Asked
  <2> QED  BY <2>1, <2>2, <2>3 DEF Asked
<1>12. ASSUME OnePlace PROVE OnePlace'
  <2>1. \A a \in Article : inFlight'[a] = IF Asked(a)' THEN 1 ELSE 0
    BY <1>9, <1>10, <1>11, <1>12 DEF OnePlace
  <2>2. \A t, u \in Server : \A i \in DOMAIN work'[t], j \in DOMAIN work'[u] :
          work'[t][i] = work'[u][j] => t = u /\ i = j
    <3> SUFFICES ASSUME NEW t \in Server, NEW u \in Server, NEW i \in DOMAIN work'[t], NEW j \in DOMAIN work'[u],
                        work'[t][i] = work'[u][j]
                 PROVE  t = u /\ i = j
      OBVIOUS
    <3>1. \A y, z \in Server : \A m \in DOMAIN work[y], n \in DOMAIN work[z] : work[y][m] = work[z][n] => y = z /\ m = n
      BY <1>12 DEF OnePlace
    <3>2. PICK m \in DOMAIN work[t] : i \in Nat /\ work'[t][i] = work[t][m] /\ (t = s => m = i + 1) /\ (t # s => m = i)
      BY <1>14
    <3>3. PICK n \in DOMAIN work[u] : j \in Nat /\ work'[u][j] = work[u][n] /\ (u = s => n = j + 1) /\ (u # s => n = j)
      BY <1>14
    <3>4. t = u /\ m = n
      <4>1. work[t][m] = work[u][n]
        BY <3>2, <3>3
      <4>2. m \in DOMAIN work[t] /\ n \in DOMAIN work[u]
        OBVIOUS
      <4> HIDE <3>2, <3>3
      <4> QED  BY Zenon, <3>1, <4>1, <4>2
    <3> QED  BY <3>2, <3>3, <3>4
  <2>3. \A x \in Worker : \A m \in Slot(x) : hnd[x][m].art # b
    BY <1>2, <1>3, <1>12 DEF OnePlace
  <2>4. \A v, x \in Worker : \A m \in Slot(v), n \in Slot(x) :
          hnd'[v][m].art = hnd'[x][n].art /\ hnd'[v][m].art # 0 => v = x /\ m = n
    <3> SUFFICES ASSUME NEW v \in Worker, NEW x \in Worker, NEW m \in Slot(v), NEW n \in Slot(x),
                        hnd'[v][m].art = hnd'[x][n].art, hnd'[v][m].art # 0
                 PROVE  v = x /\ m = n
      OBVIOUS
    <3>1. CASE (v = w /\ m = k) \/ (x = w /\ n = k)
      BY <1>8, <2>3, <3>1
    <3>2. CASE ~(v = w /\ m = k) /\ ~(x = w /\ n = k)
      BY <1>8, <1>12, <3>2 DEF OnePlace
    <3> QED  BY <3>1, <3>2
  <2>5. \A t \in Server : \A i \in DOMAIN work'[t] : \A x \in Worker : \A m \in Slot(x) :
          work'[t][i] # hnd'[x][m].art
    <3> SUFFICES ASSUME NEW t \in Server, NEW i \in DOMAIN work'[t], NEW x \in Worker, NEW m \in Slot(x)
                 PROVE  work'[t][i] # hnd'[x][m].art
      OBVIOUS
    <3>1. \E j \in DOMAIN work[t] : work'[t][i] = work[t][j] /\ ~(t = s /\ j = 1)
      <4>1. PICK j \in DOMAIN work[t] : i \in Nat /\ work'[t][i] = work[t][j] /\ (t = s => j = i + 1) /\ (t # s => j = i)
        BY <1>14
      <4>2. t = s => i \in DOMAIN work'[s]
        OBVIOUS
      <4>3. t = s => j # 1
        <5>1. Tail(work[s]) \in Seq(Article)
          BY <1>2, TailOf
        <5>2. t = s => i # 0
          BY <1>4, <4>2, <5>1
        <5> QED  BY <4>1, <5>2
      <4> QED  BY <4>1, <4>3
    <3>2. PICK j \in DOMAIN work[t] : work'[t][i] = work[t][j] /\ ~(t = s /\ j = 1)
      BY <3>1
    <3>3. work[t][j] # b
      BY <1>2, <1>3, <1>12, <3>2 DEF OnePlace
    <3>4. CASE x = w /\ m = k
      BY <1>8, <3>2, <3>3, <3>4
    <3>5. CASE ~(x = w /\ m = k)
      BY <1>8, <1>12, <3>2, <3>5 DEF OnePlace
    <3> QED  BY <3>4, <3>5
  <2> QED  BY <2>1, <2>2, <2>4, <2>5 DEF OnePlace
<1>13. ASSUME TriedAnswered PROVE TriedAnswered'
  <2>1. \A a \in Article : \A t \in Server : AskedOf(a, t) => AskedOf(a, t)'
    <3> SUFFICES ASSUME NEW a \in Article, NEW t \in Server, AskedOf(a, t) PROVE AskedOf(a, t)'
      OBVIOUS
    <3>1. CASE a = b /\ t = s
      <4>1. srvOf(w) = t /\ hnd'[w][k].art = a /\ hnd'[w][k].pc \in Asking
        BY <1>8, <3>1 DEF s, Asking
      <4> QED  BY <4>1 DEF AskedOf
    <3>2. CASE ~(a = b /\ t = s) /\ \E i \in DOMAIN work[t] : work[t][i] = a
      <4>1. PICK i \in DOMAIN work[t] : work[t][i] = a
        BY <3>2
      <4>2. \E j \in DOMAIN work'[t] : work'[t][j] = a
        BY <1>3, <1>15, <3>2, <4>1
      <4> QED  BY <4>2 DEF AskedOf
    <3>3. CASE \E x \in Worker : \E m \in Slot(x) : srvOf(x) = t /\ hnd[x][m].art = a /\ hnd[x][m].pc \in Asking
      BY <1>8, <3>3, Servers DEF AskedOf
    <3> QED  BY <3>1, <3>2, <3>3 DEF AskedOf
  <2>2. tried \in [Article -> SUBSET Server]
    BY <1>0 DEF FetchParts
  <2> QED  BY <1>9, <1>13, <2>1, <2>2 DEF TriedAnswered
<1> QED  BY <1>10, <1>12, <1>13

(* tryDispatch sends an article out only when nobody has it. *)
LEMMA TryDispatch ==
  ASSUME FetchParts, NEW a \in Article, tryDispatch(a) \in Server \/ tryDispatch(a) = giveUp
  PROVE  inFlight[a] = 0
<1>1. inFlight[a] \in Nat /\ later \notin Server /\ later # giveUp
  BY Servers DEF FetchParts, later, giveUp
<1>2. ~(inFlight[a] > 0)
  BY <1>1 DEF tryDispatch
<1> QED  BY <1>1, <1>2

LEMMA WalkPlaces ==
  ASSUME FetchBase, UNCHANGED scn, NEW b \in Article, Walks(b)
  PROVE  /\ OnePlace => \A a \in Article : Asked(a)' => Asked(a) \/ (a = b /\ tryDispatch(b) \in Server)
         /\ OnePlace => OnePlace'
         /\ TriedAnswered => TriedAnswered'
<1>0. FetchParts
  BY Parts DEF FetchBase
<1> DEFINE v == tryDispatch(b)
<1>1. CASE v \notin Server
  <2>1. UNCHANGED <<work, tried, inFlight, answered, hnd>>
    BY <1>1 DEF Walks
  <2>2. Quiet
    BY <1>0, <2>1, SameHandlers DEF Quiet, FetchParts
  <2> QED  BY <2>2, QuietPlaces
<1>2. CASE v \in Server
  <2>1. /\ work' = [work EXCEPT ![v] = Append(@, b)]
        /\ tried' = [tried EXCEPT ![b] = @ \cup {v}]
        /\ inFlight' = [inFlight EXCEPT ![b] = @ + 1]
        /\ UNCHANGED <<hnd, answered>>
    BY <1>2 DEF Walks
  <2>2. inFlight[b] = 0
    BY <1>0, <1>2, TryDispatch
  <2> HIDE DEF v
  <2>3. /\ work \in [Server -> Seq(Article)] /\ tried \in [Article -> SUBSET Server] /\ inFlight \in [Article -> Nat]
        /\ work[v] \in Seq(Article)
    BY <1>0, <1>2 DEF FetchParts
  <2> DEFINE n == Len(work[v]) + 1
  <2>4. /\ \A t \in Server \ {v} : work'[t] = work[t]
        /\ \A q : q = v => work'[q] = Append(work[v], b)
    BY <1>2, <2>1, <2>3
  <2>5. ASSUME NEW t \in Server, NEW i \in DOMAIN work'[t]
        PROVE  (t = v /\ i = n /\ work'[t][i] = b) \/ (i \in DOMAIN work[t] /\ work'[t][i] = work[t][i])
    <3>1. CASE t = v
      <4>1. work'[t] = Append(work[t], b) /\ work[t] \in Seq(Article) /\ n = Len(work[t]) + 1
        BY <2>3, <2>4, <3>1
      <4> HIDE DEF n
      <4> QED  BY <3>1, <4>1, AppendOf
    <3>2. CASE t # v
      BY <2>4, <3>2
    <3> QED  BY <3>1, <3>2
  <2>6. ASSUME NEW t \in Server, NEW i \in DOMAIN work[t]
        PROVE  i \in DOMAIN work'[t] /\ work'[t][i] = work[t][i]
    <3>1. CASE t = v
      BY SMTT(30), <2>3, <2>4, <3>1, AppendOf
    <3>2. CASE t # v
      BY <2>4, <3>2
    <3> QED  BY <3>1, <3>2
  <2>7. \A t \in Server : t = v => n \in DOMAIN work'[t] /\ work'[t][n] = b
    BY <2>3, <2>4, AppendOf
  <2> HIDE DEF n
  <2>8. \A a \in Article : Asked(a)' => Asked(a) \/ a = b
    BY <2>1, <2>5 DEF Asked
  <2>9. \A a \in Article : Asked(a) \/ a = b => Asked(a)'
    <3> SUFFICES ASSUME NEW a \in Article, Asked(a) \/ a = b PROVE Asked(a)'
      OBVIOUS
    <3>1. CASE a = b
      BY <1>2, <2>7, <3>1 DEF Asked
    <3>2. CASE \E t \in Server : \E i \in DOMAIN work[t] : work[t][i] = a
      <4>1. PICK t \in Server : \E i \in DOMAIN work[t] : work[t][i] = a
        BY <3>2
      <4>2. \E i \in DOMAIN work'[t] : work'[t][i] = a
        BY <2>6, <4>1
      <4> QED  BY <4>2 DEF Asked
    <3>3. CASE \E x \in Worker : \E m \in Slot(x) : hnd[x][m].art = a
      BY <2>1, <3>3 DEF Asked
    <3> QED  BY <3>1, <3>2, <3>3 DEF Asked
  <2>10. ASSUME OnePlace PROVE OnePlace'
    <3>1. ~Asked(b)
      BY <2>2, <2>10 DEF OnePlace
    <3>2. \A t \in Server : \A i \in DOMAIN work[t] : work[t][i] # b
      BY <3>1 DEF Asked
    <3>3. \A x \in Worker : \A m \in Slot(x) : hnd[x][m].art # b
      BY <3>1 DEF Asked
    <3>4. \A a \in Article : inFlight'[a] = IF Asked(a)' THEN 1 ELSE 0
      <4>1. inFlight'[b] = 1 /\ \A a \in Article \ {b} : inFlight'[a] = inFlight[a]
        BY <2>1, <2>2, <2>3
      <4> QED  BY <2>8, <2>9, <2>10, <4>1 DEF OnePlace
    <3>5. \A t, u \in Server : \A i \in DOMAIN work'[t], j \in DOMAIN work'[u] :
            work'[t][i] = work'[u][j] => t = u /\ i = j
      <4> SUFFICES ASSUME NEW t \in Server, NEW u \in Server, NEW i \in DOMAIN work'[t], NEW j \in DOMAIN work'[u],
                          work'[t][i] = work'[u][j]
                   PROVE  t = u /\ i = j
        OBVIOUS
      <4>1. (t = v /\ i = n /\ work'[t][i] = b) \/ (i \in DOMAIN work[t] /\ work'[t][i] = work[t][i])
        BY <2>5
      <4>2. (u = v /\ j = n /\ work'[u][j] = b) \/ (j \in DOMAIN work[u] /\ work'[u][j] = work[u][j])
        BY <2>5
      <4>3. CASE i \in DOMAIN work[t] /\ work'[t][i] = work[t][i] /\ j \in DOMAIN work[u] /\ work'[u][j] = work[u][j]
        <5>1. work[t][i] = work[u][j]
          BY <4>3
        <5>2. \A y, z \in Server : \A p \in DOMAIN work[y], q \in DOMAIN work[z] : work[y][p] = work[z][q] => y = z /\ p = q
          BY <2>10 DEF OnePlace
        <5>3. i \in DOMAIN work[t] /\ j \in DOMAIN work[u]
          BY <4>3
        <5> HIDE <4>3
        <5> QED  BY Zenon, <5>1, <5>2, <5>3
      <4> QED  BY <3>2, <4>1, <4>2, <4>3
    <3>6. \A t \in Server : \A i \in DOMAIN work'[t] : \A x \in Worker : \A m \in Slot(x) :
            work'[t][i] # hnd'[x][m].art
      BY <2>1, <2>5, <2>10, <3>3 DEF OnePlace
    <3>7. \A w, x \in Worker : \A k \in Slot(w), m \in Slot(x) :
            hnd'[w][k].art = hnd'[x][m].art /\ hnd'[w][k].art # 0 => w = x /\ k = m
      BY <2>1, <2>10 DEF OnePlace
    <3> QED  BY <3>4, <3>5, <3>6, <3>7 DEF OnePlace
  <2>11. ASSUME TriedAnswered PROVE TriedAnswered'
    <3>1. \A a \in Article : \A t \in Server : AskedOf(a, t) => AskedOf(a, t)'
      <4> SUFFICES ASSUME NEW a \in Article, NEW t \in Server, AskedOf(a, t) PROVE AskedOf(a, t)'
        OBVIOUS
      <4>1. CASE \E i \in DOMAIN work[t] : work[t][i] = a
        <5>1. \E i \in DOMAIN work'[t] : work'[t][i] = a
          BY <2>6, <4>1
        <5> QED  BY <5>1 DEF AskedOf
      <4>2. CASE \E x \in Worker : \E m \in Slot(x) : srvOf(x) = t /\ hnd[x][m].art = a /\ hnd[x][m].pc \in Asking
        BY <2>1, <4>2 DEF AskedOf
      <4> QED  BY <4>1, <4>2 DEF AskedOf
    <3>2. \A t \in Server : t = v => AskedOf(b, t)'
      BY <2>7 DEF AskedOf
    <3> QED  BY <1>2, <2>1, <2>3, <2>11, <3>1, <3>2 DEF TriedAnswered
  <2> QED  BY <1>2, <2>8, <2>10, <2>11 DEF v
<1> QED  BY <1>1, <1>2
-----------------------------------------------------------------------------
(* Giving up. *)
LEMMA LeastPriority ==
  ASSUME scn \in Scenario
  PROVE  getMinServerPriority \in Nat /\ \A s \in Server : ServerCfg[s].priority \in Nat
<1> DEFINE T == [optional : BOOLEAN, required : BOOLEAN, priority : Nat, conns : Nat, depth : Nat]
           P == {ServerCfg[s].priority : s \in scn.on}
<1>1. ServerCfg \in Seq(T)
  BY ServersAssumption
<1>2. \A x \in T : x.priority \in Nat
  OBVIOUS
<1> HIDE DEF T
<1>3. \A s \in Server : ServerCfg[s].priority \in Nat
  BY <1>1, <1>2 DEF Server
<1>4. scn.on \subseteq Server /\ scn.on # {}
  BY BoundsAssumption DEF Server
<1>5. P \in SUBSET Nat /\ P # {}
  BY <1>3, <1>4
<1>6. Min(P) \in Nat
  BY <1>5, MinIsAMember
<1> QED  BY <1>3, <1>6 DEF getMinServerPriority

(* A server on the try list of an article nobody is asked for has refused it, *)
(* so an article is given up only when enough servers have.                   *)
LEMMA GiveUpEarned ==
  ASSUME FetchParts, TriedAnswered, OnePlace, NEW a \in Article, tryDispatch(a) = giveUp
  PROVE  Refused(a) /\ ~Asked(a)
<1> DEFINE o == disp.opts
<1>1. ~Asked(a)
  BY TryDispatch DEF OnePlace
<1>2. tried[a] \subseteq Server /\ answered[a] \subseteq Server /\ scn \in Scenario
  BY DEF FetchParts
<1>3. \A s \in Server : ~AskedOf(a, s)
  BY <1>1 DEF Asked, AskedOf
<1>4. tried[a] \subseteq answered[a]
  BY <1>2, <1>3 DEF TriedAnswered
<1>5. IsFiniteSet(answered[a])
  BY <1>2, Servers, FS_Subset
<1>6. o.maxArtTries \in Nat /\ o.maxArtOpt \in Nat /\ o.topOnly \in BOOLEAN
  <2>1. o \in Options
    BY DEF FetchParts, Plan
  <2> QED  BY <2>1, ServersAssumption
<1>7. inFlight[a] = 0
  BY TryDispatch
<1>8. \/ o.maxArtTries > 0 /\ Cardinality(tried[a]) >= o.maxArtTries
      \/ Selectable(a, o) # {} /\ Min(Selectable(a, o)) = giveUp
      \/ Exhausted(a, o)
  BY <1>7 DEF tryDispatch, later, giveUp
<1>9. CASE o.maxArtTries > 0 /\ Cardinality(tried[a]) >= o.maxArtTries
  <2>1. Cardinality(tried[a]) <= Cardinality(answered[a]) /\ Cardinality(tried[a]) \in Nat /\ Cardinality(answered[a]) \in Nat
    BY <1>4, <1>5, FS_Subset, FS_CardinalityType
  <2>2. Cardinality(answered[a]) >= o.maxArtTries
    BY <1>6, <1>9, <2>1
  <2> QED  BY <1>1, <1>9, <2>2 DEF Refused
<1>10. Selectable(a, o) # {} => Min(Selectable(a, o)) # giveUp
  <2>1. Selectable(a, o) \in SUBSET Server /\ Selectable(a, o) \in SUBSET Nat
    BY Servers DEF Selectable, Candidates
  <2> QED  BY <2>1, MinIsAMember, Servers DEF giveUp
<1>11. CASE Exhausted(a, o)
  <2> DEFINE opt(S) == {s \in S : ServerCfg[s].optional}
  <2>1. \A s \in Server : ~isServerCandidate(s, a, o)
    BY <1>11 DEF Exhausted, Candidates
  <2>2. opt(tried[a]) \subseteq opt(answered[a]) /\ opt(answered[a]) \subseteq answered[a]
    BY <1>4
  <2>3. IsFiniteSet(opt(answered[a]))
    BY <1>5, <2>2, FS_Subset
  <2>4. Cardinality(opt(tried[a])) <= Cardinality(opt(answered[a]))
        /\ Cardinality(opt(tried[a])) \in Nat /\ Cardinality(opt(answered[a])) \in Nat
    <3> HIDE DEF opt
    <3> QED  BY <2>2, <2>3, FS_Subset, FS_CardinalityType
  <2>5. ASSUME NEW s \in Server
        PROVE  \/ s \in answered[a] \/ s \notin scn.on
               \/ o.topOnly /\ ServerCfg[s].priority > getMinServerPriority
               \/ ServerCfg[s].optional /\ o.maxArtOpt > 0 /\ Cardinality(opt(answered[a])) >= o.maxArtOpt
    <3>1. ServerCfg[s].priority \in Nat /\ getMinServerPriority \in Nat
      BY <1>2, LeastPriority
    <3>2. \/ s \in tried[a] \/ s \notin scn.on
          \/ o.topOnly /\ ~(ServerCfg[s].priority <= getMinServerPriority)
          \/ ServerCfg[s].optional /\ o.maxArtOpt > 0 /\ ~(Cardinality(opt(tried[a])) < o.maxArtOpt)
      BY <2>1 DEF isServerCandidate
    <3> HIDE DEF opt, o
    <3>3. ~(ServerCfg[s].priority <= getMinServerPriority) => ServerCfg[s].priority > getMinServerPriority
      BY <3>1
    <3>4. ~(Cardinality(opt(tried[a])) < o.maxArtOpt) => Cardinality(opt(answered[a])) >= o.maxArtOpt
      BY <1>6, <2>4
    <3> QED  BY <1>4, <3>2, <3>3, <3>4
  <2> QED  BY <1>1, <2>5 DEF Refused
<1> QED  BY <1>8, <1>9, <1>10, <1>11

LEMMA SameRefused ==
  ASSUME UNCHANGED scn, disp'.opts = disp.opts, NEW a, answered'[a] = answered[a], Refused(a)
  PROVE  Refused(a)'
  BY DEF Refused, getMinServerPriority

LEMMA QuietGivenUp ==
  ASSUME UNCHANGED scn, Quiet, PlanKept, GivenUp
  PROVE  GivenUp'
<1>1. CASE disp'.ex = <<>>
  BY <1>1 DEF GivenUp
<1>2. CASE /\ disp'.ex = disp.ex /\ disp'.opts = disp.opts
           /\ disp'.pc = disp.pc \/ (disp.pc = "build" /\ disp'.pc = "apply")
  <2> SUFFICES ASSUME NEW i \in DOMAIN disp.ex
               PROVE  (disp'.pc = "emit" /\ i = 1) \/ (Refused(disp.ex[i])' /\ ~Asked(disp.ex[i])')
    BY <1>2 DEF GivenUp
  <2> DEFINE a == disp.ex[i]
  <2>1. (disp.pc = "emit" /\ i = 1) \/ (Refused(a) /\ ~Asked(a))
    BY DEF GivenUp
  <2>2. \A x : Asked(x)' <=> Asked(x)
    BY QuietPlaces
  <2>3. answered' = answered
    BY DEF Quiet
  <2> QED  BY <1>2, <2>1, <2>2, <2>3, SameRefused
<1> QED  BY <1>1, <1>2 DEF PlanKept

(* A request that starts, is answered or ends is for an article that is not *)
(* given up.                                                                *)
LEMMA BusyGivenUp ==
  ASSUME UNCHANGED <<scn, disp>>, disp \in Plan, GivenUp, \A a \in Article : Asked(a)' => Asked(a),
         \A a \in Article : Asked(a) \/ answered'[a] = answered[a]
  PROVE  GivenUp'
<1> SUFFICES ASSUME NEW i \in DOMAIN disp.ex
             PROVE  (disp.pc = "emit" /\ i = 1) \/ (Refused(disp.ex[i])' /\ ~Asked(disp.ex[i])')
  BY DEF GivenUp
<1> DEFINE a == disp.ex[i]
<1>1. a \in Article
  BY DEF Plan
<1>2. (disp.pc = "emit" /\ i = 1) \/ (Refused(a) /\ ~Asked(a))
  BY DEF GivenUp
<1> QED  BY <1>1, <1>2, SameRefused

LEMMA HandlerGivenUp ==
  ASSUME FetchBase, UNCHANGED scn, NEW w \in Worker, NEW k \in Slot(w), Handling(w, k), GivenUp
  PROVE  GivenUp'
<1>0. FetchParts /\ SlotsOK
  BY Parts DEF FetchBase, FetchParts
<1>1. UNCHANGED disp /\ (Goes(w, k) \/ GivesBack(w, k) \/ Refuses(w, k) \/ Decodes(w, k) \/ Emits(w, k))
  BY <1>0, HandlerSteps DEF FetchParts
<1> DEFINE b == hnd[w][k].art
<1>2. b \in Article /\ Asked(b) /\ \A a \in Article : Asked(a)' => Asked(a)
  BY HandlerPlaces
<1>3. \A a \in Article \ {b} : answered'[a] = answered[a]
  <2>1. answered \in [Article -> SUBSET Server]
    BY <1>0 DEF FetchParts
  <2>2. answered' = answered \/ answered' = [answered EXCEPT ![b] = @ \cup {srvOf(w)}] \/ answered' = [answered EXCEPT ![b] = {}]
    BY <1>1 DEF Goes, GivesBack, Refuses, Decodes, Emits
  <2> HIDE DEF b
  <2> QED  BY <1>2, <2>1, <2>2
<1>4. disp \in Plan
  BY <1>0 DEF FetchParts
<1> HIDE DEF b
<1> QED  BY <1>1, <1>2, <1>3, <1>4, BusyGivenUp

LEMMA WalkGivenUp ==
  ASSUME FetchBase, UNCHANGED scn, OnePlace, TriedAnswered, GivenUp, NEW b \in Article, Walks(b)
  PROVE  GivenUp'
<1>0. FetchParts /\ PlanOK
  BY Parts DEF FetchBase
<1> DEFINE v == tryDispatch(b)
           ex == IF v = giveUp THEN Append(disp.ex, b) ELSE disp.ex
<1>1. /\ disp.pc = "build" /\ b >= disp.i /\ answered' = answered
      /\ disp'.ex = <<>> \/ (disp'.ex = ex /\ disp'.opts = disp.opts)
  BY DEF Walks
<1>2. disp.ex \in Seq(Article) /\ disp.i \in Nat /\ b \in Nat /\ Article \subseteq Nat
  BY <1>0, Servers DEF FetchParts, Plan
<1>3. \A a \in Article : Asked(a)' => Asked(a) \/ (a = b /\ v \in Server)
  BY WalkPlaces
<1>4. ASSUME NEW a \in Article, Refused(a), ~Asked(a), a = b => v \notin Server, disp'.opts = disp.opts
      PROVE  Refused(a)' /\ ~Asked(a)'
  BY <1>1, <1>3, <1>4, SameRefused
<1>5. \A i \in DOMAIN disp.ex : disp.ex[i] \in Article /\ disp.ex[i] # b /\ Refused(disp.ex[i]) /\ ~Asked(disp.ex[i])
  <2>1. \A i \in DOMAIN disp.ex : disp.ex[i] \in Article /\ disp.ex[i] < disp.i
    BY <1>0, <1>2 DEF PlanOK
  <2>2. \A i \in DOMAIN disp.ex : disp.ex[i] # b
    BY <1>1, <1>2, <2>1
  <2> QED  BY <1>1, <2>1, <2>2 DEF GivenUp
<1>6. v = giveUp => Refused(b) /\ ~Asked(b) /\ v \notin Server
  BY <1>0, GiveUpEarned, Servers DEF giveUp
<1> HIDE DEF v
<1>7. \A i \in DOMAIN ex : ex[i] \in Article /\ Refused(ex[i]) /\ ~Asked(ex[i]) /\ (ex[i] = b => v \notin Server)
  <2>1. CASE v # giveUp
    BY <1>5, <2>1
  <2>2. CASE v = giveUp
    <3>1. \A i \in DOMAIN ex : ex[i] = b \/ (i \in DOMAIN disp.ex /\ ex[i] = disp.ex[i])
      BY <1>2, <2>2, AppendOf
    <3> HIDE DEF ex
    <3> QED  BY <1>5, <1>6, <2>2, <3>1
  <2> QED  BY <2>1, <2>2
<1> HIDE DEF ex
<1>8. CASE disp'.ex = <<>>
  BY <1>8 DEF GivenUp
<1>9. CASE disp'.ex = ex /\ disp'.opts = disp.opts
  <2> SUFFICES ASSUME NEW i \in DOMAIN ex PROVE Refused(disp.ex[i])' /\ ~Asked(disp.ex[i])'
    BY <1>9 DEF GivenUp
  <2>1. PICK a \in Article : a = ex[i] /\ Refused(a) /\ ~Asked(a) /\ (a = b => v \notin Server)
    BY <1>7
  <2>2. Refused(a)' /\ ~Asked(a)'
    BY <1>4, <1>9, <2>1
  <2>3. disp'.ex[i] = a
    BY <1>9, <2>1
  <2> QED  BY <2>2, <2>3
<1> QED  BY <1>1, <1>8, <1>9

LEMMA ClaimPlaces ==
  ASSUME FetchBase, UNCHANGED scn, GiveUp
  PROVE  (OnePlace => OnePlace') /\ (TriedAnswered => TriedAnswered')
<1> USE DEF prog, net, ctl
<1>0. FetchParts /\ PlanOK
  BY Parts DEF FetchBase
<1> DEFINE b == Head(disp.ex)
<1>1. disp'.ex = disp.ex /\ disp'.opts = disp.opts /\ disp'.pc = "emit" /\ disp.pc = "apply" /\ disp.ex # <<>> /\ b \in Article
  BY <1>0, GiveUpPlan DEF FetchParts
<1>2. disp.ex \in Seq(Article) /\ b = disp.ex[1] /\ 1 \in DOMAIN disp.ex
  BY <1>0, <1>1, TailOf DEF FetchParts, Plan
<1>3. /\ UNCHANGED <<job, inFlight, work, hnd>>
      /\ tried' = [tried EXCEPT ![b] = {}] /\ answered' = [answered EXCEPT ![b] = {}]
  BY DEF GiveUp
<1>4. \A a : Asked(a)' <=> Asked(a)
  BY <1>3 DEF Asked
<1>5. tried \in [Article -> SUBSET Server] /\ answered \in [Article -> SUBSET Server]
  BY <1>0 DEF FetchParts
<1> HIDE DEF b
<1>6. ASSUME OnePlace PROVE OnePlace'
  BY <1>3, <1>4, <1>6 DEF OnePlace
<1>7. ASSUME TriedAnswered PROVE TriedAnswered'
  <2>1. \A a, s : AskedOf(a, s)' <=> AskedOf(a, s)
    BY <1>3 DEF AskedOf
  <2> QED  BY <1>1, <1>3, <1>5, <1>7, <2>1 DEF TriedAnswered
<1> QED  BY <1>6, <1>7

LEMMA ClaimGivenUp ==
  ASSUME FetchBase, UNCHANGED scn, GivenUp, GiveUp
  PROVE  GivenUp'
<1> USE DEF prog, net, ctl
<1>0. FetchParts /\ PlanOK
  BY Parts DEF FetchBase
<1> DEFINE b == Head(disp.ex)
<1>1. disp'.ex = disp.ex /\ disp'.opts = disp.opts /\ disp'.pc = "emit" /\ disp.pc = "apply" /\ disp.ex # <<>> /\ b \in Article
  BY <1>0, GiveUpPlan DEF FetchParts
<1>2. disp.ex \in Seq(Article) /\ b = disp.ex[1] /\ 1 \in DOMAIN disp.ex
  BY <1>0, <1>1, TailOf DEF FetchParts, Plan
<1>3. /\ UNCHANGED <<job, inFlight, work, hnd>>
      /\ tried' = [tried EXCEPT ![b] = {}] /\ answered' = [answered EXCEPT ![b] = {}]
  BY DEF GiveUp
<1>4. \A a : Asked(a)' <=> Asked(a)
  BY <1>3 DEF Asked
<1>5. tried \in [Article -> SUBSET Server] /\ answered \in [Article -> SUBSET Server]
  BY <1>0 DEF FetchParts
<1> HIDE DEF b
<1>6. GivenUp'
  <2> SUFFICES ASSUME NEW i \in DOMAIN disp.ex, i # 1 PROVE Refused(disp.ex[i])' /\ ~Asked(disp.ex[i])'
    BY <1>1 DEF GivenUp
  <2>1. disp.ex[i] # b /\ disp.ex[i] \in Article
    BY <1>0, <1>2 DEF PlanOK
  <2>2. PICK a \in Article : a = disp.ex[i] /\ a # b
    BY <2>1
  <2>3. Refused(a) /\ ~Asked(a)
    BY <1>1, <2>2 DEF GivenUp
  <2>4. answered'[a] = answered[a]
    BY <1>1, <1>3, <1>5, <2>2
  <2>5. Refused(a)' /\ ~Asked(a)'
    BY <1>1, <1>4, <2>3, <2>4, SameRefused
  <2>6. disp'.ex[i] = a
    BY <1>1, <2>2
  <2> QED  BY <2>5, <2>6
<1> QED  BY <1>6

LEMMA EmitGivenUpGivenUp ==
  ASSUME FetchBase, UNCHANGED scn, GivenUp, Quiet, EmitGivenUp
  PROVE  GivenUp'
<1>0. FetchParts /\ PlanOK
  BY Parts DEF FetchBase
<1>1. /\ disp'.pc # "emit" /\ disp.pc = "emit" /\ disp.ex # <<>>
      /\ disp'.ex = <<>> \/ (disp'.ex = Tail(disp.ex) /\ disp'.opts = disp.opts)
  BY <1>0, EmitGivenUpPlan DEF FetchParts
<1>2. disp.ex \in Seq(Article)
  BY <1>0 DEF FetchParts, Plan
<1>3. CASE disp'.ex = <<>>
  BY <1>3 DEF GivenUp
<1>4. CASE disp'.ex = Tail(disp.ex) /\ disp'.opts = disp.opts
  <2> SUFFICES ASSUME NEW i \in DOMAIN Tail(disp.ex) PROVE Refused(disp.ex[i])' /\ ~Asked(disp.ex[i])'
    BY <1>4 DEF GivenUp
  <2>1. i + 1 \in DOMAIN disp.ex /\ Tail(disp.ex)[i] = disp.ex[i + 1] /\ i + 1 # 1
    <3>1. Tail(disp.ex) \in Seq(Article)
      BY <1>1, <1>2, TailOf
    <3>2. i \in Nat \ {0}
      BY <3>1
    <3> QED  BY <1>1, <1>2, <3>2, TailOf
  <2>2. PICK a \in Article : a = disp.ex[i + 1]
    BY <1>2, <2>1
  <2>3. Refused(a) /\ ~Asked(a)
    BY <2>1, <2>2 DEF GivenUp
  <2>4. answered' = answered /\ ~Asked(a)'
    BY <2>3, QuietPlaces DEF Quiet
  <2>5. Refused(a)'
    BY <1>4, <2>3, <2>4, SameRefused
  <2>6. disp'.ex[i] = a
    BY <1>4, <2>1, <2>2
  <2> QED  BY <2>4, <2>5, <2>6
<1> QED  BY <1>1, <1>3, <1>4
-----------------------------------------------------------------------------
(* An emitted article is in somebody's hands. *)
InResults(a) == \E i \in DOMAIN results : results[i].art = a /\ results[i].kind \in Terminal
AtHandler(a) == \E w \in Worker : \E k \in Slot(w) :
                   hnd[w][k].art = a /\ hnd[w][k].pc = "emit" /\ hnd[w][k].kind \in Terminal
Claimed(a) == disp.pc = "emit" /\ Head(disp.ex) = a
InHand(a) == a \in held \/ InResults(a) \/ AtHandler(a) \/ Claimed(a)

LEMMA Hands == EmittedIsInHand <=> (exists => \A a \in Article : bits[a].emitted => InHand(a))
  BY DEF EmittedIsInHand, InHand, InResults, AtHandler, Claimed

LEMMA HandsNext == EmittedIsInHand' <=> (exists' => \A a \in Article : bits'[a].emitted => InHand(a)')
  BY DEF EmittedIsInHand, InHand, InResults, AtHandler, Claimed

LEMMA SameAtHandler ==
  ASSUME AllAlike
  PROVE  \A a : AtHandler(a) => AtHandler(a)'
  BY DEF AllAlike, Alike, AtHandler

(* The steps that move no result. *)
LEMMA StillInHand ==
  ASSUME EmittedIsInHand, AllAlike, UNCHANGED <<bits, results, held>>, job' # "gone" => job # "gone",
         UNCHANGED disp \/ disp.pc # "emit"
  PROVE  EmittedIsInHand'
<1> SUFFICES ASSUME exists', NEW a \in Article, bits'[a].emitted PROVE InHand(a)'
  BY HandsNext
<1>1. InHand(a)
  BY Hands DEF exists
<1>2. AtHandler(a) => AtHandler(a)'
  BY SameAtHandler
<1>3. Claimed(a) => Claimed(a)'
  BY DEF Claimed
<1>4. InResults(a) => InResults(a)'
  BY DEF InResults
<1> QED  BY <1>1, <1>2, <1>3, <1>4 DEF InHand

LEMMA OneAtHandler ==
  ASSUME NEW w \in Worker, NEW k \in Slot(w), Others(w, k), NEW a, AtHandler(a),
         ~(hnd[w][k].art = a /\ hnd[w][k].pc = "emit" /\ hnd[w][k].kind \in Terminal)
  PROVE  AtHandler(a)'
  BY DEF Others, Alike, AtHandler

(* A result is queued. *)
LEMMA QueuedInHand ==
  ASSUME FetchParts, NEW b \in Article, NEW kind \in Kind, results' = Append(results, [art |-> b, kind |-> kind])
  PROVE  (kind \in Terminal => InResults(b)') /\ \A a : InResults(a) => InResults(a)'
<1> DEFINE r == [art |-> b, kind |-> kind]
<1>1. r \in Completion /\ results \in Seq(Completion) /\ r.art = b /\ r.kind = kind
  BY DEF Completion, FetchParts
<1>2. results' = Append(results, r)
  OBVIOUS
<1> HIDE DEF r
<1>3. /\ Len(results) + 1 \in DOMAIN results' /\ results'[Len(results) + 1] = r
      /\ \A i \in DOMAIN results : i \in DOMAIN results' /\ results'[i] = results[i]
  BY <1>1, <1>2, AppendOf
<1> QED  BY <1>1, <1>3 DEF InResults

LEMMA HandlerInHand ==
  ASSUME FetchBase, UNCHANGED scn, EmittedIsInHand, NEW w \in Worker, NEW k \in Slot(w), Handling(w, k)
  PROVE  EmittedIsInHand'
<1>0. FetchParts /\ SlotsOK /\ DoneIsNotEmitted /\ BitsOK /\ HandlersOK
  BY Parts DEF FetchBase, FetchParts
<1>1. /\ Others(w, k) /\ UNCHANGED <<job, held, disp>>
      /\ Goes(w, k) \/ GivesBack(w, k) \/ Refuses(w, k) \/ Decodes(w, k) \/ Emits(w, k)
  BY <1>0, HandlerSteps
<1> DEFINE b == hnd[w][k].art
           kind == hnd[w][k].kind
<1>2. hnd[w][k].pc # "free"
  BY <1>1 DEF Goes, GivesBack, Refuses, Decodes, Emits, Asking
<1>3. b \in Article /\ kind \in Kind
  BY <1>0, <1>2, BusyHasArticle
<1> SUFFICES ASSUME exists', NEW a \in Article, bits'[a].emitted PROVE InHand(a)'
  BY HandsNext
<1>4. exists /\ (bits[a].emitted => InHand(a)) /\ (Claimed(a) => Claimed(a)') /\ (a \in held => a \in held')
  BY <1>1, Hands DEF exists, Claimed
<1>5. CASE hnd[w][k].pc \in Asking /\ UNCHANGED results /\ (bits' = bits \/ bits' = clearEmitted(bits, b))
  <2>1. bits[a].emitted
    <3>1. CASE bits' = bits
      BY <3>1
    <3>2. CASE bits' = clearEmitted(bits, b)
      <4> HIDE DEF b
      <4>1. ~bits'[b].emitted /\ \A x \in Article \ {b} : bits'[x] = bits[x]
        BY <1>0, <1>3, <3>2, BitDoors
      <4> QED  BY <4>1
    <3> QED  BY <1>5, <3>1, <3>2
  <2>2. AtHandler(a) => AtHandler(a)'
    BY <1>1, <1>5, OneAtHandler DEF Asking
  <2>3. InResults(a) => InResults(a)'
    BY <1>5 DEF InResults
  <2> QED  BY <1>4, <2>1, <2>2, <2>3 DEF InHand
<1>6. CASE Decodes(w, k)
  <2>1. CASE a = b
    <3>1. hnd'[w][k].art = a /\ hnd'[w][k].pc = "emit" /\ hnd'[w][k].kind \in Terminal
      BY <1>6, <2>1 DEF Decodes
    <3> QED  BY <3>1 DEF InHand, AtHandler
  <2>2. CASE a # b
    <3>1. bits'[a] = bits[a]
      <4>1. bits' = markEmitted(bits, b) \/ bits' = bits
        BY <1>6 DEF Decodes
      <4> HIDE DEF b
      <4> QED  BY <1>0, <1>3, <2>2, <4>1, BitDoors
    <3>2. AtHandler(a) => AtHandler(a)'
      BY <1>1, <2>2, OneAtHandler
    <3>3. InResults(a) => InResults(a)'
      BY <1>6 DEF InResults, Decodes
    <3> QED  BY <1>4, <3>1, <3>2, <3>3 DEF InHand
  <2> QED  BY <2>1, <2>2
<1>7. CASE Emits(w, k)
  <2>1. CASE results' = Append(results, [art |-> b, kind |-> kind]) /\ UNCHANGED bits
    <3>2. \A x \in Article : x = b /\ kind \in Terminal => InResults(x)'
      <4> HIDE DEF b, kind
      <4> QED  BY <1>0, <1>3, <2>1, QueuedInHand
    <3>3. InResults(a) => InResults(a)'
      <4> HIDE DEF b, kind
      <4> QED  BY <1>0, <1>3, <2>1, QueuedInHand
    <3>4. AtHandler(a) => AtHandler(a)' \/ InResults(a)'
      BY <1>1, <3>2, OneAtHandler
    <3> QED  BY <1>4, <2>1, <3>3, <3>4 DEF InHand
  <2>2. CASE bits' = clearEmitted(bits, b) /\ UNCHANGED results
    <3>1. a # b /\ bits'[a] = bits[a]
      <4> HIDE DEF b
      <4>1. ~bits'[b].emitted /\ \A x \in Article \ {b} : bits'[x] = bits[x]
        BY <1>0, <1>3, <2>2, BitDoors
      <4> QED  BY <4>1
    <3>2. AtHandler(a) => AtHandler(a)'
      BY <1>1, <3>1, OneAtHandler
    <3>3. InResults(a) => InResults(a)'
      BY <2>2 DEF InResults
    <3> QED  BY <1>4, <3>1, <3>2, <3>3 DEF InHand
  <2> QED  BY <1>4, <1>7, <2>1, <2>2 DEF Emits
<1> QED  BY <1>1, <1>5, <1>6, <1>7 DEF Goes, GivesBack, Refuses

LEMMA TakeInHand ==
  ASSUME FetchBase, UNCHANGED scn, EmittedIsInHand, NEW w \in Worker, Take(w)
  PROVE  EmittedIsInHand'
<1>0. FetchTypeOK /\ SlotsOK
  BY DEF FetchBase
<1>1. PICK k \in Slot(w) : Takes(w, k)
  BY <1>0, TakeSteps
<1>2. Others(w, k) /\ hnd[w][k].pc = "free" /\ UNCHANGED <<bits, job, results, held, disp>>
  BY <1>1 DEF Takes
<1> SUFFICES ASSUME exists', NEW a \in Article, bits'[a].emitted PROVE InHand(a)'
  BY HandsNext
<1>3. InHand(a)
  BY <1>2, Hands DEF exists
<1>4. AtHandler(a) => AtHandler(a)'
  BY <1>2, OneAtHandler
<1>5. (Claimed(a) => Claimed(a)') /\ (InResults(a) => InResults(a)')
  BY <1>2 DEF Claimed, InResults
<1> QED  BY <1>2, <1>3, <1>4, <1>5 DEF InHand

LEMMA ClaimInHand ==
  ASSUME FetchBase, UNCHANGED scn, EmittedIsInHand, GiveUp \/ EmitGivenUp
  PROVE  EmittedIsInHand'
<1> USE DEF prog, track, net, ctl
<1>0. FetchParts /\ PlanOK /\ DoneIsNotEmitted /\ BitsOK /\ HandlersOK
  BY Parts DEF FetchBase, FetchParts
<1> DEFINE b == Head(disp.ex)
<1>1. UNCHANGED <<job, hnd, held>>
  BY DEF GiveUp, EmitGivenUp
<1> SUFFICES ASSUME exists', NEW a \in Article, bits'[a].emitted PROVE InHand(a)'
  BY HandsNext
<1>2. exists /\ (bits[a].emitted => InHand(a)) /\ (AtHandler(a) => AtHandler(a)') /\ (a \in held => a \in held')
  BY <1>0, <1>1, Hands, SameHandlers, SameAtHandler DEF exists
<1>3. CASE GiveUp
  <2>1. disp'.ex = disp.ex /\ disp'.pc = "emit" /\ disp.pc = "apply" /\ b \in Article
    BY <1>0, <1>3, GiveUpPlan DEF FetchParts
  <2>2. results' = results /\ bits' = markEmitted(bits, b)
    BY <1>2, <1>3 DEF GiveUp
  <2>3. CASE a = b
    BY <2>1, <2>3 DEF InHand, Claimed
  <2>4. CASE a # b
    <3>1. bits'[a] = bits[a]
      <4> HIDE DEF b
      <4> QED  BY <1>0, <2>1, <2>2, <2>4, BitDoors
    <3> QED  BY <1>2, <2>1, <2>2, <3>1 DEF InHand, Claimed, InResults
  <2> QED  BY <2>3, <2>4
<1>4. CASE EmitGivenUp
  <2>1. disp.pc = "emit" /\ b \in Article
    BY <1>0, <1>4, EmitGivenUpPlan DEF FetchParts
  <2>2. \/ results' = Append(results, [art |-> b, kind |-> "exhausted"]) /\ bits' = bits
        \/ bits' = clearEmitted(bits, b) /\ results' = results
    BY <1>2, <1>4 DEF EmitGivenUp
  <2> HIDE DEF b
  <2>3. CASE results' = Append(results, [art |-> b, kind |-> "exhausted"]) /\ bits' = bits
    <3>1. "exhausted" \in Kind /\ "exhausted" \in Terminal
      BY DEF Kind, Terminal
    <3>2. (a = b => InResults(a)') /\ (InResults(a) => InResults(a)')
      BY <1>0, <2>1, <2>3, <3>1, QueuedInHand
    <3> QED  BY <1>2, <2>3, <3>2 DEF InHand, Claimed, b
  <2>4. CASE bits' = clearEmitted(bits, b) /\ results' = results
    <3>1. a # b /\ bits'[a] = bits[a]
      BY <1>0, <2>1, <2>4, BitDoors
    <3> QED  BY <1>2, <2>4, <3>1 DEF InHand, Claimed, InResults, b
  <2> QED  BY <2>2, <2>3, <2>4
<1> QED  BY <1>3, <1>4

LEMMA PipeInHand ==
  ASSUME FetchBase, UNCHANGED scn, EmittedIsInHand, Piping \/ \E x \in Article : AckDurable(x)
  PROVE  EmittedIsInHand'
<1> USE DEF prog, track, net, ctl
<1>0. FetchParts /\ DoneIsNotEmitted /\ BitsOK /\ HandlersOK
  BY Parts DEF FetchBase, FetchParts
<1>1. UNCHANGED <<hnd, disp>> /\ (job' # "gone" => job # "gone")
  BY DEF Piping, HandleRetry, HandleFatal, HandleGood, AckDurable
<1> SUFFICES ASSUME exists', NEW a \in Article, bits'[a].emitted PROVE InHand(a)'
  BY HandsNext
<1>2. exists /\ (bits[a].emitted => InHand(a)) /\ (AtHandler(a) => AtHandler(a)') /\ (Claimed(a) => Claimed(a)')
  BY <1>0, <1>1, Hands, SameHandlers, SameAtHandler DEF exists, Claimed
<1>3. CASE Piping
  <2> DEFINE r == Head(results)
             b == r.art
  <2>1. results \in Seq(Completion) /\ results # <<>> /\ results' = Tail(results)
    BY <1>0, <1>3 DEF FetchParts, Piping, HandleRetry, HandleFatal, HandleGood
  <2>2. r = results[1] /\ r \in Completion
        /\ \A i \in DOMAIN results : i = 1 \/ (i - 1 \in DOMAIN results' /\ results'[i - 1] = results[i])
    BY <2>1, TailOf
  <2>3. b \in Article
    BY <2>2 DEF Completion
  <2>4. \/ (bits' = clearEmitted(bits, b) \/ bits' = markFailed(bits, b)) /\ held' = held
        \/ bits' = bits /\ held' = held \cup {b}
    BY <1>2, <1>3 DEF Piping, HandleRetry, HandleFatal, HandleGood
  <2> HIDE DEF b
  <2>5. InResults(a) => a = b \/ InResults(a)'
    BY <2>2 DEF InResults, b
  <2>6. CASE (bits' = clearEmitted(bits, b) \/ bits' = markFailed(bits, b)) /\ held' = held
    <3>1. a # b /\ bits'[a] = bits[a]
      BY <1>0, <2>3, <2>6, BitDoors
    <3> QED  BY <1>2, <2>5, <2>6, <3>1 DEF InHand
  <2>7. CASE bits' = bits /\ held' = held \cup {b}
    BY <1>2, <2>5, <2>7 DEF InHand
  <2> QED  BY <2>4, <2>6, <2>7
<1>4. CASE \E x \in Article : AckDurable(x)
  <2>1. PICK x \in Article : AckDurable(x)
    BY <1>4
  <2>2. bits' = markDone(bits, x) /\ held' = held \ {x} /\ results' = results
    BY <1>2, <2>1 DEF AckDurable
  <2>3. a # x /\ bits'[a] = bits[a]
    BY <1>0, <2>2, BitDoors
  <2> QED  BY <1>2, <2>2, <2>3 DEF InHand, InResults
<1> QED  BY <1>3, <1>4

LEMMA ReloadInHand ==
  ASSUME FetchBase, UNCHANGED scn, EmittedIsInHand, Reload
  PROVE  EmittedIsInHand'
<1>0. FetchParts /\ DoneIsNotEmitted /\ BitsOK /\ held \subseteq Article
  BY Parts DEF FetchBase, FetchParts
<1>1. /\ job' = job /\ results = <<>> /\ disp.pc = "exit"
      /\ \A w \in Worker : \A k \in Slot(w) : hnd[w][k].pc = "free"
  BY ReloadBase
<1> SUFFICES ASSUME exists', NEW a \in Article, bits'[a].emitted PROVE InHand(a)'
  BY HandsNext
<1>2. exists /\ bits[a].emitted /\ held' = held
  BY <1>0, <1>1, ReloadBits DEF exists
<1>3. InHand(a)
  BY <1>2, Hands
<1>4. ~InResults(a) /\ ~AtHandler(a) /\ ~Claimed(a)
  BY <1>1 DEF InResults, AtHandler, Claimed
<1> QED  BY <1>2, <1>3, <1>4 DEF InHand
-----------------------------------------------------------------------------
(* All of it. *)
LEMMA InvParts ==
  FetchInv <=> /\ FetchBase /\ TriedAnswered /\ EmittedIsInHand
               /\ job \in Tracked => OnePlace /\ GivenUp
  BY DEF FetchInv, FetchBase

LEMMA InvPartsNext ==
  FetchInv' <=> /\ FetchBase' /\ TriedAnswered' /\ EmittedIsInHand'
                /\ job' \in Tracked => OnePlace' /\ GivenUp'
  BY DEF FetchInv, FetchBase

LEMMA FetchStart ==
  ASSUME Init
  PROVE  FetchInv
<1>1. scn \in Scenario /\ scn.done \subseteq Article
  BY Servers DEF Init
<1>2. disp \in Plan /\ disp.ex = <<>> /\ disp.pc = "idle"
  BY <1>1, IdlePlan DEF Init
<1>3. BitsOK /\ DoneIsNotEmitted /\ \A a \in Article : ~bits[a].emitted
  <2> DEFINE B(a) == [done |-> a \in scn.done, failed |-> FALSE, emitted |-> FALSE]
  <2>1. \A a \in Article : B(a) \in BitState /\ ~B(a).emitted
    <3>1. ASSUME NEW y \in BOOLEAN
          PROVE  LET g == [done |-> y, failed |-> FALSE, emitted |-> FALSE] IN g \in BitState /\ ~g.emitted
      BY DEF BitState
    <3>2. \A a \in Article : (a \in scn.done) \in BOOLEAN
      OBVIOUS
    <3> QED  BY <3>1, <3>2
  <2>2. bits = [a \in Article |-> B(a)]
    BY DEF Init
  <2> HIDE DEF B
  <2>3. bits \in [Article -> BitState] /\ \A a \in Article : ~bits[a].emitted
    BY <2>1, <2>2
  <2> QED  BY <2>3 DEF BitsOK, DoneIsNotEmitted, BitState
<1>4. loop \in [Worker -> LoopState] /\ \A w \in Worker : loop[w].mode \in {"acquire", "exit"}
  <2> DEFINE L(w) == [mode |-> IF srvOf(w) \in scn.on THEN "acquire" ELSE "exit", snap |-> "nil"]
  <2>1. \A w \in Worker : L(w) \in LoopState /\ L(w).mode \in {"acquire", "exit"}
    BY DEF LoopState
  <2>2. loop = [w \in Worker |-> L(w)]
    BY DEF Init, loopsAtStart
  <2> HIDE DEF L
  <2> QED  BY <2>1, <2>2
<1>5. HandlersOK /\ \A w \in Worker : \A k \in Slot(w) : hnd[w][k].pc = "free" /\ hnd[w][k].art = 0
  <2>1. hnd = [w \in Worker |-> [k \in Slot(w) |-> Free]]
    BY DEF Init
  <2>2. \A w \in Worker : hnd[w] = [k \in Slot(w) |-> Free]
    BY <2>1
  <2> QED  BY <2>1, <2>2, FreeIsAHandler DEF HandlersOK
<1>6. work = [s \in Server |-> <<>>] /\ inFlight = [a \in Article |-> 0] /\ tried = [a \in Article |-> {}]
  BY DEF Init
<1>7. FetchParts
  <2>1. opts \in Options /\ results = <<>> /\ held = {} /\ job = "young" /\ phase = "run"
        /\ answered = [a \in Article |-> {}]
        /\ pause = [queue |-> FALSE, flag |-> FALSE, live |-> TRUE, low |-> FALSE]
    BY <1>1, Servers DEF Init
  <2>2. results \in Seq(Completion) /\ work \in [Server -> Seq(Article)]
    BY <1>6, <2>1
  <2>3. tried \in [Article -> SUBSET Server] /\ answered \in [Article -> SUBSET Server] /\ inFlight \in [Article -> Nat]
    BY <1>6, <2>1
  <2> QED  BY <1>1, <1>2, <1>3, <1>4, <1>5, <2>1, <2>2, <2>3 DEF FetchParts
<1>8. SlotsOK /\ PlanOK
  BY <1>2, <1>4, <1>5 DEF SlotsOK, PlanOK
<1>9. FetchBase
  BY <1>3, <1>7, <1>8, Parts DEF FetchBase
<1>10. \A a \in Article : ~Asked(a)
  BY <1>5, <1>6, Servers DEF Asked
<1>11. OnePlace
  BY <1>5, <1>6, <1>10 DEF OnePlace
<1>12. TriedAnswered /\ GivenUp
  BY <1>2, <1>6 DEF TriedAnswered, GivenUp
<1>13. EmittedIsInHand
  BY <1>3 DEF EmittedIsInHand
<1> QED  BY <1>9, <1>11, <1>12, <1>13, InvParts

LEMMA FetchStep ==
  ASSUME FetchInv, [UNCHANGED scn /\ Next]_vars
  PROVE  FetchInv'
<1>0. FetchBase /\ TriedAnswered /\ EmittedIsInHand /\ (job \in Tracked => OnePlace /\ GivenUp)
  BY InvParts
<1>1. UNCHANGED scn
  BY DEF vars
<1>2. ASSUME Quiet, FetchBase', EmittedIsInHand', PlanKept, job' \in Tracked => job \in Tracked
      PROVE  FetchInv'
  BY <1>0, <1>1, <1>2, QuietPlaces, QuietGivenUp, InvPartsNext
<1>3. ASSUME UNCHANGED disp, FetchBase' PROVE PlanKept
  BY <1>3, PartsNext DEF PlanKept, FetchBase, FetchParts
<1>4. CASE \E w \in Worker : \E k \in Slot(w) : Handling(w, k)
  <2>1. PICK w \in Worker : \E k \in Slot(w) : Handling(w, k)
    BY <1>4
  <2>2. PICK k \in Slot(w) : Handling(w, k)
    BY <2>1
  <2>3. UNCHANGED job
    BY <1>0, <2>2, HandlerSteps, Parts DEF FetchBase, FetchParts
  <2>4. FetchBase' /\ TriedAnswered' /\ EmittedIsInHand' /\ (OnePlace => OnePlace') /\ (GivenUp => GivenUp')
    BY <1>0, <1>1, <2>2, HandlerBase, HandlerTries, HandlerInHand, HandlerPlaces, HandlerGivenUp
  <2> QED  BY <1>0, <2>3, <2>4, InvPartsNext
<1>5. CASE \E w \in Worker : Take(w)
  <2>1. PICK w \in Worker : Take(w)
    BY <1>5
  <2>2. UNCHANGED <<job, disp, answered>>
    BY <2>1 DEF Take, prog, ctl
  <2>3. FetchBase' /\ EmittedIsInHand'
    BY <1>0, <1>1, <2>1, TakeBase, TakeInHand
  <2>4. (\A a \in Article : Asked(a)' => Asked(a)) /\ (OnePlace => OnePlace') /\ TriedAnswered'
    BY <1>0, <1>1, <2>1, TakePlaces
  <2>5. disp \in Plan
    BY <1>0, Parts DEF FetchBase, FetchParts
  <2>6. GivenUp => GivenUp'
    BY <1>1, <2>2, <2>4, <2>5, BusyGivenUp
  <2> QED  BY <1>0, <2>2, <2>3, <2>4, <2>6, InvPartsNext
<1>6. CASE BuildPlan
  <2>1. PICK b \in Article : Walks(b)
    BY <1>0, <1>6, WalkPlan, Parts DEF FetchBase, FetchParts
  <2>2. UNCHANGED <<job, bits, results, held, hnd>> /\ disp.pc = "build"
    BY <2>1 DEF Walks
  <2>3. FetchBase'
    BY <1>0, <1>1, <1>6, WalkBase
  <2>4. AllAlike
    BY <1>0, <2>2, SameHandlers, Parts DEF FetchBase, FetchParts
  <2>5. EmittedIsInHand'
    BY <1>0, <2>2, <2>4, StillInHand
  <2>6. TriedAnswered' /\ (OnePlace => OnePlace') /\ (OnePlace /\ GivenUp => GivenUp')
    BY <1>0, <1>1, <2>1, WalkPlaces, WalkGivenUp
  <2> QED  BY <1>0, <2>2, <2>3, <2>5, <2>6, InvPartsNext
<1>7. CASE GiveUp
  <2>1. job' = job
    BY <1>7 DEF GiveUp
  <2>2. FetchBase' /\ EmittedIsInHand'
    BY <1>0, <1>1, <1>7, GiveUpBase, ClaimInHand
  <2>3. (GivenUp => GivenUp') /\ (OnePlace => OnePlace')
    BY <1>0, <1>1, <1>7, ClaimGivenUp, ClaimPlaces
  <2>4. TriedAnswered'
    BY <1>0, <1>1, <1>7, ClaimPlaces
  <2> QED  BY <1>0, <2>1, <2>2, <2>3, <2>4, InvPartsNext
<1>8. CASE EmitGivenUp
  <2>1. FetchBase' /\ Quiet /\ UNCHANGED job
    BY <1>0, <1>1, <1>8, EmitGivenUpBase
  <2>2. EmittedIsInHand'
    BY <1>0, <1>1, <1>8, ClaimInHand
  <2>3. TriedAnswered' /\ (OnePlace => OnePlace')
    BY <1>0, <2>1, QuietPlaces
  <2>4. GivenUp => GivenUp'
    BY <1>0, <1>1, <1>8, <2>1, EmitGivenUpGivenUp
  <2> QED  BY <1>0, <2>1, <2>2, <2>3, <2>4, InvPartsNext
<1>9. CASE StartPass \/ WalkCut \/ EndPass \/ DispatcherExits
  <2>1. FetchBase' /\ Quiet /\ PlanKept /\ UNCHANGED <<bits, results, held>> /\ (job' = job \/ (job = "run" /\ job' = "left"))
    BY <1>0, <1>1, <1>9, PassBase
  <2>2. disp.pc # "emit"
    BY <1>9 DEF StartPass, WalkCut, EndPass, DispatcherExits
  <2>3. EmittedIsInHand'
    BY <1>0, <2>1, <2>2, StillInHand DEF Quiet
  <2> QED  BY <1>2, <2>1, <2>3 DEF Tracked
<1>10. CASE \E w \in Worker : Arm(w) \/ Disconnect(w) \/ Drained(w) \/ WorkerStops(w)
  <2>1. FetchBase' /\ Quiet /\ UNCHANGED <<bits, job, results, held, disp>>
    BY <1>0, <1>1, <1>10, LoopBase
  <2>2. EmittedIsInHand'
    BY <1>0, <2>1, StillInHand DEF Quiet
  <2> QED  BY <1>2, <1>3, <2>1, <2>2
<1>11. CASE Piping \/ \E a \in Article : AckDurable(a)
  <2>1. FetchBase' /\ Quiet /\ UNCHANGED disp /\ (job' = job \/ (job = "run" /\ job' = "left"))
    BY <1>0, <1>1, <1>11, PipeBase
  <2>2. EmittedIsInHand'
    BY <1>0, <1>1, <1>11, PipeInHand
  <2> QED  BY <1>2, <1>3, <2>1, <2>2 DEF Tracked
<1>12. CASE Outside \/ UNCHANGED moving
  <2>1. /\ FetchBase' /\ Quiet /\ UNCHANGED <<bits, results, held, disp>>
        /\ job' \in Tracked => job \in Tracked
        /\ job' # "gone" => job # "gone"
    BY <1>0, <1>1, <1>12, OutsideBase
  <2>2. EmittedIsInHand'
    BY <1>0, <2>1, StillInHand DEF Quiet
  <2> QED  BY <1>2, <1>3, <2>1, <2>2
<1>13. CASE CancelJob
  <2>1. FetchBase' /\ job' = "cancelled" /\ AllAlike /\ UNCHANGED <<bits, work, results, held, disp>>
    BY <1>0, <1>1, <1>13, CancelBase
  <2>2. EmittedIsInHand'
    BY <1>0, <1>13, <2>1, StillInHand DEF CancelJob
  <2>3. TriedAnswered'
    BY <1>13 DEF CancelJob, TriedAnswered
  <2> QED  BY <2>1, <2>2, <2>3, InvPartsNext DEF Tracked
<1>14. CASE Reload
  <2>1. /\ FetchBase' /\ UNCHANGED <<job, hnd, results>>
        /\ \A w \in Worker : \A k \in Slot(w) : hnd[w][k].pc = "free" /\ hnd[w][k].art = 0
        /\ work' = [s \in Server |-> <<>>] /\ disp'.ex = <<>>
        /\ tried' = [a \in Article |-> {}] /\ inFlight' = [a \in Article |-> 0]
    BY <1>0, <1>1, <1>14, ReloadBase
  <2>2. EmittedIsInHand'
    BY <1>0, <1>1, <1>14, ReloadInHand
  <2>3. \A a \in Article : ~Asked(a)'
    BY <2>1, Servers DEF Asked
  <2>4. OnePlace'
    BY <2>1, <2>3 DEF OnePlace
  <2>5. TriedAnswered' /\ GivenUp'
    BY <2>1 DEF TriedAnswered, GivenUp
  <2> QED  BY <2>1, <2>2, <2>4, <2>5, InvPartsNext
<1> QED
  BY <1>4, <1>5, <1>6, <1>7, <1>8, <1>9, <1>10, <1>11, <1>12, <1>13, <1>14
     DEF Next, Dispatching, Looping, Calling, Timed, Outside, vars

(* The places of an article are counted by the tracker. *)
LEMMA CountedOnce ==
  ASSUME OnePlace, NEW a \in Article
  PROVE  inFlight[a] = Requests(a) /\ Requests(a) <= 1
<1>1. ASSUME NEW p, NEW S, p \in S, \A q \in S : q = p PROVE Cardinality(S) = 1
  <2>1. S = {p}
    BY <1>1
  <2> QED  BY <2>1, FS_Singleton
<1>2. Cardinality({}) = 0
  BY FS_EmptySet
<1>3. \A p \in Queued(a) : \E s \in Server : \E i \in DOMAIN work[s] : p = <<s, i>> /\ work[s][i] = a
  BY DEF Queued
<1>4. \A p \in Handled(a) : \E w \in Worker : \E k \in Slot(w) : p = <<w, k>> /\ hnd[w][k].art = a
  BY DEF Handled
<1>5. \A s \in Server : \A i \in DOMAIN work[s] : work[s][i] = a => <<s, i>> \in Queued(a)
  BY DEF Queued
<1>6. \A w \in Worker : \A k \in Slot(w) : hnd[w][k].art = a => <<w, k>> \in Handled(a)
  BY DEF Handled
<1>7. Asked(a) <=> Queued(a) # {} \/ Handled(a) # {}
  <2>1. Asked(a) => Queued(a) # {} \/ Handled(a) # {}
    BY <1>5, <1>6 DEF Asked
  <2>2. Queued(a) # {} => Asked(a)
    BY <1>3 DEF Asked
  <2>3. Handled(a) # {} => Asked(a)
    BY <1>4 DEF Asked
  <2> QED  BY <2>1, <2>2, <2>3
<1>8. \A p, q \in Queued(a) : p = q
  <2> SUFFICES ASSUME NEW p \in Queued(a), NEW q \in Queued(a) PROVE p = q
    OBVIOUS
  <2>1. PICK s \in Server : \E i \in DOMAIN work[s] : p = <<s, i>> /\ work[s][i] = a
    BY <1>3
  <2>2. PICK i \in DOMAIN work[s] : p = <<s, i>> /\ work[s][i] = a
    BY <2>1
  <2>3. PICK t \in Server : \E k \in DOMAIN work[t] : q = <<t, k>> /\ work[t][k] = a
    BY <1>3
  <2>4. PICK k \in DOMAIN work[t] : q = <<t, k>> /\ work[t][k] = a
    BY <2>3
  <2>5. work[s][i] = work[t][k]
    BY <2>2, <2>4
  <2>6. s = t /\ i = k
    <3>1. i \in DOMAIN work[s] /\ k \in DOMAIN work[t]
      OBVIOUS
    <3>2. \A y, z \in Server : \A j \in DOMAIN work[y], l \in DOMAIN work[z] : work[y][j] = work[z][l] => y = z /\ j = l
      BY DEF OnePlace
    <3> QED  BY Zenon, <2>5, <3>1, <3>2
  <2> QED  BY <2>2, <2>4, <2>6
<1>9. \A p, q \in Handled(a) : p = q
  <2> SUFFICES ASSUME NEW p \in Handled(a), NEW q \in Handled(a) PROVE p = q
    OBVIOUS
  <2>1. PICK w \in Worker : \E k \in Slot(w) : p = <<w, k>> /\ hnd[w][k].art = a
    BY <1>4
  <2>2. PICK k \in Slot(w) : p = <<w, k>> /\ hnd[w][k].art = a
    BY <2>1
  <2>3. PICK x \in Worker : \E m \in Slot(x) : q = <<x, m>> /\ hnd[x][m].art = a
    BY <1>4
  <2>4. PICK m \in Slot(x) : q = <<x, m>> /\ hnd[x][m].art = a
    BY <2>3
  <2>5. hnd[w][k].art = hnd[x][m].art /\ hnd[w][k].art # 0
    BY <2>2, <2>4, Servers
  <2>6. w = x /\ k = m
    BY <2>5 DEF OnePlace
  <2> QED  BY <2>2, <2>4, <2>6
<1>10. Queued(a) = {} \/ Handled(a) = {}
  BY <1>3, <1>4 DEF OnePlace
<1>11. inFlight[a] = IF Asked(a) THEN 1 ELSE 0
  BY DEF OnePlace
<1>12. CASE Queued(a) = {} /\ Handled(a) = {}
  BY <1>2, <1>7, <1>11, <1>12 DEF Requests
<1>13. CASE Queued(a) # {}
  <2>1. PICK p : p \in Queued(a)
    BY <1>13
  <2>2. Cardinality(Queued(a)) = 1 /\ Handled(a) = {}
    BY <1>1, <1>8, <1>10, <2>1
  <2> QED  BY <1>2, <1>7, <1>11, <1>13, <2>2 DEF Requests
<1>14. CASE Handled(a) # {}
  <2>1. PICK p : p \in Handled(a)
    BY <1>14
  <2>2. Cardinality(Handled(a)) = 1 /\ Queued(a) = {}
    BY <1>1, <1>9, <1>10, <2>1
  <2> QED  BY <1>2, <1>7, <1>11, <1>14, <2>2 DEF Requests
<1> QED  BY <1>12, <1>13, <1>14

LEMMA FetcherKeepsTrack == Spec => []FetchInv
<1>1. Init => FetchInv
  BY FetchStart
<1>2. FetchInv /\ [UNCHANGED scn /\ Next]_vars => FetchInv'
  BY FetchStep
<1> QED  BY <1>1, <1>2, PTL DEF Spec

(* No article is ever being fetched twice at a time, and the tracker's count *)
(* is the number of its requests: with any number of servers, connections   *)
(* and pipelined commands, and whatever pauses, faults, late results and    *)
(* reloads happen.                                                          *)
THEOREM ArticlesHaveOneFetcher == Spec => []OneFetcher
<1>1. FetchInv => OneFetcher
  BY CountedOnce DEF FetchInv, OneFetcher, Tracked
<1> QED  BY <1>1, FetcherKeepsTrack, PTL

(* An article that dispatch skips because it is "emitted" is in somebody's  *)
(* hands, at every moment of every pause, drop, refusal and reload.         *)
THEOREM EmittedArticlesAreInHand == Spec => []EmittedIsInHand
<1>1. FetchInv => EmittedIsInHand
  BY DEF FetchInv
<1> QED  BY <1>1, FetcherKeepsTrack, PTL

(* An article is given up only after as many servers as the options of the  *)
(* pass ask for have themselves refused it.                                 *)
THEOREM GivingUpIsEarned == Spec => []GiveUpIsEarned
<1>1. FetchInv => GiveUpIsEarned
  BY DEF FetchInv, GiveUpIsEarned, GivenUp, Tracked
<1> QED  BY <1>1, FetcherKeepsTrack, PTL
=============================================================================
