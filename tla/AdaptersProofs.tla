--------------------------- MODULE AdaptersProofs ---------------------------
(***************************************************************************)
(* Every driver of an adaptor implements AccessContract, for any number of *)
(* accesses, pieces and refusals.  Real time transfer keeps the order of   *)
(* characters, and all unless an access fails, for rings of every size.    *)
(***************************************************************************)
EXTENDS Adapters, RttPoll, TLAPS

Kinds == {"packet", "request", "register", "setup", "block", "single", "transfer", "data"}
Request == [kind : Kinds, piece : Nat]
Pieced == [Pieces -> Values \cup {"not yet", "turned away", "spoilt"}]
Ended == {"none", "done", "fault", "exception", "exit"}

AdTypes ==
    /\ adaptor \in Adaptors
    /\ access \in Accesses \cup {NoCall}
    /\ access # NoCall => access.adaptor = adaptor
    /\ todo \in Seq(Request)
    /\ answer # "none" => todo # <<>>
    /\ todo # <<>> => access # NoCall
    /\ target \in [Pieces -> Values]
    /\ moved \in Pieced /\ got \in Pieced
    /\ result \in [how : Ended, data : Pieced]
    /\ answering \in BOOLEAN

\* Requests of the access a: only a set-up, and the read of RDBUFF behind a write,
\* move no piece of it.
Legal(a, c) ==
    /\ c.piece <= Size(a) /\ (c.piece # 0 => Whole(a, c))
    /\ a.adaptor \in RemoteProbes => c.piece # 0 /\ (a.adaptor = "remote_v3" => ~Misfit(a, c))
    /\ a.adaptor \in StLinks => c.piece # 0
    /\ a.adaptor \in CmsisDaps => (c.piece = 0 <=> c.kind = "setup" \/ (c.kind = "register" /\ ~Raw(a)))
    /\ a.adaptor \in CmsisDaps /\ c.kind = "register" /\ ~Raw(a) => Writes(a)
    /\ a.adaptor = "jlink" => c.kind \in {"setup", "data"}

\* A request that is made again after a recovery is the first.
Ahead(p) == \E i \in 1..Len(todo) : todo[i].piece = p
FirstKinds == {"setup", "single"}
First ==
    /\ \A i \in 2..Len(todo) : todo[i].kind \notin FirstKinds
    /\ adaptor \in CmsisDaps /\ todo # <<>> /\ Head(todo).kind \in FirstKinds =>
         \A p \in 1..Size(access) : Ahead(p)

\* What the current request came to, until the driver looks at the answer.
Answered ==
    answer # "none" /\ Head(todo).piece # 0 =>
        \/ moved[Head(todo).piece] = "spoilt"
        \/ answer = "ok" /\ moved[Head(todo).piece] = target[Head(todo).piece]
        \/ answer # "ok" /\ moved[Head(todo).piece] = "turned away"

\* The answers that come from an adaptor that answers.
Answers ==
    answer # "none" =>
        /\ answer \in {"ok", "parameter", "exception"} \cup Troubles
        /\ adaptor = "remote_v3" => answer \in {"ok", "fault", "exception"}
        /\ adaptor \notin RemoteProbes => answer \notin {"parameter", "exception"}

\* A piece behind the driver was moved, or its loss will not be told.
Unsaid(p) == moved[p] = "spoilt" \/ (moved[p] = "turned away" /\ Quiet(access))
Settled(p) ==
    \/ moved[p] \in Values /\ (~Writes(access) => got[p] = moved[p])
    \/ Unsaid(p)

\* What the driver has of the access: all pieces are moved or ahead, or the driver
\* has given up with a fault, or without one if that goes unsaid.
Covered ==
    \/ dpfault # "ok"
    \/ todo = <<>> /\ \E p \in 1..Size(access) : Unsaid(p)
    \/ \A p \in 1..Size(access) : Ahead(p) \/ Settled(p)

\* The caller's buffer beyond the access, or for a write.
Beyond ==
    /\ \A p \in Pieces : p > Size(access) => moved[p] = "not yet" /\ got[p] = "not yet"

IInv ==
    /\ AdTypes
    /\ \A i \in 1..Len(todo) : Legal(access, todo[i])
    /\ First
    /\ answering => Answered /\ Answers
    /\ answering /\ access # NoCall => Covered /\ Beyond

---------------------------------------------------------------------------
(* The requests of an access.                                              *)

LEMMA KnownAccess ==
    ASSUME NEW a \in Accesses
    PROVE  /\ a.adaptor \in Adaptors /\ a # NoCall
           /\ MaxPieces \in Nat /\ Size(a) \in Nat /\ 1 <= Size(a) /\ Size(a) <= MaxPieces
<1>1. a.adaptor \in Adaptors /\ Size(a) \in Pieces /\ MaxPieces \in Nat
  BY AccessAssumption, Zenon
<1>2. a # NoCall
  BY <1>1 DEF Adaptors, RemoteProbes, StLinks, CmsisDaps, NoCall
<1> QED BY <1>1, <1>2 DEF Pieces

LEMMA RequestSeq ==
    ASSUME NEW kind \in Kinds, NEW n \in Nat
    PROVE  /\ Requests(kind, n) \in Seq(Request) /\ Len(Requests(kind, n)) = n
           /\ \A p \in 1..n : Requests(kind, n)[p] = [kind |-> kind, piece |-> p]
BY DEF Requests, Request

\* What the requests of an access must be like, whichever driver makes them.
Proper(a, s) ==
    /\ s \in Seq(Request)
    /\ \A i \in 1..Len(s) : Legal(a, s[i])
    /\ \A i \in 2..Len(s) : s[i].kind \notin FirstKinds
    /\ \A p \in 1..Size(a) : \E i \in 1..Len(s) : s[i].piece = p

LEMMA RemoteProper ==
    ASSUME NEW a \in Accesses, a.adaptor \in RemoteProbes
    PROVE  Proper(a, remote_requests(a))
<1> DEFINE n == Size(a)
           s == Requests("packet", n)
<1>1. n \in Nat /\ 1 <= n
  BY KnownAccess, Zenon
<1> HIDE DEF n
<1>2. s \in Seq(Request) /\ Len(s) = n /\ \A p \in 1..n : s[p] = [kind |-> "packet", piece |-> p]
  BY <1>1, RequestSeq, Zenon DEF Kinds
<1>3. \A p \in 1..n : a.adaptor = "remote_v3" => ~Misfit(a, [kind |-> "packet", piece |-> p])
  BY AccessAssumption DEF Misfit, Block, n
<1> HIDE DEF s
<1>4. \A i \in 1..n : Legal(a, s[i])
  BY <1>1, <1>2, <1>3 DEF Legal, Whole, RemoteProbes, StLinks, CmsisDaps, n
<1>5. Proper(a, s)
  BY <1>1, <1>2, <1>4 DEF Proper, FirstKinds, n
<1> QED BY <1>5, Zenon DEF remote_requests, s, n

LEMMA StLinkProper ==
    ASSUME NEW a \in Accesses, a.adaptor \in StLinks
    PROVE  Proper(a, stlink_requests(a))
<1> DEFINE n == Size(a)
           s == Requests("request", n)
<1>1. n \in Nat /\ 1 <= n
  BY KnownAccess, Zenon
<1>2. stlink_requests(a) = s
  BY AccessAssumption, Zenon DEF stlink_requests
<1> HIDE DEF n
<1>3. s \in Seq(Request) /\ Len(s) = n /\ \A p \in 1..n : s[p] = [kind |-> "request", piece |-> p]
  BY <1>1, RequestSeq, Zenon DEF Kinds
<1> HIDE DEF s
<1>4. \A i \in 1..n : Legal(a, s[i])
  BY <1>1, <1>3 DEF Legal, Whole, RemoteProbes, StLinks, CmsisDaps, n
<1> QED BY <1>1, <1>2, <1>3, <1>4 DEF Proper, FirstKinds, n

LEMMA Joined ==
    ASSUME NEW f \in Request, NEW b \in Seq(Request), NEW l \in Seq(Request), NEW s, s = <<f>> \o b \o l
    PROVE  /\ s \in Seq(Request) /\ Len(s) = 1 + Len(b) + Len(l) /\ s[1] = f
           /\ \A p \in 1..Len(b) : s[p + 1] = b[p]
           /\ \A q \in 1..Len(l) : s[1 + Len(b) + q] = l[q]
<1>1. <<f>> \in Seq(Request) /\ Len(<<f>>) = 1 /\ <<f>>[1] = f
  OBVIOUS
<1>2. PICK t : t = <<f>> \o b
  BY Zenon
<1>3. /\ t \in Seq(Request) /\ Len(t) = 1 + Len(b) /\ t[1] = f
      /\ \A p \in 1..Len(b) : t[p + 1] = b[p]
  BY <1>1, <1>2
<1>4. s = t \o l
  BY <1>2, Zenon
<1> QED BY <1>3, <1>4, SMTT(60)

LEMMA BlocksProper ==
    ASSUME NEW a \in Accesses, a.adaptor \in CmsisDaps, ~Raw(a), NEW l \in Seq(Request),
           \A q \in 1..Len(l) : Writes(a) /\ l[q] = [kind |-> "register", piece |-> 0]
    PROVE  Proper(a, <<[kind |-> "setup", piece |-> 0]>> \o Requests("block", Size(a)) \o l)
<1>1. PICK n : n = Size(a) /\ n \in Nat /\ 1 <= n
  BY KnownAccess, Zenon
<1>2. PICK b : b = Requests("block", n)
  BY Zenon
<1>3. b \in Seq(Request) /\ Len(b) = n /\ \A p \in 1..n : b[p] = [kind |-> "block", piece |-> p]
  <2>1. "block" \in Kinds
    BY Zenon DEF Kinds
  <2> QED BY <1>1, <1>2, <2>1, RequestSeq, Zenon
<1>4. PICK f : f = [kind |-> "setup", piece |-> 0]
  BY Zenon
<1>5. f \in Request
  BY <1>4, Zenon DEF Request, Kinds
<1>6. PICK s : s = <<f>> \o b \o l
  BY Zenon
<1>7. /\ s \in Seq(Request) /\ Len(s) = 1 + n + Len(l) /\ s[1] = f
      /\ \A p \in 1..n : s[p + 1] = b[p]
      /\ \A q \in 1..Len(l) : s[1 + n + q] = l[q]
  <2>1. b \in Seq(Request) /\ Len(b) = n
    BY <1>3, Zenon
  <2>2. /\ s \in Seq(Request) /\ Len(s) = 1 + Len(b) + Len(l) /\ s[1] = f
        /\ \A p \in 1..Len(b) : s[p + 1] = b[p]
        /\ \A q \in 1..Len(l) : s[1 + Len(b) + q] = l[q]
    BY <1>5, <1>6, <2>1, Joined, SMTT(60)
  <2> QED BY <2>1, <2>2, Zenon
<1>8. \A p \in 1..n : Whole(a, [kind |-> "block", piece |-> p])
  BY <1>1, AccessAssumption, Zenon DEF Block
<1>9. Legal(a, f) /\ f.piece = 0
  BY <1>1, <1>4 DEF Legal, RemoteProbes, StLinks, CmsisDaps
<1>10. \A p \in 1..n : Legal(a, b[p]) /\ b[p].kind \notin FirstKinds /\ b[p].piece = p
  BY <1>1, <1>3, <1>8 DEF Legal, RemoteProbes, StLinks, CmsisDaps, FirstKinds
<1>11. \A q \in 1..Len(l) : Legal(a, l[q]) /\ l[q].kind \notin FirstKinds
  BY <1>1 DEF Legal, RemoteProbes, StLinks, CmsisDaps, FirstKinds
<1>12. \A i \in 1..Len(s) : Legal(a, s[i]) /\ (i # 1 => s[i].kind \notin FirstKinds)
  <2> TAKE i \in 1..Len(s)
  <2>1. CASE i = 1
    BY <1>7, <1>9, <2>1, Zenon
  <2>2. CASE i # 1 /\ i <= n + 1
    <3>1. PICK p \in 1..n : i = p + 1
      BY <1>1, <2>2
    <3> QED BY <1>7, <1>10, <3>1, Zenon
  <2>3. CASE i > n + 1
    <3>1. i \in Nat /\ Len(l) \in Nat /\ i <= 1 + n + Len(l)
      BY <1>1, <1>7
    <3>2. i - (n + 1) \in 1..Len(l) /\ i = 1 + n + (i - (n + 1))
      BY <1>1, <2>3, <3>1
    <3> QED BY <1>7, <1>11, <3>2, ZenonT(60)
  <2> QED BY <1>1, <2>1, <2>2, <2>3
<1>13. \A p \in 1..n : p + 1 \in 1..Len(s) /\ s[p + 1].piece = p
  BY <1>1, <1>7, <1>10, SMTT(30)
<1>14. Proper(a, s)
  <2>1. s \in Seq(Request)
    BY <1>7, Zenon
  <2>2. \A i \in 1..Len(s) : Legal(a, s[i])
    BY <1>12, Zenon
  <2>3. \A i \in 2..Len(s) : s[i].kind \notin FirstKinds
    <3>1. Len(s) \in Nat
      BY <2>1
    <3> QED BY <1>12, <3>1
  <2>4. \A p \in 1..Size(a) : \E i \in 1..Len(s) : s[i].piece = p
    BY <1>1, <1>13, Zenon
  <2> QED BY <2>1, <2>2, <2>3, <2>4, Zenon DEF Proper
<1> QED BY <1>1, <1>2, <1>4, <1>6, <1>14, Zenon

LEMMA OneProper ==
    ASSUME NEW a \in Accesses, a.adaptor \in CmsisDaps, Size(a) = 1,
           NEW kind \in {"register", "single", "transfer"}, kind = "register" => Raw(a)
    PROVE  Proper(a, Requests(kind, 1))
<1>1. PICK s : s = Requests(kind, 1)
  BY Zenon
<1>2. kind \in Kinds /\ 1 \in Nat /\ 1 \in 1..1
  BY DEF Kinds
<1>3. s \in Seq(Request) /\ Len(s) = 1 /\ s[1] = [kind |-> kind, piece |-> 1]
  BY <1>1, <1>2, RequestSeq, Zenon
<1>4. Legal(a, s[1])
  BY <1>3 DEF Legal, Whole, RemoteProbes, StLinks, CmsisDaps
<1> QED BY <1>1, <1>3, <1>4 DEF Proper

LEMMA SingleTransfer ==
    ASSUME NEW a \in Accesses, a.adaptor \in CmsisDaps, ToMemory(a), a.bytes = 2^a.align
    PROVE  Size(a) = 1
<1>1. a.align \in 0..3
  BY AccessAssumption, Zenon
<1>2. PICK w : w = 2^a.align
  BY Zenon
<1>3. w \in {1, 2, 4, 8}
  <2>1. 2^0 = 1 /\ 2^1 = 2 /\ 2^2 = 4 /\ 2^3 = 8
    OBVIOUS
  <2>2. a.align = 0 \/ a.align = 1 \/ a.align = 2 \/ a.align = 3
    BY <1>1
  <2> QED BY <1>2, <2>1, <2>2, Zenon
<1>4. BlockSize(a) = 15 * w
  BY <1>2 DEF BlockSize, dap_transfer_length, CmsisDaps, StLinks
<1>5. Size(a) = (w + 15 * w - 1) \div (15 * w)
  BY <1>2, <1>4, Zenon DEF Size
<1> QED BY <1>3, <1>5

LEMMA DapProper ==
    ASSUME NEW a \in Accesses, a.adaptor \in CmsisDaps
    PROVE  Proper(a, dap_requests(a))
<1>1. CASE Raw(a)
  <2>1. Size(a) = 1
    BY <1>1, Zenon DEF Size, Raw, ToMemory
  <2>2. dap_requests(a) = Requests("register", 1)
    BY <1>1, Zenon DEF dap_requests, Raw, ToMemory
  <2> QED BY <1>1, <2>1, <2>2, OneProper, Zenon
<1>2. CASE ~Raw(a) /\ ~ToMemory(a)
  <2>1. Size(a) = 1
    BY <1>2, Zenon DEF Size
  <2>2. dap_requests(a) = Requests("transfer", 1)
    BY <1>2, Zenon DEF dap_requests
  <2> QED BY <2>1, <2>2, OneProper, Zenon
<1>3. CASE ~Raw(a) /\ ToMemory(a) /\ a.bytes = 2^a.align
  <2>1. dap_requests(a) = Requests("single", 1)
    BY <1>3, Zenon DEF dap_requests
  <2>2. Size(a) = 1
    BY <1>3, SingleTransfer, Zenon
  <2> QED BY <2>1, <2>2, OneProper, Zenon
<1>4. CASE ~Raw(a) /\ ToMemory(a) /\ a.bytes # 2^a.align
  <2> DEFINE l == IF Writes(a) THEN <<[kind |-> "register", piece |-> 0]>> ELSE <<>>
  <2>1. dap_requests(a) = <<[kind |-> "setup", piece |-> 0]>> \o Requests("block", Size(a)) \o l
    BY <1>4, Zenon DEF dap_requests
  <2>2. /\ l \in Seq(Request)
        /\ \A q \in 1..Len(l) : Writes(a) /\ l[q] = [kind |-> "register", piece |-> 0]
    <3>1. CASE Writes(a)
      BY <3>1 DEF Request, Kinds
    <3>2. CASE ~Writes(a)
      BY <3>2
    <3> QED BY <3>1, <3>2, Zenon
  <2> HIDE DEF l
  <2> QED BY <1>4, <2>1, <2>2, BlocksProper, Zenon
<1> QED BY <1>1, <1>2, <1>3, <1>4, Zenon

LEMMA JlinkProper ==
    ASSUME NEW a \in Accesses, a.adaptor = "jlink"
    PROVE  (jlink_requests(a) = <<>> /\ dpfault # "ok") \/ Proper(a, jlink_requests(a))
<1>1. Size(a) = 1
  BY AccessAssumption, Zenon DEF Size, Raw, ToMemory
<1> DEFINE s == <<[kind |-> "setup", piece |-> 0], [kind |-> "data", piece |-> 1]>>
<1>2. s \in Seq(Request) /\ Len(s) = 2 /\ s[1] = [kind |-> "setup", piece |-> 0] /\ s[2] = [kind |-> "data", piece |-> 1]
  BY DEF Request, Kinds
<1> HIDE DEF s
<1>3. Legal(a, s[1]) /\ Legal(a, s[2])
  BY <1>1, <1>2 DEF Legal, Whole, RemoteProbes, StLinks, CmsisDaps
<1>4. Proper(a, s)
  BY <1>1, <1>2, <1>3 DEF Proper, FirstKinds
<1> QED BY <1>4, Zenon DEF jlink_requests, s

---------------------------------------------------------------------------
(* What the drivers make of an answer.  A driver that goes on has the      *)
(* piece or is quiet about it; one that stops keeps a fault or is quiet;   *)
(* only the first request of an access is made again after a recovery.     *)

Whats == {"next", "again", "recover", "stop", "raise", "exit"}

Fits(g) ==
    /\ g.what \in Whats
    /\ g.what = "recover" => adaptor \in CmsisDaps /\ Head(todo).kind \in FirstKinds
    /\ answering =>
         /\ g.what = "next" => g.fault = dpfault /\ (answer = "ok" \/ (Quiet(access) /\ Head(todo).piece # 0))
         /\ g.what = "again" => g.fault = dpfault \/ g.fault # "ok"
         /\ g.what = "stop" => g.fault # "ok" \/ (answer # "ok" /\ Quiet(access) /\ Head(todo).piece # 0)

LEMMA GoFields ==
    ASSUME NEW w, NEW f
    PROVE  Go(w, f).what = w /\ Go(w, f).fault = f
BY Zenon DEF Go

LEMMA RemoteFits ==
    ASSUME access.adaptor = adaptor, Legal(access, Head(todo)), adaptor \in RemoteProbes,
           answering => answer \in {"ok", "parameter", "exception"} \cup Troubles,
           answering /\ adaptor = "remote_v3" => answer \in {"ok", "fault", "exception"}
    PROVE  Fits(Verdict(answer))
<1>1. Head(todo).piece # 0
  BY Zenon DEF Legal
<1>2. CASE adaptor = "remote_v0"
  <2>1. Verdict(answer) = Go(IF answer = "ok" THEN "next" ELSE "stop", dpfault)
    BY <1>2, Zenon DEF Verdict, remote_v0_verdict, StLinks, CmsisDaps
  <2>2. Quiet(access)
    BY <1>2, Zenon DEF Quiet
  <2> QED BY <1>1, <2>1, <2>2, GoFields DEF Fits, Whats
<1>3. CASE adaptor = "remote_v1"
  <2>1. Verdict(answer) = Go(IF answer = "ok" THEN "next" ELSE "stop", dpfault)
    BY <1>3, Zenon DEF Verdict, remote_v1_verdict, StLinks, CmsisDaps
  <2>2. Quiet(access)
    BY <1>3, Zenon DEF Quiet
  <2> QED BY <1>1, <2>1, <2>2, GoFields DEF Fits, Whats
<1>4. CASE adaptor = "remote_v3"
  <2>1. Verdict(answer) = remote_v3_verdict(answer)
    BY <1>4, Zenon DEF Verdict, StLinks, CmsisDaps
  <2>2. /\ answer = "ok" => remote_v3_verdict(answer) = Go("next", dpfault)
        /\ answer = "fault" => remote_v3_verdict(answer) = Go("stop", "fault")
        /\ answer = "exception" => remote_v3_verdict(answer) = Go("raise", dpfault)
        /\ answer \notin {"ok", "fault", "exception"} => remote_v3_verdict(answer) = Go("stop", dpfault)
    BY Zenon DEF remote_v3_verdict
  <2> QED BY <1>4, <2>1, <2>2, GoFields DEF Fits, Whats
<1> QED BY <1>2, <1>3, <1>4, Zenon DEF RemoteProbes

LEMMA StLinkFits ==
    ASSUME access.adaptor = adaptor, Legal(access, Head(todo)), adaptor \in StLinks
    PROVE  Fits(Verdict(answer))
<1>1. Head(todo).piece # 0
  BY Zenon DEF Legal
<1> DEFINE res == stlink_retry(stlink_usb_error_check(answer))
<1>2. Verdict(answer) = stlink_verdict(answer)
  BY Zenon DEF Verdict, StLinks, CmsisDaps
<1>3. res = "OK" => answer = "ok"
  BY Zenon DEF stlink_retry, stlink_usb_error_check
<1>4. \/ res = "raises" /\ stlink_verdict(answer) = Go("raise", dpfault)
      \/ res = "OK" /\ stlink_verdict(answer) = Go("next", dpfault)
      \/ res = "WAIT" /\ stlink_verdict(answer) = Go("again", dpfault)
      \/ res # "OK" /\ stlink_verdict(answer) = stlink_gives_up(stlink_last(answer))
  BY Zenon DEF stlink_verdict
<1>5. answer = "ok" => res = "OK"
  BY Zenon DEF stlink_retry, stlink_usb_error_check
<1> HIDE DEF res
<1>6. CASE res # "OK" /\ stlink_verdict(answer) = stlink_gives_up(stlink_last(answer))
  <2>1. CASE Raw(access)
    <3>1. access.name # "mem_write"
      BY <2>1, Zenon DEF Raw
    <3>2. \/ stlink_gives_up(stlink_last(answer)) = Go("raise", dpfault)
          \/ stlink_gives_up(stlink_last(answer)) =
               Go("stop", IF stlink_last(answer) = "WAIT" THEN "wait" ELSE "fault")
      BY <2>1, <3>1, Zenon DEF stlink_gives_up
    <3> QED BY <1>2, <1>6, <3>2, GoFields DEF Fits, Whats
  <2>2. CASE ~Raw(access)
    <3>1. Quiet(access)
      BY <2>2, Zenon DEF Quiet
    <3>2. \/ stlink_gives_up(stlink_last(answer)) = Go("next", dpfault)
          \/ stlink_gives_up(stlink_last(answer)) = Go("stop", dpfault)
      BY <2>2, Zenon DEF stlink_gives_up
    <3> QED BY <1>1, <1>2, <1>5, <1>6, <3>1, <3>2, GoFields DEF Fits, Whats
  <2> QED BY <2>1, <2>2, Zenon
<1> QED BY <1>2, <1>3, <1>4, <1>6, GoFields DEF Fits, Whats

LEMMA DapFits ==
    ASSUME access.adaptor = adaptor, Legal(access, Head(todo)), adaptor \in CmsisDaps
    PROVE  Fits(Verdict(answer))
<1> DEFINE f == dap_fault(answer)
           kind == Head(todo).kind
<1>1. Verdict(answer) = dap_verdict(answer)
  BY Zenon DEF Verdict, StLinks, CmsisDaps
<1>2. answer # "ok" => f # "ok" \/ (Quiet(access) /\ Head(todo).piece # 0)
  BY Zenon DEF dap_fault, Legal, Quiet
<1>3. /\ answer = "timeout" => dap_verdict(answer) = Go("exit", dpfault)
      /\ answer = "ok" => dap_verdict(answer) = Go("next", dpfault)
  BY Zenon DEF dap_verdict
<1>4. CASE answer \notin {"timeout", "ok"} /\ kind = "register"
  <2>1. dap_verdict(answer) = Go(IF f = "wait" THEN "again" ELSE "stop", f)
    BY <1>4, Zenon DEF dap_verdict, dap_register
  <2> HIDE DEF f
  <2> QED BY <1>1, <1>2, <1>4, <2>1, GoFields DEF Fits, Whats
<1>5. ASSUME NEW otherwise \in {"stop", "exit"}, answer \notin {"timeout", "ok"}, kind \in FirstKinds,
             dap_verdict(answer) = perform_dap_transfer_recoverable(answer, otherwise)
      PROVE  Fits(Verdict(answer))
  <2>1. dap_verdict(answer) \in {Go("recover", "ok"), Go(otherwise, f)}
    BY <1>5, Zenon DEF perform_dap_transfer_recoverable
  <2> HIDE DEF f
  <2> QED BY <1>1, <1>2, <1>5, <2>1, GoFields DEF Fits, Whats
<1>6. CASE answer \notin {"timeout", "ok"} /\ kind = "single"
  <2>1. dap_verdict(answer) = perform_dap_transfer_recoverable(answer, "stop")
    BY <1>6, Zenon DEF dap_verdict
  <2> QED BY <1>5, <1>6, <2>1, Zenon DEF FirstKinds
<1>7. CASE answer \notin {"timeout", "ok"} /\ kind = "setup"
  <2>1. dap_verdict(answer) = perform_dap_transfer_recoverable(answer, "exit")
    BY <1>7, Zenon DEF dap_verdict
  <2> QED BY <1>5, <1>7, <2>1, Zenon DEF FirstKinds
<1>8. CASE answer \notin {"timeout", "ok"} /\ kind \notin {"register", "single", "setup"}
  <2>1. dap_verdict(answer) = Go("stop", f)
    BY <1>8, Zenon DEF dap_verdict
  <2> HIDE DEF f
  <2> QED BY <1>1, <1>2, <1>8, <2>1, GoFields DEF Fits, Whats
<1>9. CASE answer \in {"timeout", "ok"}
  BY <1>1, <1>3, <1>9, GoFields DEF Fits, Whats
<1> QED BY <1>4, <1>6, <1>7, <1>8, <1>9, Zenon

LEMMA JlinkFits ==
    ASSUME access.adaptor = adaptor, Legal(access, Head(todo)), adaptor = "jlink"
    PROVE  Fits(Verdict(answer))
<1>1. Verdict(answer) = jlink_verdict(answer)
  BY Zenon DEF Verdict, StLinks, CmsisDaps
<1>2. \/ answer = "ok" /\ jlink_verdict(answer) = Go("next", dpfault)
      \/ answer # "ok" /\ jlink_verdict(answer) \in
           {Go("raise", dpfault), Go("raise", "fault"), Go("again", dpfault), Go("stop", answer)}
  BY Zenon DEF jlink_verdict
<1> QED BY <1>1, <1>2, GoFields DEF Fits, Whats

LEMMA VerdictFits ==
    ASSUME IInv, answer # "none"
    PROVE  Fits(Verdict(answer))
<1>1. access # NoCall /\ access.adaptor = adaptor /\ adaptor \in Adaptors /\ todo # <<>> /\ todo \in Seq(Request)
  BY Zenon DEF IInv, AdTypes
<1>2. Legal(access, Head(todo))
  BY <1>1 DEF IInv
<1>3. answering => Answers
  BY Zenon DEF IInv
<1> QED BY <1>1, <1>2, <1>3, RemoteFits, StLinkFits, DapFits, JlinkFits, Zenon DEF Adaptors, Answers

---------------------------------------------------------------------------
(* The steps.                                                              *)

LEMMA UntouchedPieced == Untouched \in Pieced /\ \A p \in Pieces : Untouched[p] = "not yet"
BY Zenon DEF Untouched, Pieced

LEMMA InitInv ==
    ASSUME AdInit
    PROVE  IInv
<1>1. adaptor \in Adaptors
  BY AccessAssumption, Zenon DEF AdInit
<1>2. todo \in Seq(Request) /\ Len(todo) = 0 /\ \A i \in 1..Len(todo) : FALSE
  BY DEF AdInit
<1>3. result \in [how : Ended, data : Pieced]
  BY UntouchedPieced, Zenon DEF AdInit, Ended
<1>4. AdTypes
  BY <1>1, <1>2, <1>3, UntouchedPieced, Zenon DEF AdInit, AdTypes
<1> QED BY <1>2, <1>4 DEF AdInit, IInv, First, Answered, Answers

LEMMA CallInv ==
    ASSUME IInv, NEW a \in Accesses, Call(a)
    PROVE  IInv'
<1>1. /\ access' = a /\ a # NoCall /\ a.adaptor = adaptor
      /\ UNCHANGED <<adaptor, answer, dpfault, target, answering>>
      /\ got' = Untouched /\ moved' = Untouched
      /\ result' = [how |-> "none", data |-> Untouched]
  BY KnownAccess, Zenon DEF Call
<1>2. todo = <<>> /\ answer = "none"
  BY Zenon DEF IInv, AdTypes, Call
<1>3. (todo' = <<>> /\ dpfault # "ok") \/ Proper(a, todo')
  <2>1. CASE adaptor \in RemoteProbes
    <3>1. todo' = remote_requests(a)
      BY <2>1, Zenon DEF Call, RemoteProbes, StLinks, CmsisDaps
    <3> QED BY <1>1, <2>1, <3>1, RemoteProper, Zenon
  <2>2. CASE adaptor \in StLinks
    <3>1. todo' = stlink_requests(a)
      BY <2>2, Zenon DEF Call, RemoteProbes, StLinks, CmsisDaps
    <3> QED BY <1>1, <2>2, <3>1, StLinkProper, Zenon
  <2>3. CASE adaptor \in CmsisDaps
    <3>1. todo' = dap_requests(a)
      BY <2>3, Zenon DEF Call, RemoteProbes, StLinks, CmsisDaps
    <3> QED BY <1>1, <2>3, <3>1, DapProper, Zenon
  <2>4. CASE adaptor = "jlink"
    <3>1. todo' = jlink_requests(a)
      BY <2>4, Zenon DEF Call, RemoteProbes, StLinks, CmsisDaps
    <3> QED BY <1>1, <2>4, <3>1, JlinkProper, Zenon
  <2> QED BY <2>1, <2>2, <2>3, <2>4, Zenon DEF IInv, AdTypes, Adaptors
<1>4. /\ todo' \in Seq(Request)
      /\ \A i \in 1..Len(todo') : Legal(a, todo'[i])
      /\ \A i \in 2..Len(todo') : todo'[i].kind \notin FirstKinds
      /\ todo' # <<>> => \A p \in 1..Size(a) : \E i \in 1..Len(todo') : todo'[i].piece = p
      /\ todo' = <<>> => dpfault # "ok" \/ \A p \in 1..Size(a) : FALSE
  <2>1. CASE todo' = <<>> /\ dpfault # "ok"
    BY <2>1
  <2>2. CASE Proper(a, todo')
    BY <2>2 DEF Proper
  <2> QED BY <1>3, <2>1, <2>2, Zenon
<1>5. result' \in [how : Ended, data : Pieced]
  BY <1>1, UntouchedPieced, Zenon DEF Ended
<1>6. AdTypes'
  BY <1>1, <1>2, <1>4, <1>5, UntouchedPieced, Zenon DEF IInv, AdTypes
<1>7. First'
  BY <1>1, <1>4, Zenon DEF First, Ahead
<1>8. Covered' /\ Beyond'
  BY <1>1, <1>4, UntouchedPieced, Zenon DEF Covered, Ahead, Beyond
<1> QED BY <1>1, <1>2, <1>4, <1>6, <1>7, <1>8, Zenon DEF IInv, Answered, Answers

\* Steps that leave the request and its pieces as they are.
LEMMA SameRequests ==
    ASSUME IInv, UNCHANGED <<adaptor, access, todo, target, moved, got, result>>
    PROVE  /\ (\A i \in 1..Len(todo) : Legal(access, todo[i]))'
           /\ First' /\ (answering' \in BOOLEAN /\ (answer' # "none" => todo # <<>>) => AdTypes')
BY Zenon DEF IInv, First, Ahead, AdTypes

LEMMA SilenceInv ==
    ASSUME IInv, Silence
    PROVE  IInv'
<1>1. UNCHANGED <<adaptor, access, todo, target, moved, got, result>> /\ answering' = FALSE /\ todo # <<>>
  BY Zenon DEF Silence
<1> QED BY <1>1, SameRequests, Zenon DEF IInv

LEMMA WaitInv ==
    ASSUME IInv, TimePasses
    PROVE  IInv'
<1>1. UNCHANGED <<adaptor, access, todo, answer, dpfault, target, moved, got, result, answering>>
  BY Zenon DEF TimePasses
<1>2. AdTypes' /\ First' /\ (\A i \in 1..Len(todo) : Legal(access, todo[i]))'
  BY <1>1, SameRequests, Zenon DEF IInv, AdTypes
<1>3. (answering => Answered /\ Answers)'
  BY <1>1, Zenon DEF IInv, Answered, Answers
<1>4. (answering /\ access # NoCall => Covered /\ Beyond)'
  BY <1>1, Zenon DEF IInv, Covered, Beyond, Ahead, Settled, Unsaid
<1> QED BY <1>2, <1>3, <1>4, Zenon DEF IInv

LEMMA RecoverInv ==
    ASSUME IInv, Recover
    PROVE  IInv'
<1>1. UNCHANGED <<adaptor, access, todo, answer, target, moved, got, result, answering>> /\ access = NoCall
  BY Zenon DEF Recover
<1>2. AdTypes' /\ First' /\ (\A i \in 1..Len(todo) : Legal(access, todo[i]))'
  BY <1>1, SameRequests, Zenon DEF IInv, AdTypes
<1>3. (answering => Answered /\ Answers)'
  BY <1>1, Zenon DEF IInv, Answered, Answers
<1> QED BY <1>1, <1>2, <1>3, Zenon DEF IInv

LEMMA ReturnInv ==
    ASSUME IInv, Return
    PROVE  IInv'
<1>1. /\ UNCHANGED <<adaptor, todo, answer, target, moved, got, answering>> /\ access' = NoCall
      /\ todo = <<>> /\ answer = "none"
  BY Zenon DEF Return, IInv, AdTypes
<1>2. result' \in [how : Ended, data : Pieced]
  BY UntouchedPieced, Zenon DEF Return, IInv, AdTypes, Ended
<1>3. AdTypes'
  BY <1>1, <1>2, Zenon DEF IInv, AdTypes
<1>4. \A i \in 1..Len(todo') : FALSE
  BY <1>1
<1> QED BY <1>1, <1>3, <1>4, Zenon DEF IInv, First, Answered, Answers

\* The current request.
LEMMA Current ==
    ASSUME IInv, todo # <<>>
    PROVE  /\ access \in Accesses /\ access.adaptor = adaptor /\ adaptor \in Adaptors
           /\ Len(todo) \in Nat /\ 1 <= Len(todo) /\ todo[1] = Head(todo)
           /\ Legal(access, Head(todo)) /\ Head(todo).piece \in Nat
           /\ Head(todo).piece # 0 => Head(todo).piece \in 1..Size(access) /\ Head(todo).piece \in Pieces
<1>1. /\ access \in Accesses /\ access.adaptor = adaptor /\ adaptor \in Adaptors
      /\ todo \in Seq(Request)
  BY Zenon DEF IInv, AdTypes
<1>2. Len(todo) \in Nat /\ 1 <= Len(todo) /\ todo[1] = Head(todo) /\ Head(todo) \in Request
  BY <1>1
<1>3. Legal(access, Head(todo)) /\ Head(todo).piece \in Nat
  BY <1>2 DEF IInv, Request
<1> QED BY <1>1, <1>2, <1>3, KnownAccess DEF Legal, Pieces

\* What an answered request did: moved its piece, spoilt it, or turned it away.
Moves(p, v) ==
    /\ answer' = "ok"
    /\ target' = [target EXCEPT ![p] = v]
    /\ Writes(access) \/ v = target[p]
    /\ moved' = [moved EXCEPT ![p] = v]
Stops(p, v, how) ==
    /\ target' = target \/ (Writes(access) /\ target' = [target EXCEPT ![p] = v])
    /\ moved' = [moved EXCEPT ![p] = how]
Came(p, v) ==
    \/ Moves(p, v)
    \/ answer' # "ok" /\ Stops(p, v, "turned away")
    \/ Blind(access) /\ Stops(p, v, "spoilt")

LEMMA ExecuteDoes ==
    ASSUME IInv, Execute
    PROVE  /\ UNCHANGED <<adaptor, access, todo, dpfault, got, result, answering>>
           /\ todo # <<>>
           /\ answer' \in {"ok", "parameter", "exception"} \cup Troubles
           /\ adaptor = "remote_v3" => answer' \in {"ok", "fault", "exception"}
           /\ adaptor \notin RemoteProbes => answer' \notin {"parameter", "exception"}
           /\ Head(todo).piece = 0 => UNCHANGED <<target, moved>>
           /\ Head(todo).piece # 0 => \E v \in Values : Came(Head(todo).piece, v)
<1> DEFINE c == Head(todo)
           misfit == Remote /\ Misfit(access, c)
           alone == Remote /\ LeftAlone(access)
           kept == misfit \/ alone \/ Lost(access, c)
<1>1. UNCHANGED <<adaptor, access, todo, dpfault, got, result, answering>> /\ todo # <<>>
  BY Zenon DEF Execute
<1>2. Legal(access, c) /\ access.adaptor = adaptor /\ adaptor \in Adaptors
      /\ (c.piece # 0 => c.piece \in Pieces)
  BY <1>1, Current, Zenon
<1>3. PICK s \in Outcomes(access), v \in Values :
        /\ probefault' \in IF Remote /\ ~misfit /\ ~alone THEN ProbeFaults(s) ELSE {probefault}
        /\ answer' = CASE misfit -> "parameter"
                       [] Remote /\ ~misfit -> remote_adiv5_respond(IF alone THEN "ok" ELSE s, probefault')
                       [] OTHER -> s
        /\ IF c.piece = 0 \/ ~Whole(access, c) THEN UNCHANGED <<target, moved>>
           ELSE LET reached == ~kept /\ s \in Unseen
                IN /\ target' = IF reached /\ Writes(access)
                                THEN [target EXCEPT ![c.piece] = v] ELSE target
                   /\ moved' = [moved EXCEPT ![c.piece] =
                                  IF Lost(access, c) \/ (reached /\ s # "ok") THEN "spoilt"
                                  ELSE IF reached /\ answer' = "ok" THEN target'[c.piece]
                                  ELSE "turned away"]
  BY Zenon DEF Execute
<1>4. /\ s \in {"ok", "bus error"} \cup Troubles
      /\ s = "bus error" => Remote /\ ~Raw(access)
  BY Zenon DEF Outcomes, Troubles
<1>5. \A status, fault : /\ remote_adiv5_respond(status, fault) \in {"exception", "fault", "ok"}
                         /\ remote_adiv5_respond(status, fault) = "ok" => status # "garbled" /\ fault = "ok"
  BY Zenon DEF remote_adiv5_respond
<1>6. /\ misfit => answer' = "parameter"
      /\ Remote /\ ~misfit => answer' = remote_adiv5_respond(IF alone THEN "ok" ELSE s, probefault')
      /\ ~Remote => answer' = s
  BY <1>3, Zenon
<1>7. adaptor = "remote_v3" => ~misfit
  BY <1>2, Zenon DEF Legal, RemoteProbes
<1>8. /\ answer' \in {"ok", "parameter", "exception"} \cup Troubles
      /\ adaptor = "remote_v3" => answer' \in {"ok", "fault", "exception"}
      /\ adaptor \notin RemoteProbes => answer' \notin {"parameter", "exception"}
  <2>1. CASE misfit
    BY <1>6, <1>7, <2>1, Zenon DEF Remote
  <2>2. CASE Remote /\ ~misfit
    <3>1. answer' \in {"exception", "fault", "ok"}
      BY <1>5, <1>6, <2>2
    <3>2. adaptor \in RemoteProbes
      BY <2>2, Zenon DEF Remote
    <3> HIDE DEF misfit, alone, kept
    <3> QED BY <3>1, <3>2, Zenon DEF Troubles
  <2>3. CASE ~Remote
    BY <1>4, <1>6, <2>3, Zenon DEF Troubles, RemoteProbes, Remote
  <2> QED BY <2>1, <2>2, <2>3, Zenon
<1>9. answer' = "ok" => ~misfit /\ ~alone /\ s \in Unseen
  <2>1. CASE misfit
    BY <1>6, <2>1, Zenon
  <2>2. CASE Remote /\ ~misfit
    <3>1. answer' = "ok" => probefault' = "ok" /\ (~alone => s # "garbled")
      BY <1>5, <1>6, <2>2, Zenon
    <3>2. alone => probefault' = probefault /\ probefault # "ok"
      BY <1>3, Zenon DEF LeftAlone
    <3>3. ~alone /\ s \notin Unseen /\ s # "garbled" => probefault' = s
      BY <1>3, <2>2, Zenon DEF ProbeFaults
    <3> HIDE DEF misfit, alone, kept
    <3> QED BY <2>2, <3>1, <3>2, <3>3, Zenon DEF Unseen
  <2>3. CASE ~Remote
    BY <1>6, <2>3, Zenon DEF Unseen
  <2> QED BY <2>1, <2>2, <2>3, Zenon
<1>10. c.piece = 0 => UNCHANGED <<target, moved>>
  BY <1>3, Zenon
<1>11. ASSUME c.piece # 0
       PROVE  \E w \in Values : Came(c.piece, w)
  <2>1. c.piece \in Pieces /\ Whole(access, c)
    BY <1>2, <1>11, Zenon DEF Legal
  <2>2. target \in [Pieces -> Values] /\ moved \in Pieced
    BY Zenon DEF IInv, AdTypes
  <2>3. PICK reached : reached = (~kept /\ s \in Unseen)
    BY Zenon
  <2>4. PICK lost : lost = Lost(access, c)
    BY Zenon
  <2>5. lost \/ (reached /\ s # "ok") => Blind(access)
    <3>1. lost => Blind(access)
      BY <2>4, Zenon DEF Lost, Blind
    <3>2. reached /\ s # "ok" => s = "bus error"
      BY <2>3, Zenon DEF Unseen
    <3> HIDE DEF misfit, alone, kept, c
    <3> QED BY <1>2, <1>4, <3>1, <3>2, Zenon DEF Blind, Remote
  <2>6. /\ target' = IF reached /\ Writes(access) THEN [target EXCEPT ![c.piece] = v] ELSE target
        /\ moved' = [moved EXCEPT ![c.piece] =
                       IF lost \/ (reached /\ s # "ok") THEN "spoilt"
                       ELSE IF reached /\ answer' = "ok" THEN target'[c.piece] ELSE "turned away"]
    BY <1>3, <1>11, <2>1, <2>3, <2>4, Zenon
  <2>7. answer' = "ok" => lost \/ reached
    BY <1>9, <2>3, <2>4, Zenon
  <2> HIDE DEF c, misfit, alone, kept
  <2>8. CASE lost \/ (reached /\ s # "ok")
    <3>1. moved' = [moved EXCEPT ![c.piece] = "spoilt"]
      BY <2>6, <2>8, Zenon
    <3>2. target' = target \/ (Writes(access) /\ target' = [target EXCEPT ![c.piece] = v])
      BY <2>6, Zenon
    <3> QED BY <2>5, <2>8, <3>1, <3>2, Zenon DEF Came, Stops
  <2>9. CASE ~(lost \/ (reached /\ s # "ok")) /\ answer' = "ok" /\ Writes(access)
    <3>1. target' = [target EXCEPT ![c.piece] = v] /\ moved' = [moved EXCEPT ![c.piece] = target'[c.piece]]
      BY <2>6, <2>7, <2>9, Zenon
    <3>2. target'[c.piece] = v
      BY <2>1, <2>2, <3>1, Zenon
    <3> QED BY <2>9, <3>1, <3>2, Zenon DEF Came, Moves
  <2>10. CASE ~(lost \/ (reached /\ s # "ok")) /\ answer' = "ok" /\ ~Writes(access)
    <3>1. target' = target /\ moved' = [moved EXCEPT ![c.piece] = target[c.piece]]
      BY <2>6, <2>7, <2>10, Zenon
    <3>2. target[c.piece] \in Values /\ target = [target EXCEPT ![c.piece] = target[c.piece]]
      BY <2>1, <2>2, Zenon
    <3> QED BY <2>10, <3>1, <3>2, Zenon DEF Came, Moves
  <2>11. CASE ~(lost \/ (reached /\ s # "ok")) /\ answer' # "ok"
    <3>1. moved' = [moved EXCEPT ![c.piece] = "turned away"]
      BY <2>6, <2>11, Zenon
    <3>2. target' = target \/ (Writes(access) /\ target' = [target EXCEPT ![c.piece] = v])
      BY <2>6, Zenon
    <3> QED BY <2>11, <3>1, <3>2, Zenon DEF Came, Stops
  <2> QED BY <2>8, <2>9, <2>10, <2>11, Zenon
<1> QED BY <1>1, <1>8, <1>10, <1>11, Zenon

LEMMA ExecuteInv ==
    ASSUME IInv, Execute
    PROVE  IInv'
<1> DEFINE p == Head(todo).piece
<1>1. /\ UNCHANGED <<adaptor, access, todo, dpfault, got, result, answering>>
      /\ todo # <<>> /\ answer' # "none" /\ Answers'
  BY ExecuteDoes, Zenon DEF Answers, Troubles
<1>2. /\ Len(todo) \in Nat /\ 1 <= Len(todo) /\ todo[1] = Head(todo) /\ access \in Accesses
      /\ p \in Nat /\ (p # 0 => p \in Pieces /\ p \in 1..Size(access))
  BY <1>1, Current, Zenon
<1>3. Ahead(p)
  BY <1>2 DEF Ahead
<1>4. /\ target' \in [Pieces -> Values] /\ moved' \in Pieced
      /\ \A q \in Pieces : q # p => moved'[q] = moved[q]
      /\ p # 0 => \/ moved'[p] = "spoilt"
                  \/ answer' = "ok" /\ moved'[p] = target'[p]
                  \/ answer' # "ok" /\ moved'[p] = "turned away"
  <2>1. target \in [Pieces -> Values] /\ moved \in Pieced
    BY Zenon DEF IInv, AdTypes
  <2> HIDE DEF p
  <2>2. CASE p = 0
    BY <2>1, <2>2, ExecuteDoes, Zenon DEF p
  <2>3. CASE p # 0
    <3>1. PICK v \in Values : Came(p, v)
      BY <2>3, ExecuteDoes, Zenon DEF p
    <3>2. CASE Moves(p, v)
      BY <1>2, <2>1, <2>3, <3>2, ZenonT(60) DEF Pieced, Moves
    <3>3. CASE answer' # "ok" /\ Stops(p, v, "turned away")
      BY <1>2, <2>1, <2>3, <3>3, ZenonT(60) DEF Pieced, Stops
    <3>4. CASE Stops(p, v, "spoilt")
      BY <1>2, <2>1, <2>3, <3>4, ZenonT(60) DEF Pieced, Stops
    <3> QED BY <3>1, <3>2, <3>3, <3>4, Zenon DEF Came
  <2> QED BY <2>2, <2>3, Zenon
<1>5. AdTypes'
  BY <1>1, <1>4, Zenon DEF IInv, AdTypes
<1>6. First' /\ (\A i \in 1..Len(todo) : Legal(access, todo[i]))'
  BY <1>1, Zenon DEF IInv, First, Ahead
<1>7. Answered'
  BY <1>1, <1>4, Zenon DEF Answered
<1>8. ASSUME answering
      PROVE  Covered' /\ Beyond'
  <2>1. Covered /\ Beyond
    BY <1>1, <1>8, Zenon DEF IInv, AdTypes
  <2>2. \A q \in 1..Size(access) : q \in Pieces
    BY <1>2, KnownAccess DEF Pieces
  <2> HIDE DEF p
  <2>3. \A q \in 1..Size(access) : Ahead(q) \/ Settled(q) => (Ahead(q) \/ Settled(q))'
    <3> SUFFICES ASSUME NEW q \in 1..Size(access), Ahead(q) \/ Settled(q)
                 PROVE  (Ahead(q) \/ Settled(q))'
      BY Zenon
    <3>1. CASE Ahead(q)
      BY <1>1, <3>1, Zenon DEF Ahead
    <3>2. CASE Settled(q) /\ q # p
      BY <1>1, <1>4, <2>2, <3>2, Zenon DEF Settled, Unsaid
    <3>3. CASE q = p
      BY <1>1, <1>3, <3>3, Zenon DEF Ahead
    <3> QED BY <3>1, <3>2, <3>3, Zenon
  <2>4. Covered'
    BY <1>1, <2>1, <2>3, Zenon DEF Covered
  <2>5. \A q \in Pieces : q > Size(access) => q # p
    BY <1>2, KnownAccess DEF Pieces
  <2>6. Beyond'
    BY <1>1, <1>4, <2>1, <2>5, Zenon DEF Beyond
  <2> QED BY <2>4, <2>6, Zenon
<1> QED BY <1>1, <1>5, <1>6, <1>7, <1>8, Zenon DEF IInv

\* What a driver does when it looks at an answer.
LEMMA ReceiveDoes ==
    ASSUME IInv, Receive
    PROVE  LET g == Verdict(answer)
               p == Head(todo).piece
           IN /\ todo # <<>> /\ answer # "none" /\ answer' = "none"
              /\ Fits(g) /\ dpfault' = g.fault
              /\ UNCHANGED <<adaptor, target, moved, answering>>
              /\ todo' = CASE g.what = "next" -> Tail(todo)
                           [] g.what \in {"again", "recover"} -> todo
                           [] OTHER -> <<>>
              /\ \E v \in Values :
                    /\ got' = IF answer = "ok" /\ p # 0 /\ ~Writes(access) THEN [got EXCEPT ![p] = v] ELSE got
                    /\ answering /\ p # 0 /\ moved[p] # "spoilt" => v = target[p]
              /\ IF g.what \in {"raise", "exit"}
                 THEN /\ access' = NoCall
                      /\ result' = [result EXCEPT !.how = IF g.what = "exit" THEN "exit" ELSE "exception"]
                 ELSE access' = access /\ result' = result
<1>1. todo # <<>> /\ answer # "none"
  BY Zenon DEF Receive, IInv, AdTypes
<1>2. Fits(Verdict(answer))
  BY <1>1, VerdictFits, Zenon
<1>3. \E v \in Values :
         /\ got' = IF answer = "ok" /\ Head(todo).piece # 0 /\ ~Writes(access)
                   THEN [got EXCEPT ![Head(todo).piece] = v] ELSE got
         /\ answering /\ Head(todo).piece # 0 /\ moved[Head(todo).piece] # "spoilt" =>
               v = target[Head(todo).piece]
  BY Zenon DEF Receive
<1> QED BY <1>1, <1>2, <1>3, Zenon DEF Receive

LEMMA ReceiveInv ==
    ASSUME IInv, Receive
    PROVE  IInv'
<1>1. PICK g : g = Verdict(answer)
  BY Zenon
<1>2. PICK p : p = Head(todo).piece
  BY Zenon
<1>3. /\ todo # <<>> /\ answer # "none" /\ answer' = "none"
      /\ Fits(g) /\ dpfault' = g.fault
      /\ UNCHANGED <<adaptor, target, moved, answering>>
  BY <1>1, ReceiveDoes, Zenon
<1>4. /\ Len(todo) \in Nat /\ 1 <= Len(todo) /\ todo[1] = Head(todo) /\ access \in Accesses
      /\ p \in Nat /\ (p # 0 => p \in Pieces /\ p \in 1..Size(access))
  BY <1>2, <1>3, Current, Zenon
<1>5. PICK v \in Values :
         /\ got' = IF answer = "ok" /\ p # 0 /\ ~Writes(access) THEN [got EXCEPT ![p] = v] ELSE got
         /\ answering /\ p # 0 /\ moved[p] # "spoilt" => v = target[p]
  BY <1>2, ReceiveDoes, Zenon
<1>6. /\ g.what = "next" => todo' = Tail(todo)
      /\ g.what \in {"again", "recover"} => todo' = todo
      /\ g.what \in {"stop", "raise", "exit"} => todo' = <<>>
  BY <1>1, ReceiveDoes, Zenon
<1>7. /\ g.what \in {"raise", "exit"} => access' = NoCall
      /\ g.what \notin {"raise", "exit"} => access' = access
      /\ result' \in [how : Ended, data : Pieced]
  BY <1>1, ReceiveDoes, Zenon DEF IInv, AdTypes, Ended
<1>8. /\ got' \in Pieced
      /\ \A q \in Pieces : q # p => got'[q] = got[q]
      /\ answering /\ answer = "ok" /\ p # 0 /\ moved[p] # "spoilt" /\ ~Writes(access) => got'[p] = target[p]
  BY <1>4, <1>5, Zenon DEF IInv, AdTypes, Pieced
<1>9. g.what \in Whats /\ todo \in Seq(Request) /\ access # NoCall
  BY <1>3, Zenon DEF Fits, IInv, AdTypes
<1>10. /\ todo' \in Seq(Request)
       /\ \A i \in 1..Len(todo') : \E j \in 1..Len(todo) : todo'[i] = todo[j]
       /\ g.what = "next" => /\ \A i \in 1..Len(todo') : i + 1 \in 2..Len(todo) /\ todo'[i] = todo[i + 1]
                             /\ \A j \in 2..Len(todo) : j - 1 \in 1..Len(todo') /\ todo'[j - 1] = todo[j]
  <2>1. CASE g.what = "next"
    <3>1. todo' = Tail(todo)
      BY <1>6, <2>1, Zenon
    <3>2. /\ Tail(todo) \in Seq(Request) /\ Len(Tail(todo)) = Len(todo) - 1
          /\ \A i \in 1..(Len(todo) - 1) : Tail(todo)[i] = todo[i + 1]
      BY <1>3, <1>9
    <3>3. \A i \in 1..Len(todo') : i + 1 \in 2..Len(todo) /\ i + 1 \in 1..Len(todo) /\ todo'[i] = todo[i + 1]
      BY <1>4, <3>1, <3>2
    <3>4. \A j \in 2..Len(todo) : j - 1 \in 1..Len(todo') /\ (j - 1) + 1 = j
      BY <1>4, <3>1, <3>2
    <3> QED BY <3>1, <3>2, <3>3, <3>4, Zenon
  <2>2. CASE g.what \in {"again", "recover"}
    BY <1>6, <1>9, <2>2, Zenon
  <2>3. CASE g.what \in {"stop", "raise", "exit"}
    <3>1. todo' = <<>> /\ g.what # "next"
      BY <1>6, <2>3, Zenon
    <3>2. todo' \in Seq(Request) /\ \A i \in 1..Len(todo') : FALSE
      BY <3>1
    <3> QED BY <3>1, <3>2, Zenon
  <2> QED BY <1>9, <2>1, <2>2, <2>3, Zenon DEF Whats
<1>11. AdTypes'
  <2>1. todo' # <<>> => access' # NoCall
    BY <1>6, <1>7, <1>9, Zenon DEF Whats
  <2> QED BY <1>3, <1>7, <1>8, <1>10, <2>1, Zenon DEF IInv, AdTypes
<1>12. (\A i \in 1..Len(todo) : Legal(access, todo[i]))'
  <2>1. CASE g.what \in {"raise", "exit"}
    BY <1>6, <2>1
  <2>2. CASE g.what \notin {"raise", "exit"}
    BY <1>7, <1>10, <2>2, Zenon DEF IInv
  <2> QED BY <2>1, <2>2, Zenon
<1>13. First'
  <2>1. CASE g.what = "next"
    <3>1. \A i \in 1..Len(todo') : todo'[i].kind \notin FirstKinds
      BY <1>10, <2>1, Zenon DEF IInv, First
    <3>2. todo' # <<>> => Head(todo') = todo'[1] /\ 1 \in 1..Len(todo')
      BY <1>10
    <3>3. \A i \in 2..Len(todo') : i \in 1..Len(todo')
      BY <1>10
    <3> QED BY <3>1, <3>2, <3>3, Zenon DEF First
  <2>2. CASE g.what \in {"again", "recover"}
    BY <1>3, <1>6, <1>7, <2>2, Zenon DEF IInv, First, Ahead
  <2>3. CASE g.what \in {"stop", "raise", "exit"}
    <3>1. todo' = <<>> /\ \A i \in 2..Len(todo') : FALSE
      BY <1>6, <2>3
    <3> QED BY <3>1, Zenon DEF First
  <2> QED BY <1>9, <2>1, <2>2, <2>3, Zenon DEF Whats
<1>14. ASSUME answering, access' # NoCall
       PROVE  Covered' /\ Beyond'
  <2>1. /\ Covered /\ Beyond /\ access' = access /\ g.what \notin {"raise", "exit"}
        /\ p # 0 => \/ moved[p] = "spoilt"
                    \/ answer = "ok" /\ moved[p] = target[p]
                    \/ answer # "ok" /\ moved[p] = "turned away"
    BY <1>2, <1>3, <1>7, <1>9, <1>14, Zenon DEF IInv, Answered
  <2>2. \A q \in 1..Size(access) : q \in Pieces
    BY <1>4, KnownAccess DEF Pieces
  <2>3. \A q \in Pieces : q > Size(access) => q # p
    BY <1>4, KnownAccess DEF Pieces
  <2>4. Beyond'
    BY <1>3, <1>8, <2>1, <2>3, Zenon DEF Beyond
  <2>5. CASE g.what = "stop"
    <3>1. todo' = <<>>
      BY <1>6, <2>5, Zenon
    <3>2. dpfault' # "ok" \/ (p # 0 /\ Unsaid(p))
      BY <1>2, <1>3, <1>14, <2>1, <2>5, Zenon DEF Fits, Unsaid
    <3>3. Unsaid(p) => Unsaid(p)'
      BY <1>3, <2>1, Zenon DEF Unsaid
    <3> QED BY <1>3, <1>4, <2>1, <2>4, <3>1, <3>2, <3>3, Zenon DEF Covered
  <2>6. CASE g.what = "recover"
    <3>1. \A q \in 1..Size(access) : Ahead(q)
      BY <1>3, <2>6, Zenon DEF Fits, IInv, First
    <3>2. \A q \in 1..Size(access) : Ahead(q)'
      BY <1>6, <2>6, <3>1, Zenon DEF Ahead
    <3> QED BY <2>1, <2>4, <3>2, Zenon DEF Covered
  <2>7. CASE g.what = "again"
    <3>1. dpfault' = dpfault \/ dpfault' # "ok"
      BY <1>3, <1>14, <2>7, Zenon DEF Fits
    <3>2. todo' = todo
      BY <1>6, <2>7, Zenon
    <3>3. ASSUME NEW q \in 1..Size(access), Ahead(q) \/ Settled(q)
          PROVE  (Ahead(q) \/ Settled(q))'
      <4>1. CASE q = p
        BY <1>2, <1>4, <3>2, <4>1 DEF Ahead
      <4>2. CASE q # p
        BY <1>3, <1>8, <2>1, <2>2, <3>2, <3>3, <4>2, Zenon DEF Ahead, Settled, Unsaid
      <4> QED BY <4>1, <4>2, Zenon
    <3> QED BY <1>3, <2>1, <2>4, <3>1, <3>2, <3>3, Zenon DEF Covered
  <2>8. CASE g.what = "next"
    <3>1. dpfault' = dpfault /\ (answer = "ok" \/ (Quiet(access) /\ p # 0))
      BY <1>2, <1>3, <1>14, <2>8, Zenon DEF Fits
    <3>2. p # 0 => Settled(p)'
      <4>1. CASE answer = "ok"
        BY <1>3, <1>4, <1>8, <1>14, <2>1, <4>1, Zenon DEF Settled, Unsaid, IInv, AdTypes
      <4>2. CASE answer # "ok"
        BY <1>3, <2>1, <3>1, <4>2, Zenon DEF Settled, Unsaid
      <4> QED BY <4>1, <4>2, Zenon
    <3>3. ASSUME NEW q \in 1..Size(access), Ahead(q) \/ Settled(q)
          PROVE  (Ahead(q) \/ Settled(q))'
      <4>1. q # 0
        BY <1>4, KnownAccess
      <4>2. CASE q = p
        BY <3>2, <4>1, <4>2, Zenon
      <4>3. CASE q # p /\ Settled(q)
        BY <1>3, <1>8, <2>1, <2>2, <4>3, Zenon DEF Settled, Unsaid
      <4>4. CASE q # p /\ Ahead(q)
        <5>1. PICK j \in 1..Len(todo) : todo[j].piece = q
          BY <4>4, Zenon DEF Ahead
        <5>2. j \in 2..Len(todo)
          BY <1>2, <1>4, <4>4, <5>1
        <5>3. j - 1 \in 1..Len(todo') /\ todo'[j - 1].piece = q
          BY <1>10, <2>8, <5>1, <5>2, Zenon
        <5> QED BY <5>3, Zenon DEF Ahead
      <4> QED BY <3>3, <4>2, <4>3, <4>4, Zenon
    <3> QED BY <1>3, <2>1, <2>4, <3>1, <3>3, Zenon DEF Covered
  <2> QED BY <1>9, <2>1, <2>5, <2>6, <2>7, <2>8, Zenon DEF Whats
<1> QED BY <1>3, <1>11, <1>12, <1>13, <1>14, Zenon DEF IInv, Answered, Answers

LEMMA StepInv ==
    ASSUME IInv, [AdNext]_adVars
    PROVE  IInv'
<1>1. CASE UNCHANGED adVars
  BY <1>1, Zenon DEF adVars, IInv, AdTypes, First, Ahead, Answered, Answers, Covered, Settled, Unsaid, Beyond
<1> QED
  BY <1>1, CallInv, ExecuteInv, SilenceInv, WaitInv, ReceiveInv, ReturnInv, RecoverInv, Zenon DEF AdNext

---------------------------------------------------------------------------
(* The refinement.                                                         *)

\* The access of the contract, for a call a or for none.
Asked(a) == [writes |-> a # NoCall /\ Writes(a),
             quiet |-> a # NoCall /\ Quiet(a),
             blind |-> a # NoCall /\ Blind(a),
             size |-> IF a = NoCall THEN 0 ELSE Size(a)]

LEMMA NoneAsked == Asked(NoCall) = Promised!NoAccess
BY Zenon DEF Asked, Promised!NoAccess

LEMMA OneAsked ==
    ASSUME NEW a \in Accesses
    PROVE  /\ Asked(a) # Promised!NoAccess
           /\ (Asked(a).writes <=> Writes(a)) /\ (Asked(a).quiet <=> Quiet(a)) /\ (Asked(a).blind <=> Blind(a))
           /\ Asked(a).size = Size(a)
<1>1. a # NoCall /\ Size(a) # 0
  BY KnownAccess
<1>2. /\ (Asked(a).writes <=> Writes(a)) /\ (Asked(a).quiet <=> Quiet(a)) /\ (Asked(a).blind <=> Blind(a))
      /\ Asked(a).size = Size(a)
  BY <1>1, Zenon DEF Asked, Writes, Quiet, Blind
<1>3. Promised!NoAccess.size = 0
  BY Zenon DEF Promised!NoAccess
<1> QED BY <1>1, <1>2, <1>3, Zenon

LEMMA InitRefines ==
    ASSUME AdInit
    PROVE  Promised!ContractInit
<1>1. Asked(access) = Promised!NoAccess
  BY NoneAsked, Zenon DEF AdInit
<1> QED BY <1>1, Zenon DEF AdInit, Promised!ContractInit, Promised!NoResult, Promised!Untouched, Untouched, Asked

LEMMA CallRefines ==
    ASSUME IInv, NEW a \in Accesses, Call(a)
    PROVE  Promised!Ask
<1>1. Asked(access) = Promised!NoAccess
  BY NoneAsked, Zenon DEF Call
<1>2. Asked(access') # Promised!NoAccess
  BY OneAsked, Zenon DEF Call
<1> QED BY <1>1, <1>2, Zenon DEF Call, Promised!Ask, Promised!NoResult, Promised!Untouched, Untouched, Asked

LEMMA ExecuteRefines ==
    ASSUME IInv, Execute
    PROVE  \/ \E p \in Pieces : Promised!Take(p) \/ Promised!TurnAway(p)
           \/ UNCHANGED Promised!contractVars
<1>1. PICK p : p = Head(todo).piece
  BY Zenon
<1>2. UNCHANGED <<access, result, answering>> /\ todo # <<>>
  BY ExecuteDoes, Zenon
<1>3. access \in Accesses /\ (p # 0 => p \in Pieces /\ p \in 1..Size(access)) /\ Size(access) \in Nat
  BY <1>1, <1>2, Current, KnownAccess, Zenon
<1>4. /\ (Asked(access).writes <=> Writes(access)) /\ (Asked(access).blind <=> Blind(access))
      /\ Asked(access).size = Size(access) /\ Asked(access') = Asked(access)
  BY <1>2, <1>3, OneAsked, Zenon
<1>5. CASE p = 0
  BY <1>1, <1>2, <1>5, ExecuteDoes, Zenon DEF Promised!contractVars
<1>6. CASE p # 0
  <2>1. PICK v \in Values : Came(p, v)
    BY <1>1, <1>6, ExecuteDoes, Zenon
  <2>2. p <= Asked(access).size
    BY <1>3, <1>4, <1>6
  <2>3. CASE Moves(p, v)
    <3>1. Promised!Take(p)
      BY <1>2, <1>4, <2>2, <2>3, Zenon DEF Promised!Take, Asked, Moves
    <3> QED BY <1>3, <1>6, <3>1, Zenon
  <2>4. CASE Stops(p, v, "turned away")
    <3>1. Promised!TurnAway(p)
      BY <1>2, <1>4, <2>2, <2>4, Zenon DEF Promised!TurnAway, Asked, Stops
    <3> QED BY <1>3, <1>6, <3>1, Zenon
  <2>5. CASE Blind(access) /\ Stops(p, v, "spoilt")
    <3>1. Asked(access).blind
      BY <1>4, <2>5, Zenon
    <3>2. "spoilt" \in {"turned away"} \cup (IF Asked(access).blind THEN {"spoilt"} ELSE {})
      BY <3>1, Zenon
    <3>3. Promised!TurnAway(p)
      BY <1>2, <1>4, <2>2, <2>5, <3>2, Zenon DEF Promised!TurnAway, Asked, Stops
    <3> QED BY <1>3, <1>6, <3>3, Zenon
  <2> QED BY <2>1, <2>3, <2>4, <2>5, Zenon DEF Came
<1> QED BY <1>5, <1>6, Zenon

LEMMA ReceiveRefines ==
    ASSUME IInv, Receive
    PROVE  Promised!Tell \/ UNCHANGED Promised!contractVars
<1>1. PICK g : g = Verdict(answer)
  BY Zenon
<1>2. UNCHANGED <<target, moved, answering>> /\ todo # <<>>
  BY ReceiveDoes, Zenon
<1>3. CASE g.what \in {"raise", "exit"}
  <2>1. access' = NoCall /\ result'.how \in {"exception", "exit"}
    BY <1>1, <1>3, ReceiveDoes, Zenon DEF IInv, AdTypes
  <2>2. Asked(access') = Promised!NoAccess /\ Asked(access) # Promised!NoAccess
    BY <1>2, <2>1, NoneAsked, OneAsked, Current, Zenon
  <2>3. Promised!Tell
    BY <1>2, <2>1, <2>2, Zenon DEF Promised!Tell, Asked
  <2> QED BY <2>3, Zenon
<1>4. CASE g.what \notin {"raise", "exit"}
  <2>1. access' = access /\ result' = result
    BY <1>1, <1>4, ReceiveDoes, Zenon
  <2> QED BY <1>2, <2>1, Zenon DEF Promised!contractVars
<1> QED BY <1>3, <1>4, Zenon

LEMMA ReturnRefines ==
    ASSUME IInv, answering, Return
    PROVE  Promised!Finish \/ Promised!Tell \/ Promised!LeaveUnsaid
<1>1. /\ access \in Accesses /\ access # NoCall /\ access' = NoCall /\ todo = <<>>
      /\ UNCHANGED <<target, moved, answering>>
      /\ result' = [how |-> IF dpfault = "ok" THEN "done" ELSE "fault",
                    data |-> IF Writes(access) THEN Untouched ELSE got]
  BY Zenon DEF Return, IInv, AdTypes
<1>2. /\ Asked(access') = Promised!NoAccess /\ Asked(access) # Promised!NoAccess
      /\ (Asked(access).writes <=> Writes(access)) /\ (Asked(access).quiet <=> Quiet(access))
      /\ Asked(access).size = Size(access)
  BY <1>1, NoneAsked, OneAsked, Zenon
<1>3. CASE dpfault # "ok"
  BY <1>1, <1>2, <1>3, Zenon DEF Promised!Tell, Asked
<1>4. CASE dpfault = "ok" /\ \E p \in 1..Size(access) : Unsaid(p)
  BY <1>1, <1>2, <1>4, Zenon DEF Promised!LeaveUnsaid, Asked, Unsaid
<1>5. CASE dpfault = "ok" /\ ~(\E p \in 1..Size(access) : Unsaid(p))
  <2>1. \A i \in 1..Len(todo) : FALSE
    BY <1>1
  <2>2. \A p \in 1..Size(access) : moved[p] \in Values /\ (~Writes(access) => got[p] = moved[p])
    BY <1>1, <1>5, <2>1, Zenon DEF IInv, Covered, Ahead, Settled
  <2>3. ASSUME ~Writes(access)
        PROVE  got = moved
    <3>1. moved \in Pieced /\ got \in Pieced /\ Beyond
      BY <1>1, Zenon DEF IInv, AdTypes
    <3>2. ASSUME NEW p \in Pieces
          PROVE  got[p] = moved[p]
      <4>1. CASE p <= Size(access)
        <5>1. p \in 1..Size(access)
          BY <1>1, <4>1, KnownAccess DEF Pieces
        <5> QED BY <2>2, <2>3, <5>1, Zenon
      <4>2. CASE p > Size(access)
        BY <3>1, <4>2, Zenon DEF Beyond
      <4> QED BY <1>1, <4>1, <4>2, KnownAccess DEF Pieces
    <3>3. got = [p \in Pieces |-> got[p]] /\ moved = [p \in Pieces |-> moved[p]]
      BY <3>1, Zenon DEF Pieced
    <3> QED BY <3>2, <3>3, Zenon
  <2>4. result' = [how |-> "done", data |-> IF Asked(access).writes THEN Promised!Untouched ELSE moved]
    BY <1>1, <1>2, <1>5, <2>3, Zenon DEF Untouched, Promised!Untouched
  <2>5. \A p \in 1..Asked(access).size : moved[p] \in Values
    BY <1>2, <2>2, Zenon
  <2> QED BY <1>1, <1>2, <2>4, <2>5, Zenon DEF Promised!Finish, Asked
<1> QED BY <1>3, <1>4, <1>5, Zenon

LEMMA StepRefines ==
    ASSUME IInv, [AdNext]_adVars
    PROVE  [Promised!ContractNext]_Promised!contractVars
<1>1. CASE ~answering
  <2>1. answering' = FALSE
    BY <1>1, Zenon DEF IInv, AdTypes, AdNext, adVars, Call, Execute, Silence, TimePasses, Receive, Return, Recover
  <2> QED BY <2>1, SMTT(30) DEF Promised!ContractNext, Promised!GoSilent
<1>2. CASE answering
  <2>1. CASE \E a \in Accesses : Call(a)
    BY <2>1, CallRefines, Zenon DEF Promised!ContractNext
  <2>2. CASE Execute
    BY <2>2, ExecuteRefines, Zenon DEF Promised!ContractNext
  <2>3. CASE Silence
    BY <2>3, Zenon DEF Silence, Promised!ContractNext, Promised!GoSilent
  <2>4. CASE Receive
    BY <2>4, ReceiveRefines, Zenon DEF Promised!ContractNext
  <2>5. CASE Return
    BY <1>2, <2>5, ReturnRefines, Zenon DEF Promised!ContractNext
  <2>6. CASE TimePasses \/ Recover \/ UNCHANGED adVars
    BY <2>6, Zenon DEF TimePasses, Recover, adVars, Promised!contractVars
  <2> QED BY <2>1, <2>2, <2>3, <2>4, <2>5, <2>6, Zenon DEF AdNext
<1> QED BY <1>1, <1>2, Zenon DEF IInv, AdTypes

\* Every driver of platforms/hosted keeps the contract of an access, for any
\* set of accesses it allows, any number of pieces and any number of refusals: what
\* was not moved is a fault, an exception or the end of the program unless the
\* access is one of the Quiet ones, or it was acknowledged and spoilt unseen, which
\* only happens to the Blind ones.
THEOREM DriversKeepContract == AdSpec => Contract
<1>1. AdInit => IInv /\ Promised!ContractInit
  BY InitInv, InitRefines, Zenon
<1>2. IInv /\ [AdNext]_adVars => IInv' /\ [Promised!ContractNext]_Promised!contractVars
  BY StepInv, StepRefines, Zenon
<1> QED BY <1>1, <1>2, PTL DEF AdSpec, Contract, Promised!ContractSpec

---------------------------------------------------------------------------
(* Real time transfer, which polls a running target.  Both of its channels *)
(* are rings with one writer and one reader.                               *)

LEMMA Wrap ==
    ASSUME NEW B \in Nat, B > 0, NEW x \in Nat, x < 2 * B
    PROVE  x % B = IF x < B THEN x ELSE x - B
OBVIOUS

LEMMA FunSeq ==
    ASSUME NEW p \in Nat, NEW f \in [1..p -> Nat]
    PROVE  f \in Seq(Nat) /\ Len(f) = p
OBVIOUS

LEMMA Appended ==
    ASSUME NEW s \in Seq(Nat), NEW t \in Seq(Nat)
    PROVE  /\ s \o t \in Seq(Nat) /\ Len(s \o t) = Len(s) + Len(t)
           /\ \A p \in 1..Len(s) : (s \o t)[p] = s[p]
           /\ \A p \in 1..Len(t) : (s \o t)[Len(s) + p] = t[p]
OBVIOUS

\* How far place i lies ahead of place t in a ring of n places.
RingAhead(i, t, n) == IF i >= t THEN i - t ELSE i - t + n

\* A ring holds, between its tail and its head, characters that rise, that follow
\* what came out of it and that do not exceed the last one offered to it.  When
\* nothing was lost they are the very next ones.
Kept(n, buf, tail, head, out, last, lossy) ==
    /\ buf \in [0..(n - 1) -> Nat] /\ tail \in 0..(n - 1) /\ head \in 0..(n - 1)
    /\ out \in Seq(Nat) /\ last \in Nat /\ Rising(out) /\ \A j \in 1..Len(out) : out[j] <= last
    /\ \A i \in 0..(n - 1) : RingAhead(i, tail, n) < RingAhead(head, tail, n) =>
           buf[i] <= last /\ \A j \in 1..Len(out) : out[j] < buf[i]
    /\ \A i, j \in 0..(n - 1) : RingAhead(i, tail, n) < RingAhead(j, tail, n) /\ RingAhead(j, tail, n) < RingAhead(head, tail, n) =>
           buf[i] < buf[j]
    /\ ~lossy => /\ Complete(out) /\ Len(out) + RingAhead(head, tail, n) = last
                 /\ \A i \in 0..(n - 1) : RingAhead(i, tail, n) < RingAhead(head, tail, n) =>
                        buf[i] = Len(out) + RingAhead(i, tail, n) + 1

\* The place k further on.
LEMMA Onward ==
    ASSUME NEW n \in Nat, n > 0, NEW t \in 0..(n - 1), NEW k \in 0..n
    PROVE  (t + k) % n = IF t + k < n THEN t + k ELSE t + k - n
BY Wrap

LEMMA AheadType ==
    ASSUME NEW n \in Nat, n > 0, NEW t \in 0..(n - 1), NEW i \in 0..(n - 1)
    PROVE  RingAhead(i, t, n) \in Nat /\ RingAhead(i, t, n) < n /\ (RingAhead(i, t, n) = 0 <=> i = t)
BY DEF RingAhead

LEMMA AheadInjective ==
    ASSUME NEW n \in Nat, n > 0, NEW t \in 0..(n - 1), NEW i \in 0..(n - 1), NEW j \in 0..(n - 1),
           RingAhead(i, t, n) = RingAhead(j, t, n)
    PROVE  i = j
BY DEF RingAhead

\* The head moves on by one.
LEMMA AheadNext ==
    ASSUME NEW n \in Nat, n > 0, NEW t \in 0..(n - 1), NEW h \in 0..(n - 1), RingAhead(h, t, n) < n - 1
    PROVE  (h + 1) % n \in 0..(n - 1) /\ RingAhead((h + 1) % n, t, n) = RingAhead(h, t, n) + 1
<1>1. (h + 1) % n = IF h + 1 < n THEN h + 1 ELSE h + 1 - n
  BY Onward
<1> QED BY <1>1 DEF RingAhead

\* The tail moves on by u, to t.
LEMMA AheadOf ==
    ASSUME NEW n \in Nat, n > 0, NEW t \in 0..(n - 1), NEW u \in 0..(n - 1), NEW i \in 0..(n - 1)
    PROVE  RingAhead(i, u, n) = IF RingAhead(i, t, n) >= RingAhead(u, t, n) THEN RingAhead(i, t, n) - RingAhead(u, t, n)
                            ELSE RingAhead(i, t, n) - RingAhead(u, t, n) + n
BY DEF RingAhead

LEMMA Empty ==
    ASSUME NEW n \in Nat, n > 0, NEW buf \in [0..(n - 1) -> Nat], NEW out \in Seq(Nat), NEW last \in Nat,
           Rising(out), \A j \in 1..Len(out) : out[j] <= last
    PROVE  Kept(n, buf, 0, 0, out, last, TRUE)
BY DEF Kept, RingAhead

\* The writer puts a character at the head and moves it on.
LEMMA Offered ==
    ASSUME NEW n \in Nat, n > 0, NEW buf, NEW tail, NEW head, NEW out, NEW last, NEW lossy,
           Kept(n, buf, tail, head, out, last, lossy), RingAhead(head, tail, n) < n - 1
    PROVE  Kept(n, [buf EXCEPT ![head] = last + 1], tail, (head + 1) % n, out, last + 1, lossy)
<1> DEFINE b == [buf EXCEPT ![head] = last + 1]
           I == 0..(n - 1)
           A(i) == RingAhead(i, tail, n)
<1>1. /\ buf \in [I -> Nat] /\ tail \in I /\ head \in I /\ out \in Seq(Nat) /\ last \in Nat
      /\ Rising(out) /\ \A j \in 1..Len(out) : out[j] <= last
  BY Zenon DEF Kept
<1>2. b \in [I -> Nat] /\ b[head] = last + 1 /\ \A i \in I : i # head => b[i] = buf[i]
  BY <1>1, SMTT(60)
<1>3. (head + 1) % n \in I /\ A((head + 1) % n) = A(head) + 1
  BY <1>1, AheadNext, Zenon
<1>4. ASSUME NEW i \in I PROVE A(i) \in Nat /\ (A(i) = A(head) => i = head)
  BY <1>1, AheadType, AheadInjective, ZenonT(60)
<1>5. PICK H : H = A(head) /\ H \in Nat
  BY <1>1, <1>4, Zenon
<1>6. /\ \A i \in I : A(i) < H => buf[i] <= last /\ \A j \in 1..Len(out) : out[j] < buf[i]
      /\ \A i, j \in I : A(i) < A(j) /\ A(j) < H => buf[i] < buf[j]
      /\ ~lossy => /\ Complete(out) /\ Len(out) + H = last
                   /\ \A i \in I : A(i) < H => buf[i] = Len(out) + A(i) + 1
  BY <1>5, Zenon DEF Kept
<1> HIDE DEF A, b
<1>7. \A i \in I : A(i) < H + 1 => (A(i) < H /\ i # head /\ b[i] = buf[i]) \/ (i = head /\ A(i) = H /\ b[i] = last + 1)
  BY <1>2, <1>4, <1>5, SMTT(60)
<1>8. \A j \in 1..Len(out) : out[j] <= last + 1 /\ out[j] < last + 1
  BY <1>1, SMTT(60)
<1>9. ASSUME NEW i \in I, A(i) < H + 1
      PROVE  b[i] <= last + 1 /\ \A j \in 1..Len(out) : out[j] < b[i]
  <2>1. CASE A(i) < H /\ b[i] = buf[i]
    BY <1>1, <1>6, <2>1, SMTT(60)
  <2>2. CASE b[i] = last + 1
    BY <1>1, <1>8, <2>2
  <2> QED BY <1>7, <1>9, <2>1, <2>2, Zenon
<1>10. ASSUME NEW i \in I, NEW j \in I, A(i) < A(j), A(j) < H + 1
       PROVE  b[i] < b[j]
  <2>1. A(i) < H /\ b[i] = buf[i] /\ buf[i] \in Nat
    <3>1. A(i) \in Nat /\ A(j) \in Nat /\ buf[i] \in Nat
      BY <1>1, <1>4, Zenon
    <3>2. A(i) < H /\ A(i) < H + 1 /\ A(i) # H
      BY <1>5, <1>10, <3>1
    <3> QED BY <1>7, <3>1, <3>2, Zenon
  <2>2. CASE A(j) < H /\ b[j] = buf[j]
    BY <1>6, <1>10, <2>1, <2>2, Zenon
  <2>3. CASE b[j] = last + 1
    <3>1. buf[i] <= last
      BY <1>6, <2>1, Zenon
    <3> QED BY <1>1, <2>1, <2>3, <3>1
  <2> QED BY <1>7, <1>10, <2>2, <2>3, Zenon
<1>11. ASSUME ~lossy
       PROVE  /\ Complete(out) /\ Len(out) + (H + 1) = last + 1
              /\ \A i \in I : A(i) < H + 1 => b[i] = Len(out) + A(i) + 1
  <2>1. Complete(out) /\ Len(out) + H = last /\ Len(out) \in Nat
    BY <1>1, <1>6, <1>11
  <2>2. ASSUME NEW i \in I, A(i) < H + 1 PROVE b[i] = Len(out) + A(i) + 1
    <3>1. CASE A(i) < H /\ b[i] = buf[i]
      BY <1>6, <1>11, <3>1, Zenon
    <3>2. CASE A(i) = H /\ b[i] = last + 1
      BY <2>1, <3>2, Zenon
    <3> QED BY <1>7, <2>2, <3>1, <3>2, Zenon
  <2>3. Len(out) + (H + 1) = last + 1
    BY <1>5, <2>1
  <2> QED BY <2>1, <2>2, <2>3, Zenon
<1>12. last + 1 \in Nat
  BY <1>1
<1> QED BY <1>1, <1>2, <1>3, <1>5, <1>8, <1>9, <1>10, <1>11, <1>12, ZenonT(60) DEF Kept, A, b

\* Characters near the head are given up, or others never get to the ring.
LEMMA GivenUp ==
    ASSUME NEW n \in Nat, n > 0, NEW buf, NEW tail, NEW head, NEW out, NEW last, NEW lossy,
           Kept(n, buf, tail, head, out, last, lossy),
           NEW h \in 0..(n - 1), RingAhead(h, tail, n) <= RingAhead(head, tail, n), NEW l \in Nat, last <= l
    PROVE  Kept(n, buf, tail, h, out, l, TRUE)
<1> DEFINE I == 0..(n - 1)
           A(i) == RingAhead(i, tail, n)
<1>1. /\ buf \in [I -> Nat] /\ tail \in I /\ head \in I /\ out \in Seq(Nat) /\ last \in Nat
      /\ Rising(out) /\ \A j \in 1..Len(out) : out[j] <= last
      /\ \A i \in I : A(i) < A(head) => buf[i] <= last /\ \A j \in 1..Len(out) : out[j] < buf[i]
      /\ \A i, j \in I : A(i) < A(j) /\ A(j) < A(head) => buf[i] < buf[j]
  BY Zenon DEF Kept
<1>2. ASSUME NEW i \in I PROVE A(i) \in Nat
  BY <1>1, AheadType, Zenon
<1>3. A(h) <= A(head)
  BY Zenon
<1> HIDE DEF A
<1>4. ASSUME NEW i \in I, A(i) < A(h) PROVE A(i) < A(head)
  <2>1. A(i) \in Nat /\ A(h) \in Nat /\ A(head) \in Nat
    BY <1>1, <1>2, Zenon
  <2> QED BY <1>3, <1>4, <2>1
<1>5. \A x \in Nat : x <= last => x <= l
  BY <1>1, SMTT(60)
<1>6. \A j \in 1..Len(out) : out[j] \in Nat
  BY <1>1, SMTT(60)
<1>7. \A j \in 1..Len(out) : out[j] <= l
  BY <1>1, <1>5, <1>6, Zenon
<1>8. ASSUME NEW i \in I, A(i) < A(h)
      PROVE  buf[i] <= l /\ \A j \in 1..Len(out) : out[j] < buf[i]
  <2>1. buf[i] \in Nat /\ A(i) < A(head)
    BY <1>1, <1>4, <1>8, Zenon
  <2> QED BY <1>1, <1>5, <2>1, Zenon
<1>9. \A i, j \in I : A(i) < A(j) /\ A(j) < A(h) => buf[i] < buf[j]
  BY <1>1, <1>4, Zenon
<1> QED BY <1>1, <1>7, <1>8, <1>9, Zenon DEF Kept, A

LEMMA AheadAt ==
    ASSUME NEW n \in Nat, n > 0, NEW t \in 0..(n - 1), NEW k \in Nat, k < n
    PROVE  \E i \in 0..(n - 1) : RingAhead(i, t, n) = k
<1>1. CASE t + k < n
  <2>1. t + k \in 0..(n - 1) /\ RingAhead(t + k, t, n) = k
    BY <1>1 DEF RingAhead
  <2> QED BY <2>1, Zenon
<1>2. CASE t + k >= n
  <2>1. t + k - n \in 0..(n - 1) /\ RingAhead(t + k - n, t, n) = k
    BY <1>2, SMTT(60) DEF RingAhead
  <2> QED BY <2>1, Zenon
<1> QED BY <1>1, <1>2

\* What is ahead of the new tail u was ahead of the old one.
LEMMA AheadKept ==
    ASSUME NEW n \in Nat, n > 0, NEW t \in 0..(n - 1), NEW h \in 0..(n - 1), NEW u \in 0..(n - 1),
           RingAhead(u, t, n) <= RingAhead(h, t, n)
    PROVE  /\ RingAhead(h, u, n) = RingAhead(h, t, n) - RingAhead(u, t, n)
           /\ \A i \in 0..(n - 1) : RingAhead(i, u, n) < RingAhead(h, u, n) =>
                  RingAhead(i, t, n) = RingAhead(i, u, n) + RingAhead(u, t, n) /\ RingAhead(i, t, n) < RingAhead(h, t, n)
BY DEF RingAhead

\* The characters between the tail and u are lost.
LEMMA Skipped ==
    ASSUME NEW n \in Nat, n > 0, NEW buf, NEW tail, NEW head, NEW out, NEW last, NEW lossy,
           Kept(n, buf, tail, head, out, last, lossy),
           NEW u \in 0..(n - 1), RingAhead(u, tail, n) <= RingAhead(head, tail, n)
    PROVE  Kept(n, buf, u, head, out, last, TRUE)
<1> DEFINE I == 0..(n - 1)
           A(i) == RingAhead(i, tail, n)
           B(i) == RingAhead(i, u, n)
<1>1. /\ buf \in [I -> Nat] /\ tail \in I /\ head \in I /\ out \in Seq(Nat) /\ last \in Nat
      /\ Rising(out) /\ \A j \in 1..Len(out) : out[j] <= last
      /\ \A i \in I : A(i) < A(head) => buf[i] <= last /\ \A j \in 1..Len(out) : out[j] < buf[i]
      /\ \A i, j \in I : A(i) < A(j) /\ A(j) < A(head) => buf[i] < buf[j]
  BY Zenon DEF Kept
<1>2. ASSUME NEW i \in I PROVE B(i) \in Nat
  BY AheadType, Zenon
<1>3. PICK C : C = A(u) /\ C \in Nat
  BY <1>1, AheadType, Zenon
<1>4. ASSUME NEW i \in I, B(i) < B(head) PROVE A(i) = B(i) + C /\ A(i) < A(head)
  <2>1. tail \in I /\ head \in I
    BY <1>1, Zenon
  <2>2. A(i) = B(i) + A(u) /\ A(i) < A(head)
    BY <1>4, <2>1, AheadKept, Zenon
  <2> QED BY <1>3, <2>2, Zenon
<1> HIDE DEF A, B
<1>5. ASSUME NEW i \in I, NEW j \in I, B(i) < B(j), B(j) < B(head) PROVE buf[i] < buf[j]
  <2>1. B(i) \in Nat /\ B(j) \in Nat /\ B(head) \in Nat
    BY <1>1, <1>2, Zenon
  <2>2. B(i) < B(head)
    BY <1>5, <2>1
  <2>3. A(i) = B(i) + C /\ A(j) = B(j) + C /\ A(j) < A(head)
    BY <1>4, <1>5, <2>2, Zenon
  <2>4. A(i) < A(j)
    BY <1>3, <1>5, <2>1, <2>3
  <2> QED BY <1>1, <2>3, <2>4, Zenon
<1>6. ASSUME NEW i \in I, B(i) < B(head) PROVE buf[i] <= last /\ \A j \in 1..Len(out) : out[j] < buf[i]
  BY <1>1, <1>4, <1>6, Zenon
<1> QED BY <1>1, <1>5, <1>6, Zenon DEF Kept, B

\* The reader takes the characters x, up to u, in their order.
LEMMA TakenOut ==
    ASSUME NEW n \in Nat, n > 0, NEW buf, NEW tail, NEW head, NEW out, NEW last, NEW lossy,
           Kept(n, buf, tail, head, out, last, lossy),
           NEW u \in 0..(n - 1), RingAhead(u, tail, n) <= RingAhead(head, tail, n),
           NEW x \in Seq(Nat), Len(x) = RingAhead(u, tail, n),
           \A k \in 1..Len(x), i \in 0..(n - 1) : RingAhead(i, tail, n) = k - 1 => x[k] = buf[i]
    PROVE  Kept(n, buf, u, head, out \o x, last, lossy)
<1> DEFINE I == 0..(n - 1)
           A(i) == RingAhead(i, tail, n)
           B(i) == RingAhead(i, u, n)
           q == out \o x
<1>1. /\ buf \in [I -> Nat] /\ tail \in I /\ head \in I /\ out \in Seq(Nat) /\ last \in Nat
      /\ Rising(out) /\ \A j \in 1..Len(out) : out[j] <= last
      /\ \A i \in I : A(i) < A(head) => buf[i] <= last /\ \A j \in 1..Len(out) : out[j] < buf[i]
      /\ \A i, j \in I : A(i) < A(j) /\ A(j) < A(head) => buf[i] < buf[j]
  BY Zenon DEF Kept
<1>2. ~lossy => /\ Complete(out) /\ Len(out) + A(head) = last
                /\ \A i \in I : A(i) < A(head) => buf[i] = Len(out) + A(i) + 1
  BY Zenon DEF Kept
<1>3. ASSUME NEW i \in I PROVE A(i) \in Nat /\ B(i) \in Nat
  BY <1>1, AheadType, Zenon
<1>4. PICK C, H, L : C = A(u) /\ H = A(head) /\ L = Len(out) /\ C \in Nat /\ H \in Nat /\ L \in Nat /\ C <= H /\ H < n
  <2>1. tail \in I /\ head \in I /\ out \in Seq(Nat)
    BY <1>1, Zenon
  <2>2. A(u) \in Nat /\ A(head) \in Nat /\ A(head) < n
    BY <2>1, AheadType, Zenon
  <2>3. Len(out) \in Nat
    BY <2>1
  <2> QED BY <2>2, <2>3, Zenon
<1>5. B(head) = H - C /\ \A i \in I : B(i) < B(head) => A(i) = B(i) + C /\ A(i) < H
  <2>1. tail \in I /\ head \in I
    BY <1>1, Zenon
  <2>2. B(head) = A(head) - A(u) /\ \A i \in I : B(i) < B(head) => A(i) = B(i) + A(u) /\ A(i) < A(head)
    BY <2>1, AheadKept, Zenon
  <2> QED BY <1>4, <2>2, Zenon
<1>6. ASSUME NEW k \in 1..C PROVE \E i \in I : A(i) = k - 1 /\ A(i) < H /\ x[k] = buf[i]
  <2>1. k - 1 \in Nat /\ k - 1 < n /\ k - 1 < H /\ k \in 1..Len(x)
    BY <1>4
  <2>2. tail \in I
    BY <1>1, Zenon
  <2>3. PICK i \in I : A(i) = k - 1
    BY <2>1, <2>2, AheadAt, Zenon
  <2> QED BY <2>1, <2>3, Zenon
<1>7. /\ q \in Seq(Nat) /\ Len(q) = L + C
      /\ \A j \in 1..L : q[j] = out[j]
      /\ \A k \in 1..C : q[L + k] = x[k]
  <2>1. Len(x) = C /\ out \in Seq(Nat) /\ Len(out) = L
    BY <1>1, <1>4, Zenon
  <2> QED BY <2>1, Appended, Zenon
<1> HIDE DEF A, B, q
<1>8. ASSUME NEW k \in 1..C
      PROVE  /\ x[k] \in Nat /\ x[k] <= last /\ \A j \in 1..L : out[j] < x[k]
             /\ \A i \in I : C <= A(i) /\ A(i) < H => x[k] < buf[i]
             /\ ~lossy => x[k] = L + k
  <2>1. PICK i \in I : A(i) = k - 1 /\ A(i) < H /\ x[k] = buf[i]
    BY <1>6, Zenon
  <2>2. buf[i] \in Nat /\ buf[i] <= last /\ \A j \in 1..L : out[j] < buf[i]
    BY <1>1, <1>4, <2>1, Zenon
  <2>3. ASSUME NEW j \in I, C <= A(j), A(j) < H PROVE buf[i] < buf[j]
    <3>1. A(j) \in Nat
      BY <1>3, ZenonT(60)
    <3>2. A(i) < A(j)
      BY <1>4, <2>1, <2>3, <3>1, SMTT(60)
    <3> QED BY <1>1, <1>4, <2>3, <3>2, Zenon
  <2>4. ASSUME ~lossy PROVE buf[i] = L + k
    <3>1. buf[i] = L + A(i) + 1
      BY <1>2, <1>4, <2>1, <2>4, Zenon
    <3> QED BY <1>4, <2>1, <3>1
  <2> QED BY <2>1, <2>2, <2>3, <2>4, Zenon
<1>9. ASSUME NEW k \in 1..C, NEW m \in 1..C, k < m PROVE x[k] < x[m]
  <2>1. PICK i \in I : A(i) = k - 1 /\ A(i) < H /\ x[k] = buf[i]
    BY <1>6, Zenon
  <2>2. PICK j \in I : A(j) = m - 1 /\ A(j) < H /\ x[m] = buf[j]
    BY <1>6, Zenon
  <2>3. A(i) < A(j)
    BY <1>4, <1>9, <2>1, <2>2
  <2> QED BY <1>1, <1>4, <2>1, <2>2, <2>3, Zenon
<1>10. ASSUME NEW p \in 1..Len(q) PROVE p \in 1..L \/ \E k \in 1..C : p = L + k
  <2>0. p \in 1..(L + C)
    BY <1>7, Zenon
  <2>1. p \notin 1..L => p - L \in 1..C /\ p = L + (p - L)
    BY <1>4, <2>0, SMTT(60)
  <2> QED BY <2>1, Zenon
<1>11. Rising(q)
  <2> SUFFICES ASSUME NEW p \in 1..(Len(q) - 1) PROVE q[p] < q[p + 1]
    BY Zenon DEF Rising
  <2>1. Len(q) = L + C
    BY <1>7, Zenon
  <2>2. CASE p + 1 <= L
    <3>1. p \in 1..L /\ p + 1 \in 1..L /\ p \in 1..(L - 1)
      BY <1>4, <2>2, SMTT(60)
    <3>2. out[p] < out[p + 1]
      BY <1>1, <1>4, <3>1, Zenon DEF Rising
    <3> QED BY <1>7, <3>1, <3>2, ZenonT(60)
  <2>3. CASE p = L
    <3>1. p \in 1..L /\ 1 \in 1..C
      BY <1>4, <2>1, <2>3, SMTT(60)
    <3>2. q[p] = out[p] /\ q[L + 1] = x[1] /\ out[p] < x[1]
      BY <1>7, <1>8, <3>1, Zenon
    <3> QED BY <2>3, <3>2, ZenonT(60)
  <2>4. CASE p > L
    <3>1. PICK k \in 1..C : p = L + k /\ p + 1 = L + (k + 1) /\ k + 1 \in 1..C /\ k < k + 1
      <4>1. p - L \in 1..C /\ p = L + (p - L) /\ p + 1 = L + ((p - L) + 1) /\ (p - L) + 1 \in 1..C /\ p - L < (p - L) + 1
        BY <1>4, <2>1, <2>4, SMTT(60)
      <4> QED BY <4>1, ZenonT(60)
    <3>2. q[p] = x[k] /\ q[p + 1] = x[k + 1]
      BY <1>7, <3>1, Zenon
    <3> QED BY <1>9, <3>1, <3>2, Zenon
  <2> QED BY <1>4, <2>1, <2>2, <2>3, <2>4, SMTT(60)
<1>12. ASSUME NEW p \in 1..Len(q) PROVE q[p] <= last
  <2>1. CASE p \in 1..L
    BY <1>1, <1>4, <1>7, <2>1, Zenon
  <2>2. ASSUME NEW k \in 1..C, p = L + k PROVE q[p] <= last
    BY <1>7, <1>8, <2>2, Zenon
  <2> QED BY <1>10, <2>1, <2>2, Zenon
<1>13. ASSUME NEW i \in I, B(i) < B(head) PROVE buf[i] <= last /\ \A j \in 1..Len(q) : q[j] < buf[i]
  <2>1. C <= A(i) /\ A(i) < H
    <3>1. A(i) = B(i) + C /\ A(i) < H
      BY <1>5, <1>13, Zenon
    <3>2. B(i) \in Nat
      BY <1>3, Zenon
    <3> QED BY <1>4, <3>1, <3>2, SMTT(60)
  <2>2. buf[i] <= last /\ \A j \in 1..L : out[j] < buf[i]
    BY <1>1, <1>4, <2>1, Zenon
  <2>3. \A k \in 1..C : x[k] < buf[i]
    BY <1>8, <2>1, Zenon
  <2> QED BY <1>7, <1>10, <2>2, <2>3, ZenonT(60)
<1>14. ASSUME NEW i \in I, NEW j \in I, B(i) < B(j), B(j) < B(head) PROVE buf[i] < buf[j]
  <2>1. B(i) \in Nat /\ B(j) \in Nat /\ B(head) \in Nat
    BY <1>1, <1>3, ZenonT(60)
  <2>2. B(i) < B(head)
    BY <1>14, <2>1
  <2>3. A(i) = B(i) + C /\ A(j) = B(j) + C /\ A(j) < H
    BY <1>5, <1>14, <2>2, ZenonT(60)
  <2>4. A(i) < A(j)
    BY <1>4, <1>14, <2>1, <2>3, SMTT(60)
  <2> QED BY <1>1, <1>4, <2>3, <2>4, Zenon
<1>15. ASSUME ~lossy
       PROVE  /\ Complete(q) /\ Len(q) + B(head) = last
              /\ \A i \in I : B(i) < B(head) => buf[i] = Len(q) + B(i) + 1
  <2>1. Complete(out) /\ L + H = last
    BY <1>2, <1>4, <1>15, Zenon
  <2>2. \A j \in 1..L : out[j] = j
    BY <1>4, <2>1, Zenon DEF Complete
  <2>3. Complete(q)
    <3>1. ASSUME NEW p \in 1..Len(q) PROVE q[p] = p
      <4>1. CASE p \in 1..L
        BY <1>7, <2>2, <4>1, Zenon
      <4>2. ASSUME NEW k \in 1..C, p = L + k PROVE q[p] = p
        BY <1>7, <1>8, <1>15, <4>2, Zenon
      <4> QED BY <1>10, <4>1, <4>2, Zenon
    <3> QED BY <3>1, Zenon DEF Complete
  <2>4. Len(q) = L + C /\ B(head) = H - C
    BY <1>5, <1>7, ZenonT(60)
  <2>5. Len(q) + B(head) = last
    BY <1>4, <2>1, <2>4, SMTT(60)
  <2>6. ASSUME NEW i \in I, B(i) < B(head) PROVE buf[i] = Len(q) + B(i) + 1
    <3>1. A(i) = B(i) + C /\ A(i) < H
      BY <1>5, <2>6, Zenon
    <3>2. buf[i] = L + A(i) + 1
      BY <1>2, <1>4, <1>15, <3>1, Zenon
    <3>3. B(i) \in Nat
      BY <1>3, Zenon
    <3> QED BY <1>4, <2>4, <3>1, <3>2, <3>3, SMTT(60)
  <2> QED BY <2>3, <2>5, <2>6, Zenon
<1> QED BY <1>1, <1>7, <1>11, <1>12, <1>13, <1>14, <1>15, Zenon DEF Kept, B, q

---------------------------------------------------------------------------
(* From the target to the host.                                            *)

Rings(n) == [buf : [0..(n - 1) -> Nat], head : 0..(n - 1), tail : 0..(n - 1)]
Copies(n) == [head : 0..(n - 1), tail : 0..(n - 1)]

\* xmit_buf holds what the ring r has from its tail up to that of the copy c, and
\* the head of the copy is not beyond that of the ring.
Copied(r, c, x) ==
    /\ Len(x) <= XmitSize /\ Len(x) = RingAhead(c.tail, r.tail, UpSize)
    /\ Len(x) + RingAhead(c.head, c.tail, UpSize) <= RingAhead(r.head, r.tail, UpSize)
    /\ \A k \in 1..Len(x), i \in 0..(UpSize - 1) : RingAhead(i, r.tail, UpSize) = k - 1 => x[k] = r.buf[i]

Copying == {"print", "second", "tail"}
Starting == {"find", "header", "channels", "print"}

UpInv ==
    /\ up \in Rings(UpSize) /\ upcopy \in Copies(UpSize) /\ xmit_buf \in Seq(Nat)
    /\ Kept(UpSize, up.buf, up.tail, up.head, shown, printed, torn)
    /\ rpc \in Starting => xmit_buf = <<>>
    /\ rpc \in Copying => Copied(up, upcopy, xmit_buf)
    /\ block = "none" => torn

LEMMA Sizes == UpSize \in Nat /\ UpSize > 0 /\ DownSize \in Nat /\ DownSize > 0 /\ XmitSize \in Nat /\ MaxDown \in Nat
BY RttPollAssumption DEF RttPollAssumption

LEMMA RingField ==
    ASSUME NEW n, NEW r \in Rings(n)
    PROVE  r.buf \in [0..(n - 1) -> Nat] /\ r.head \in 0..(n - 1) /\ r.tail \in 0..(n - 1)
BY Zenon DEF Rings

LEMMA CopyField ==
    ASSUME NEW n, NEW c \in Copies(n)
    PROVE  c.head \in 0..(n - 1) /\ c.tail \in 0..(n - 1)
BY Zenon DEF Copies

\* A loss takes nothing from what is kept.
LEMMA LossKeeps ==
    ASSUME NEW n \in Nat, n > 0, NEW buf, NEW tail, NEW head, NEW out, NEW last, NEW lossy,
           Kept(n, buf, tail, head, out, last, lossy), NEW l, l = lossy \/ l = TRUE
    PROVE  Kept(n, buf, tail, head, out, last, l)
BY Zenon DEF Kept

\* The ring of a target that has just set it up.
LEMMA NewRing ==
    ASSUME NEW n \in Nat, n > 0
    PROVE  /\ Ring(n) \in Rings(n) /\ Ring(n).head = 0 /\ Ring(n).tail = 0 /\ Ring(n).buf \in [0..(n - 1) -> Nat]
           /\ NoCopy \in Copies(n)
BY SMTT(60) DEF Ring, Rings, NoCopy, Copies

LEMMA NewKept ==
    ASSUME NEW n \in Nat, n > 0
    PROVE  Kept(n, Ring(n).buf, Ring(n).tail, Ring(n).head, <<>>, 0, FALSE)
<1>1. Ring(n).head = 0 /\ Ring(n).tail = 0 /\ Ring(n).buf \in [0..(n - 1) -> Nat]
  BY NewRing, Zenon
<1>2. <<>> \in Seq(Nat) /\ Len(<<>>) = 0 /\ Rising(<<>>) /\ Complete(<<>>)
  BY DEF Rising, Complete
<1>3. \A i \in 0..(n - 1) : ~(RingAhead(i, 0, n) < RingAhead(0, 0, n))
  BY DEF RingAhead
<1>4. RingAhead(0, 0, n) = 0 /\ 0 \in 0..(n - 1)
  BY DEF RingAhead
<1> QED BY <1>1, <1>2, <1>3, <1>4 DEF Kept

LEMMA UpQuiet ==
    ASSUME UpInv, UNCHANGED <<up, printed, shown, xmit_buf, upcopy>>,
           rpc' \in Starting => rpc \in Starting, rpc' \in Copying => rpc \in Copying,
           torn' = torn \/ torn' = TRUE, block' = "none" => torn'
    PROVE  UpInv'
<1>1. Kept(UpSize, up.buf, up.tail, up.head, shown, printed, torn')
  BY Sizes, LossKeeps, Zenon DEF UpInv
<1> QED BY <1>1, Zenon DEF UpInv

\* The p characters of a ring from u on, which does not end among them, lie before
\* the head g of the copy, and g not after the head h.
Ends(n, t, h, u, g, p) ==
    /\ n \in Nat /\ n > 0 /\ {t, h, u, g} \subseteq 0..(n - 1)
    /\ p \in Nat /\ p <= RingAhead(g, u, n) /\ u + p <= n /\ RingAhead(u, t, n) + RingAhead(g, u, n) <= RingAhead(h, t, n)

LEMMA PartMoves ==
    ASSUME NEW n, NEW t, NEW h, NEW u, NEW g, NEW p, Ends(n, t, h, u, g, p)
    PROVE  /\ (u + p) % n \in 0..(n - 1) /\ RingAhead((u + p) % n, t, n) = RingAhead(u, t, n) + p
           /\ RingAhead(u, t, n) + p + RingAhead(g, (u + p) % n, n) <= RingAhead(h, t, n)
           /\ \A j \in 1..p : u + j - 1 \in 0..(n - 1) /\ RingAhead(u + j - 1, t, n) = RingAhead(u, t, n) + j - 1
<1> USE DEF Ends
<1>1. PICK v : v = (u + p) % n
  BY Zenon
<1>2. v = IF u + p < n THEN u + p ELSE u + p - n
  BY <1>1, Onward, SMTT(60)
<1>3. v \in 0..(n - 1) /\ RingAhead(v, t, n) = RingAhead(u, t, n) + p /\ RingAhead(u, t, n) + p + RingAhead(g, v, n) <= RingAhead(h, t, n)
  BY <1>2, SMTT(60) DEF RingAhead
<1>4. ASSUME NEW j \in 1..p PROVE u + j - 1 \in 0..(n - 1) /\ RingAhead(u + j - 1, t, n) = RingAhead(u, t, n) + j - 1
  BY SMTT(60) DEF RingAhead
<1> QED BY <1>1, <1>3, <1>4, Zenon

LEMMA PartFits ==
    ASSUME UpInv, rpc \in Copying
    PROVE  /\ Part \in Nat /\ Part <= RingAhead(upcopy.head, upcopy.tail, UpSize) /\ upcopy.tail + Part <= UpSize
           /\ Len(xmit_buf) + Part <= XmitSize
<1>1. /\ upcopy.head \in 0..(UpSize - 1) /\ upcopy.tail \in 0..(UpSize - 1)
      /\ Len(xmit_buf) \in Nat /\ Len(xmit_buf) <= XmitSize
  BY CopyField DEF UpInv, Copied
<1> QED BY <1>1, Sizes, SMTT(60) DEF Part, Wrapped, Room, RingAhead

LEMMA PrintPartUp ==
    ASSUME UpInv, PrintPart
    PROVE  UpInv'
<1> DEFINE n == UpSize
           I == 0..(n - 1)
           x == xmit_buf
           y == [i \in 1..Part |-> up.buf[upcopy.tail + i - 1]]
<1>1. rpc \in Copying
  BY Zenon DEF PrintPart, Copying
<1>2. /\ UNCHANGED <<up, printed, shown, torn, block>>
      /\ \/ x' = x \o y /\ upcopy' = [upcopy EXCEPT !.tail = (@ + Part) % n] /\ rpc' \in {"second", "tail"}
         \/ UNCHANGED <<upcopy, xmit_buf>> /\ rpc' = "read"
  BY Zenon DEF PrintPart, rttTarget
<1>3. CASE UNCHANGED <<upcopy, xmit_buf>> /\ rpc' = "read"
  <2>1. rpc' \notin Starting /\ rpc' \notin Copying
    BY <1>3, Zenon DEF Starting, Copying
  <2> QED BY <1>2, <1>3, <2>1, UpQuiet, Zenon DEF UpInv
<1>4. CASE x' = x \o y /\ upcopy' = [upcopy EXCEPT !.tail = (@ + Part) % n] /\ rpc' \in {"second", "tail"}
  <2>1. PICK p, u, v, g, t, h, b, m :
          /\ p = Part /\ u = upcopy.tail /\ v = (u + p) % n /\ g = upcopy.head
          /\ t = up.tail /\ h = up.head /\ b = up.buf /\ m = Len(x)
    BY Zenon
  <2>2. /\ n \in Nat /\ n > 0 /\ b \in [I -> Nat] /\ t \in I /\ h \in I /\ u \in I /\ g \in I
        /\ x \in Seq(Nat) /\ m \in Nat
    <3>1. up \in Rings(n) /\ upcopy \in Copies(n) /\ x \in Seq(Nat)
      BY Zenon DEF UpInv
    <3>2. b \in [I -> Nat] /\ t \in I /\ h \in I /\ u \in I /\ g \in I
      BY <2>1, <3>1, RingField, CopyField, Zenon
    <3>3. m \in Nat
      BY <2>1, <3>1, SMTT(60)
    <3> QED BY <3>1, <3>2, <3>3, Sizes, Zenon
  <2>3. /\ m <= XmitSize /\ m = RingAhead(u, t, n) /\ m + RingAhead(g, u, n) <= RingAhead(h, t, n)
        /\ \A k \in 1..m, i \in I : RingAhead(i, t, n) = k - 1 => x[k] = b[i]
    BY <1>1, <2>1 DEF UpInv, Copied
  <2>4. p \in Nat /\ p <= RingAhead(g, u, n) /\ u + p <= n /\ m + p <= XmitSize
    BY <1>1, <2>1, PartFits, Zenon
  <2>5. /\ v \in I /\ RingAhead(v, t, n) = m + p /\ m + p + RingAhead(g, v, n) <= RingAhead(h, t, n)
        /\ \A j \in 1..p : u + j - 1 \in I /\ RingAhead(u + j - 1, t, n) = m + j - 1
    <3>1. RingAhead(u, t, n) + RingAhead(g, u, n) <= RingAhead(h, t, n)
      BY <2>3, Zenon
    <3>0. Ends(n, t, h, u, g, p)
      BY <2>2, <2>4, <3>1, ZenonT(60) DEF Ends
    <3>2. /\ (u + p) % n \in I /\ RingAhead((u + p) % n, t, n) = RingAhead(u, t, n) + p
          /\ RingAhead(u, t, n) + p + RingAhead(g, (u + p) % n, n) <= RingAhead(h, t, n)
          /\ \A j \in 1..p : u + j - 1 \in I /\ RingAhead(u + j - 1, t, n) = RingAhead(u, t, n) + j - 1
      BY <3>0, PartMoves
    <3>3. v = (u + p) % n /\ m = RingAhead(u, t, n)
      BY <2>1, <2>3, Zenon
    <3> QED BY <3>2, <3>3, Zenon
  <2>6. y \in Seq(Nat) /\ Len(y) = p /\ \A j \in 1..p : y[j] = b[u + j - 1]
    <3>1. y = [j \in 1..p |-> b[u + j - 1]]
      BY <2>1, Zenon
    <3>2. ASSUME NEW j \in 1..p PROVE b[u + j - 1] \in Nat
      <4>1. u + j - 1 \in I
        BY <2>5, Zenon
      <4> QED BY <2>2, <4>1, Zenon
    <3>3. y \in [1..p -> Nat] /\ \A j \in 1..p : y[j] = b[u + j - 1]
      BY <3>1, <3>2, Zenon
    <3> QED BY <2>4, <3>3, FunSeq, Zenon
  <2> HIDE DEF y
  <2>7. /\ x' \in Seq(Nat) /\ Len(x') = m + p
        /\ \A k \in 1..m : x'[k] = x[k]
        /\ \A j \in 1..p : x'[m + j] = y[j]
    <3>1. x \in Seq(Nat) /\ y \in Seq(Nat) /\ Len(x) = m /\ Len(y) = p /\ x' = x \o y
      BY <1>4, <2>1, <2>2, <2>6, Zenon
    <3> QED BY <3>1, Appended, ZenonT(60)
  <2>8. upcopy' \in Copies(n) /\ upcopy'.tail = v /\ upcopy'.head = g
    <3>1. upcopy \in Copies(n)
      BY Zenon DEF UpInv
    <3>2. upcopy' = [upcopy EXCEPT !.tail = v]
      BY <1>4, <2>1, Zenon
    <3> QED BY <2>1, <2>5, <3>1, <3>2, Zenon DEF Copies
  <2>9. ASSUME NEW k \in 1..(m + p), NEW i \in I, RingAhead(i, t, n) = k - 1 PROVE x'[k] = b[i]
    <3>1. CASE k \in 1..m
      BY <2>3, <2>7, <2>9, <3>1, Zenon
    <3>2. CASE k \notin 1..m
      <4>1. PICK j \in 1..p : k = m + j /\ m + j - 1 = k - 1
        <5>1. k - m \in 1..p /\ k = m + (k - m) /\ m + (k - m) - 1 = k - 1
          BY <2>2, <2>4, <3>2
        <5> QED BY <5>1, Zenon
      <4>2. u + j - 1 \in I /\ RingAhead(u + j - 1, t, n) = RingAhead(i, t, n)
        BY <2>5, <2>9, <4>1, Zenon
      <4>3. i = u + j - 1
        BY <2>2, <4>2, AheadInjective, Zenon
      <4> QED BY <2>6, <2>7, <4>1, <4>3, Zenon
    <3> QED BY <3>1, <3>2, Zenon
  <2>10. Copied(up, upcopy', x')
    BY <2>1, <2>4, <2>5, <2>7, <2>8, <2>9, Zenon DEF Copied
  <2>11. rpc' \notin Starting
    BY <1>4, Zenon DEF Starting
  <2> QED BY <1>2, <2>7, <2>8, <2>10, <2>11, Zenon DEF UpInv
<1> QED BY <1>2, <1>3, <1>4, Zenon

LEMMA WriteTailUp ==
    ASSUME UpInv, WriteTail
    PROVE  UpInv'
<1> DEFINE n == UpSize
           I == 0..(n - 1)
<1>1. rpc \in Copying
  BY Zenon DEF WriteTail, Copying
<1>2. rpc' = "read" /\ rpc' \notin Starting /\ rpc' \notin Copying
  BY Zenon DEF WriteTail, Starting, Copying
<1>3. /\ UNCHANGED <<block, printed, upcopy, xmit_buf>>
      /\ \/ up' = [up EXCEPT !.tail = upcopy.tail] /\ shown' = shown \o xmit_buf /\ torn' = torn
         \/ up' = up /\ shown' = shown /\ torn' = torn
         \/ up' = [up EXCEPT !.tail = upcopy.tail] /\ shown' = shown /\ torn' = TRUE
  BY Zenon DEF WriteTail, Shown
<1>4. PICK b, t, h, u : b = up.buf /\ t = up.tail /\ h = up.head /\ u = upcopy.tail
  BY Zenon
<1>5. up \in Rings(n) /\ upcopy \in Copies(n) /\ xmit_buf \in Seq(Nat)
  BY Zenon DEF UpInv
<1>6. b \in [I -> Nat] /\ t \in I /\ h \in I /\ u \in I /\ upcopy.head \in I
  BY <1>4, <1>5, RingField, CopyField, Zenon
<1>7. /\ Len(xmit_buf) = RingAhead(u, t, n)
      /\ \A k \in 1..Len(xmit_buf), i \in I : RingAhead(i, t, n) = k - 1 => xmit_buf[k] = b[i]
  BY <1>1, <1>4, ZenonT(60) DEF UpInv, Copied
<1>8. RingAhead(u, t, n) <= RingAhead(h, t, n)
  <2>1. RingAhead(u, t, n) + RingAhead(upcopy.head, u, n) <= RingAhead(h, t, n)
    BY <1>1, <1>4, <1>7, Zenon DEF UpInv, Copied
  <2>2. RingAhead(upcopy.head, u, n) \in Nat /\ RingAhead(u, t, n) \in Nat /\ RingAhead(h, t, n) \in Nat
    BY <1>6, Sizes, AheadType, Zenon
  <2> QED BY <2>1, <2>2
<1>9. Kept(n, b, t, h, shown, printed, torn)
  BY <1>4, Zenon DEF UpInv
<1>10. CASE /\ up' = [up EXCEPT !.tail = upcopy.tail]
            /\ \/ shown' = shown \o xmit_buf /\ torn' = torn
               \/ shown' = shown /\ torn' = TRUE
  <2>1. up' \in Rings(n) /\ up'.buf = b /\ up'.tail = u /\ up'.head = h
    BY <1>4, <1>5, <1>6, <1>10, Zenon DEF Rings
  <2>2. Kept(n, b, u, h, shown \o xmit_buf, printed, torn)
    BY <1>5, <1>6, <1>7, <1>8, <1>9, Sizes, TakenOut, Zenon
  <2>3. Kept(n, b, u, h, shown, printed, TRUE)
    BY <1>6, <1>8, <1>9, Sizes, Skipped, Zenon
  <2>4. Kept(n, b, u, h, shown', printed', torn')
    BY <1>3, <1>10, <2>2, <2>3, Zenon
  <2> QED BY <1>2, <1>3, <1>5, <2>1, <2>4, Zenon DEF UpInv
<1>11. CASE up' = up /\ shown' = shown /\ torn' = torn
  BY <1>2, <1>3, <1>11, UpQuiet, Zenon DEF UpInv
<1> QED BY <1>3, <1>10, <1>11, Zenon

\* A ring that is not full.
LEMMA NotFull ==
    ASSUME NEW n \in Nat, n > 0, NEW t \in 0..(n - 1), NEW h \in 0..(n - 1), (h + 1) % n # t
    PROVE  RingAhead(h, t, n) < n - 1
<1>1. (h + 1) % n = IF h + 1 < n THEN h + 1 ELSE h + 1 - n
  BY Onward
<1> QED BY <1>1 DEF RingAhead

LEMMA TargetPrintsUp ==
    ASSUME UpInv, TargetPrints
    PROVE  UpInv'
<1> DEFINE n == UpSize
           I == 0..(n - 1)
<1>1. PICK b, t, h, c : b = up.buf /\ t = up.tail /\ h = up.head /\ c = [b EXCEPT ![h] = printed + 1]
  BY Zenon
<1>2. up \in Rings(n) /\ upcopy \in Copies(n) /\ xmit_buf \in Seq(Nat)
  BY Zenon DEF UpInv
<1>3. b \in [I -> Nat] /\ t \in I /\ h \in I /\ upcopy.head \in I /\ upcopy.tail \in I
  BY <1>1, <1>2, RingField, CopyField, Zenon
<1>4. /\ block' = block /\ torn' = torn /\ rpc' = rpc /\ printed' = printed + 1
      /\ UNCHANGED <<upcopy, xmit_buf, shown>> /\ (h + 1) % n # t
      /\ up' = [up EXCEPT !.buf[up.head] = printed + 1, !.head = (@ + 1) % n]
  BY <1>1, Zenon DEF TargetPrints, ProbeWaits
<1>5. RingAhead(h, t, n) < n - 1 /\ (h + 1) % n \in I /\ RingAhead((h + 1) % n, t, n) = RingAhead(h, t, n) + 1
  <2>1. RingAhead(h, t, n) < n - 1
    BY <1>3, <1>4, Sizes, NotFull, Zenon
  <2> QED BY <1>3, <2>1, Sizes, AheadNext, Zenon
<1>6. Kept(n, b, t, h, shown, printed, torn) /\ printed \in Nat
  BY <1>1, Zenon DEF UpInv, Kept
<1>7. c \in [I -> Nat] /\ \A i \in I : i # h => c[i] = b[i]
  BY <1>1, <1>3, <1>6
<1>8. up' \in Rings(n) /\ up'.buf = c /\ up'.tail = t /\ up'.head = (h + 1) % n
  <2>1. up' = [up EXCEPT !.buf = c, !.head = (h + 1) % n]
    BY <1>1, <1>2, <1>4, Zenon DEF Rings
  <2>2. up'.buf = c /\ up'.head = (h + 1) % n /\ up'.tail = t
    BY <1>1, <1>2, <2>1, Zenon DEF Rings
  <2>3. up' = [buf |-> c, head |-> (h + 1) % n, tail |-> t]
    BY <1>1, <1>2, <2>1, Zenon DEF Rings
  <2>4. c \in [I -> Nat] /\ (h + 1) % n \in I /\ t \in I
    BY <1>3, <1>5, <1>7, Zenon
  <2> QED BY <2>2, <2>3, <2>4, Zenon DEF Rings
<1>9. Kept(n, c, t, (h + 1) % n, shown, printed + 1, torn)
  BY <1>1, <1>5, <1>6, Sizes, Offered, Zenon
<1>10. ASSUME rpc \in Copying PROVE Copied(up', upcopy, xmit_buf)
  <2>0. Len(xmit_buf) \in Nat /\ RingAhead(h, t, n) \in Nat
    <3>1. Len(xmit_buf) \in Nat
      BY <1>2
    <3> QED BY <1>3, <3>1, Sizes, AheadType, Zenon
  <2>1. PICK m, H : m = Len(xmit_buf) /\ H = RingAhead(h, t, n) /\ m \in Nat /\ H \in Nat
    BY <2>0, Zenon
  <2>2. /\ m <= XmitSize /\ m = RingAhead(upcopy.tail, t, n)
        /\ m + RingAhead(upcopy.head, upcopy.tail, n) <= H
        /\ \A k \in 1..m, i \in I : RingAhead(i, t, n) = k - 1 => xmit_buf[k] = b[i]
    BY <1>1, <1>10, <2>1, ZenonT(60) DEF UpInv, Copied
  <2>3. RingAhead(upcopy.head, upcopy.tail, n) \in Nat
    BY <1>3, Sizes, AheadType, Zenon
  <2>4. m + RingAhead(upcopy.head, upcopy.tail, n) <= H + 1 /\ m <= H
    BY <2>1, <2>2, <2>3
  <2>5. ASSUME NEW k \in 1..m, NEW i \in I, RingAhead(i, t, n) = k - 1 PROVE xmit_buf[k] = c[i]
    <3>1. i # h
      BY <2>1, <2>4, <2>5
    <3> QED BY <1>7, <2>2, <2>5, <3>1, Zenon
  <2> QED BY <1>5, <1>8, <2>1, <2>2, <2>4, <2>5, Zenon DEF Copied
<1> QED BY <1>2, <1>4, <1>8, <1>9, <1>10, Zenon DEF UpInv

LEMMA UpInit == RttPollInit => UpInv
<1> SUFFICES ASSUME RttPollInit PROVE UpInv
  BY Zenon
<1>1. /\ up = Ring(UpSize) /\ upcopy = NoCopy /\ xmit_buf = <<>> /\ shown = <<>> /\ printed = 0 /\ torn = FALSE
      /\ block \in {"empty", "ready"} /\ rpc = "idle"
  BY Zenon DEF RttPollInit
<1>2. Kept(UpSize, up.buf, up.tail, up.head, shown, printed, torn)
  BY <1>1, Sizes, NewKept, Zenon
<1>3. up \in Rings(UpSize) /\ upcopy \in Copies(UpSize)
  BY <1>1, Sizes, NewRing, Zenon
<1>4. rpc \notin Starting /\ rpc \notin Copying /\ block # "none" /\ xmit_buf \in Seq(Nat)
  BY <1>1 DEF Starting, Copying
<1> QED BY <1>2, <1>3, <1>4, Zenon DEF UpInv

LEMMA ReadChannelsUp ==
    ASSUME UpInv, ReadChannels
    PROVE  UpInv'
<1>1. /\ UNCHANGED <<up, block, printed, shown, xmit_buf, torn>> /\ rpc = "channels"
      /\ \/ upcopy' = [head |-> up.head, tail |-> up.tail] /\ rpc' = "print"
         \/ upcopy' = upcopy /\ rpc' = "done"
  BY Zenon DEF ReadChannels, rttTarget
<1>2. CASE upcopy' = upcopy /\ rpc' = "done"
  <2>1. rpc' \notin Starting /\ rpc' \notin Copying
    BY <1>2, Zenon DEF Starting, Copying
  <2> QED BY <1>1, <1>2, <2>1, UpQuiet, Zenon DEF UpInv
<1>3. CASE upcopy' = [head |-> up.head, tail |-> up.tail] /\ rpc' = "print"
  <2>1. up \in Rings(UpSize) /\ xmit_buf = <<>>
    BY <1>1, Zenon DEF UpInv, Starting
  <2>2. up.head \in 0..(UpSize - 1) /\ up.tail \in 0..(UpSize - 1)
    BY <2>1, RingField, Zenon
  <2>3. upcopy' \in Copies(UpSize) /\ upcopy'.head = up.head /\ upcopy'.tail = up.tail
    BY <1>3, <2>2, Zenon DEF Copies
  <2>4. Copied(up, upcopy', <<>>)
    <3>1. RingAhead(up.tail, up.tail, UpSize) = 0 /\ RingAhead(up.head, up.tail, UpSize) \in Nat
      BY <2>2, Sizes, AheadType, Zenon
    <3> QED BY <2>3, <3>1, Sizes DEF Copied
  <2> QED BY <1>1, <2>1, <2>3, <2>4, Zenon DEF UpInv
<1> QED BY <1>1, <1>2, <1>3, Zenon

LEMMA RestUp ==
    ASSUME UpInv,
           \/ poll_rtt \/ find_rtt \/ CheckHeader \/ PrintNothing \/ ReadNothing \/ ReadChar \/ WriteHead
           \/ PollDone \/ cmd_rtt \/ TargetReads \/ TargetRestarts \/ TargetSetsUp
    PROVE  UpInv'
<1>1. CASE poll_rtt
  <2>1. UNCHANGED <<up, block, printed, shown, torn, upcopy>> /\ xmit_buf' = <<>> /\ rpc' \in {"header", "find"}
    BY <1>1, Zenon DEF poll_rtt, rttTarget
  <2>2. rpc' \notin Copying /\ xmit_buf' \in Seq(Nat)
    BY <2>1 DEF Copying
  <2> QED BY <2>1, <2>2, Zenon DEF UpInv
<1>2. CASE find_rtt
  <2>1. /\ UNCHANGED <<up, block, printed, shown, xmit_buf, torn, upcopy>>
        /\ rpc = "find" /\ rpc' \in {"header", "done"}
    BY <1>2, Zenon DEF find_rtt, rttTarget
  <2>2. rpc \in Starting /\ rpc' \notin Copying
    BY <2>1, Zenon DEF Starting, Copying
  <2> QED BY <2>1, <2>2, UpQuiet, Zenon DEF UpInv
<1>3. CASE CheckHeader
  <2>1. /\ UNCHANGED <<up, block, printed, shown, xmit_buf, torn, upcopy>>
        /\ rpc = "header" /\ rpc' \in {"channels", "done"}
    BY <1>3, Zenon DEF CheckHeader, rttTarget
  <2>2. rpc \in Starting /\ rpc' \notin Copying
    BY <2>1, Zenon DEF Starting, Copying
  <2> QED BY <2>1, <2>2, UpQuiet, Zenon DEF UpInv
<1>4. CASE PrintNothing \/ ReadNothing \/ ReadChar \/ WriteHead \/ PollDone
  <2>1. /\ UNCHANGED <<up, block, printed, shown, xmit_buf, upcopy>> /\ (torn' = torn \/ torn' = TRUE)
        /\ rpc' \in {"read", "put", "done", "idle"}
    <3>1. CASE PrintNothing
      BY <3>1, Zenon DEF PrintNothing, rttTarget
    <3>2. CASE ReadNothing
      BY <3>2, Zenon DEF ReadNothing, rttTarget
    <3>3. CASE ReadChar
      BY <3>3, Zenon DEF ReadChar
    <3>4. CASE WriteHead
      BY <3>4, Zenon DEF WriteHead
    <3>5. CASE PollDone
      BY <3>5, Zenon DEF PollDone, rttTarget
    <3> QED BY <1>4, <3>1, <3>2, <3>3, <3>4, <3>5, Zenon
  <2>2. rpc' \notin Starting /\ rpc' \notin Copying
    BY <2>1, Zenon DEF Starting, Copying
  <2>3. block' = "none" => torn'
    <3>1. block = "none" => torn
      BY Zenon DEF UpInv
    <3>2. block' = block
      BY <2>1, Zenon
    <3>3. CASE torn' = torn
      BY <3>1, <3>2, <3>3, Zenon
    <3>4. CASE torn' = TRUE
      BY <3>4, Zenon
    <3> QED BY <2>1, <3>3, <3>4, Zenon
  <2> QED BY <2>1, <2>2, <2>3, UpQuiet, Zenon
<1>5. CASE cmd_rtt
  <2>1. /\ UNCHANGED <<up, block, printed, shown, xmit_buf, torn, rpc>> /\ rpc = "idle"
        /\ upcopy' \in {NoCopy, upcopy}
    BY <1>5, Zenon DEF cmd_rtt, rttTarget
  <2>2. rpc \notin Starting /\ rpc \notin Copying
    BY <2>1, Zenon DEF Starting, Copying
  <2>3. upcopy' \in Copies(UpSize)
    BY <2>1, Sizes, NewRing, Zenon DEF UpInv
  <2> QED BY <2>1, <2>2, <2>3, Zenon DEF UpInv
<1>6. CASE TargetReads
  BY <1>6, UpQuiet, Zenon DEF TargetReads, ProbeWaits, UpInv
<1>7. CASE TargetRestarts
  BY <1>7, UpQuiet, Zenon DEF TargetRestarts, ProbeWaits, UpInv
<1>8. CASE TargetSetsUp
  <2>1. /\ up' = Ring(UpSize) /\ UNCHANGED <<printed, shown, xmit_buf, torn, upcopy, rpc>>
        /\ block = "none" /\ block' = "ready" /\ rpc = "idle"
    BY <1>8, Zenon DEF TargetSetsUp, ProbeWaits
  <2>2. rpc \notin Starting /\ rpc \notin Copying /\ block' # "none"
    BY <2>1, Zenon DEF Starting, Copying
  <2>3. torn /\ up' \in Rings(UpSize)
    BY <2>1, Sizes, NewRing, Zenon DEF UpInv
  <2>4. Kept(UpSize, up'.buf, up'.tail, up'.head, shown, printed, torn)
    <3>1. shown \in Seq(Nat) /\ printed \in Nat /\ Rising(shown) /\ \A j \in 1..Len(shown) : shown[j] <= printed
      BY Zenon DEF UpInv, Kept
    <3>2. up'.buf \in [0..(UpSize - 1) -> Nat] /\ up'.head = 0 /\ up'.tail = 0
      BY <2>1, Sizes, NewRing, Zenon
    <3>3. Kept(UpSize, up'.buf, 0, 0, shown, printed, TRUE)
      BY <3>1, <3>2, Sizes, Empty, Zenon
    <3> QED BY <2>3, <3>2, <3>3, Zenon DEF Kept
  <2> QED BY <2>1, <2>2, <2>3, <2>4, Zenon DEF UpInv
<1> QED BY <1>1, <1>2, <1>3, <1>4, <1>5, <1>6, <1>7, <1>8, ZenonT(60)

LEMMA UpNext == UpInv /\ [RttPollNext]_rttPollVars => UpInv'
<1> SUFFICES ASSUME UpInv, [RttPollNext]_rttPollVars PROVE UpInv'
  BY Zenon
<1>1. CASE RttPollNext
  BY <1>1, ReadChannelsUp, PrintPartUp, WriteTailUp, TargetPrintsUp, RestUp, Zenon DEF RttPollNext
<1>2. CASE UNCHANGED rttPollVars
  BY <1>2, UpQuiet, Zenon DEF rttPollVars, rttTarget, UpInv
<1> QED BY <1>1, <1>2, Zenon

---------------------------------------------------------------------------
(* From the host to the target.                                            *)

\* The characters that left the probe's buffer, and the head up to which they are
\* in the ring while read_rtt has not told it.
Given(s) == MaxDown - Len(s)
Offering == {"print", "second", "tail", "read", "put"}
Top(p, d, c) == IF p \in Offering THEN c.head ELSE d.head

\* What waits in the probe follows what left it.
Waiting(s) == s \in Seq(Nat) /\ Len(s) <= MaxDown /\ \A i \in 1..Len(s) : s[i] = Given(s) + i

\* The target has not read beyond the copy's head, so the room read_rtt sees is free.
Free(d, c) == RingAhead(d.tail, c.tail, DownSize) + RingAhead(c.head, d.tail, DownSize) = RingAhead(c.head, c.tail, DownSize)

\* The ring d is kept up to top, which is not before its own head.
Filled(d, top, out, last, lossy) ==
    /\ Kept(DownSize, d.buf, d.tail, top, out, last, lossy)
    /\ RingAhead(d.head, d.tail, DownSize) <= RingAhead(top, d.tail, DownSize)

DownInv ==
    /\ down \in Rings(DownSize) /\ downcopy \in Copies(DownSize) /\ Waiting(typed)
    /\ Filled(down, Top(rpc, down, downcopy), entered, Given(typed), torn)
    /\ rpc \in Offering \ {"put"} => downcopy.head = down.head
    /\ rpc \in Offering => Free(down, downcopy)
    /\ block = "none" => torn

LEMMA FilledLoss ==
    ASSUME NEW d, NEW top, NEW out, NEW last, NEW lossy, Filled(d, top, out, last, lossy),
           NEW l, l = lossy \/ l = TRUE
    PROVE  Filled(d, top, out, last, l)
BY Sizes, LossKeeps, Zenon DEF Filled

LEMMA TornStays ==
    ASSUME block = "none" => torn, block' = block, torn' = torn \/ torn' = TRUE
    PROVE  block' = "none" => torn'
<1>1. CASE torn' = torn
  BY <1>1, Zenon
<1>2. CASE torn' = TRUE
  BY <1>2, Zenon
<1> QED BY <1>1, <1>2, Zenon

LEMMA DownQuiet ==
    ASSUME DownInv, UNCHANGED <<down, downcopy, typed, entered>>, torn' = torn \/ torn' = TRUE,
           block' = "none" => torn',
           \/ rpc' \in Offering \ {"put"} /\ rpc \in Offering \ {"put"}
           \/ rpc' \notin Offering /\ rpc \notin Offering \ {"read"}
           \/ rpc' = rpc
    PROVE  DownInv'
<1>1. rpc' \in Offering => rpc \in Offering
  BY Zenon
<1>2. rpc' \in Offering \ {"put"} => rpc \in Offering \ {"put"}
  BY Zenon
<1>3. Top(rpc', down, downcopy) = Top(rpc, down, downcopy)
  <2>1. CASE rpc = "read"
    <3>1. downcopy.head = down.head
      BY <2>1, Zenon DEF DownInv, Offering
    <3> QED BY <3>1, Zenon DEF Top
  <2>2. CASE rpc # "read"
    <3>1. rpc' \in Offering <=> rpc \in Offering
      BY <2>2, Zenon
    <3> QED BY <3>1, Zenon DEF Top
  <2> QED BY <2>1, <2>2, Zenon
<1>4. Filled(down, Top(rpc', down, downcopy), entered, Given(typed), torn')
  BY <1>3, FilledLoss, Zenon DEF DownInv
<1> QED BY <1>1, <1>2, <1>4, Zenon DEF DownInv

LEMMA DownInit == RttPollInit => DownInv
<1> SUFFICES ASSUME RttPollInit PROVE DownInv
  BY Zenon
<1>1. /\ down = Ring(DownSize) /\ downcopy = NoCopy /\ typed = [i \in 1..MaxDown |-> i] /\ entered = <<>>
      /\ torn = FALSE /\ block \in {"empty", "ready"} /\ rpc = "idle"
  BY Zenon DEF RttPollInit
<1>2. typed \in [1..MaxDown -> Nat] /\ \A i \in 1..MaxDown : typed[i] = i
  BY <1>1, Sizes
<1>3. typed \in Seq(Nat) /\ Len(typed) = MaxDown
  BY <1>2, Sizes, FunSeq, Zenon
<1>4. Given(typed) = 0 /\ Waiting(typed)
  BY <1>2, <1>3, Sizes, SMTT(60) DEF Given, Waiting
<1>5. rpc \notin Offering /\ block # "none"
  BY <1>1, Zenon DEF Offering
<1>6. Kept(DownSize, down.buf, down.tail, down.head, entered, 0, torn)
  BY <1>1, Sizes, NewKept, Zenon
<1>7. down \in Rings(DownSize) /\ downcopy \in Copies(DownSize) /\ down.head = 0 /\ down.tail = 0
  BY <1>1, Sizes, NewRing, Zenon
<1>8. RingAhead(0, 0, DownSize) <= RingAhead(0, 0, DownSize)
  BY Sizes DEF RingAhead
<1>9. Filled(down, Top(rpc, down, downcopy), entered, Given(typed), torn)
  BY <1>4, <1>5, <1>6, <1>7, <1>8, Zenon DEF Filled, Top
<1> QED BY <1>4, <1>5, <1>7, <1>9, Zenon DEF DownInv

\* A character leaves the probe's buffer.
LEMMA NextChar ==
    ASSUME NEW s, Waiting(s), s # <<>>
    PROVE  /\ Waiting(Tail(s)) /\ Given(s) \in Nat /\ Given(Tail(s)) = Given(s) + 1 /\ Head(s) = Given(s) + 1
<1>1. s \in Seq(Nat) /\ Len(s) \in Nat /\ Len(s) > 0 /\ Len(s) <= MaxDown
  BY DEF Waiting
<1>2. /\ Tail(s) \in Seq(Nat) /\ Len(Tail(s)) = Len(s) - 1 /\ Head(s) = s[1]
      /\ \A i \in 1..(Len(s) - 1) : Tail(s)[i] = s[i + 1]
  BY <1>1
<1>3. \A i \in 1..Len(s) : s[i] = Given(s) + i
  BY Zenon DEF Waiting
<1>4. Given(s) \in Nat /\ Given(Tail(s)) = Given(s) + 1
  BY <1>1, <1>2, Sizes, SMTT(60) DEF Given
<1>5. ASSUME NEW i \in 1..Len(Tail(s)) PROVE Tail(s)[i] = Given(Tail(s)) + i
  <2>1. i \in 1..(Len(s) - 1) /\ i + 1 \in 1..Len(s)
    BY <1>1, <1>2
  <2>2. Tail(s)[i] = Given(s) + (i + 1)
    BY <1>2, <1>3, <2>1, Zenon
  <2> QED BY <1>4, <2>1, <2>2, SMTT(60)
<1>6. Head(s) = Given(s) + 1
  BY <1>1, <1>2, <1>3, SMTT(60)
<1>7. Len(Tail(s)) <= MaxDown
  BY <1>1, <1>2, Sizes
<1> QED BY <1>2, <1>4, <1>5, <1>6, <1>7, ZenonT(60) DEF Waiting

\* There is room in the ring when read_rtt sees room in its copy.
LEMMA FreeRoom ==
    ASSUME NEW d \in Rings(DownSize), NEW c \in Copies(DownSize), Free(d, c),
           (c.head + 1) % DownSize # c.tail
    PROVE  /\ (c.head + 1) % DownSize \in 0..(DownSize - 1)
           /\ RingAhead(c.head, d.tail, DownSize) < DownSize - 1
           /\ RingAhead((c.head + 1) % DownSize, d.tail, DownSize) = RingAhead(c.head, d.tail, DownSize) + 1
           /\ RingAhead((c.head + 1) % DownSize, c.tail, DownSize) = RingAhead(c.head, c.tail, DownSize) + 1
<1> DEFINE n == DownSize
<1>1. d.tail \in 0..(n - 1) /\ c.head \in 0..(n - 1) /\ c.tail \in 0..(n - 1)
  BY RingField, CopyField, Zenon
<1>2. RingAhead(c.head, c.tail, n) < n - 1
  BY <1>1, Sizes, NotFull, Zenon
<1>3. RingAhead(d.tail, c.tail, n) \in Nat /\ RingAhead(c.head, d.tail, n) \in Nat /\ RingAhead(c.head, c.tail, n) \in Nat
  BY <1>1, Sizes, AheadType, ZenonT(60)
<1>4. RingAhead(c.head, d.tail, n) < n - 1
  BY <1>2, <1>3, Sizes, SMTT(60) DEF Free
<1> QED BY <1>1, <1>2, <1>4, Sizes, AheadNext, Zenon

LEMMA ReadCharDown ==
    ASSUME DownInv, ReadChar
    PROVE  DownInv'
<1> DEFINE n == DownSize
           I == 0..(n - 1)
<1>1. /\ rpc \in {"read", "put"} /\ typed # <<>> /\ typed' = Tail(typed) /\ (downcopy.head + 1) % n # downcopy.tail
      /\ UNCHANGED <<block, entered>>
      /\ \/ /\ down' = [down EXCEPT !.buf[downcopy.head] = Head(typed)]
            /\ downcopy' = [downcopy EXCEPT !.head = (@ + 1) % n]
            /\ rpc' = "put" /\ torn' = torn
         \/ torn' = TRUE /\ rpc' = "done" /\ down' = down /\ downcopy' = downcopy
  BY Zenon DEF ReadChar, DownFull
<1>2. rpc \in Offering
  BY <1>1, Zenon DEF Offering
<1>3. down \in Rings(n) /\ downcopy \in Copies(n) /\ Waiting(typed) /\ Free(down, downcopy)
  BY <1>2, Zenon DEF DownInv
<1>4. PICK b, t, h, k, l : b = down.buf /\ t = down.tail /\ h = down.head /\ k = downcopy.head /\ l = Given(typed)
  BY Zenon
<1>5. b \in [I -> Nat] /\ t \in I /\ h \in I /\ k \in I
  BY <1>3, <1>4, RingField, CopyField, Zenon
<1>6. Waiting(typed') /\ l \in Nat /\ Given(typed') = l + 1 /\ Head(typed) = l + 1
  BY <1>1, <1>3, <1>4, NextChar, Zenon
<1>7. Kept(n, b, t, k, entered, l, torn) /\ RingAhead(h, t, n) <= RingAhead(k, t, n)
  BY <1>2, <1>4, Zenon DEF DownInv, Filled, Top
<1>8. block' = "none" => torn'
  BY <1>1, TornStays, Zenon DEF DownInv
<1>9. CASE /\ down' = [down EXCEPT !.buf[downcopy.head] = Head(typed)]
           /\ downcopy' = [downcopy EXCEPT !.head = (@ + 1) % n]
           /\ rpc' = "put" /\ torn' = torn
  <2>1. PICK a, m : a = [b EXCEPT ![k] = l + 1] /\ m = (k + 1) % n
    BY Zenon
  <2>2. /\ m \in I /\ RingAhead(k, t, n) < n - 1 /\ RingAhead(m, t, n) = RingAhead(k, t, n) + 1
        /\ RingAhead(m, downcopy.tail, n) = RingAhead(k, downcopy.tail, n) + 1
    BY <1>1, <1>3, <1>4, <2>1, FreeRoom, Zenon
  <2>3. Kept(n, a, t, m, entered, l + 1, torn)
    BY <1>7, <2>1, <2>2, Sizes, Offered, Zenon
  <2>4. a \in [I -> Nat]
    BY <2>3, Zenon DEF Kept
  <2>5. down' = [down EXCEPT !.buf = a]
    BY <1>3, <1>4, <1>6, <1>9, <2>1, Zenon DEF Rings
  <2>6. down' = [buf |-> a, head |-> h, tail |-> t]
    BY <1>3, <1>4, <2>5, Zenon DEF Rings
  <2>7. down' \in Rings(n) /\ down'.buf = a /\ down'.head = h /\ down'.tail = t
    BY <1>5, <2>4, <2>6, Zenon DEF Rings
  <2>8. downcopy' \in Copies(n) /\ downcopy'.head = m /\ downcopy'.tail = downcopy.tail
    BY <1>3, <1>4, <1>9, <2>1, <2>2, ZenonT(60) DEF Copies
  <2>9. RingAhead(t, downcopy.tail, n) \in Nat /\ RingAhead(k, t, n) \in Nat /\ RingAhead(h, t, n) \in Nat
    <3>1. downcopy.tail \in I
      BY <1>3, CopyField, ZenonT(60)
    <3> QED BY <1>5, <3>1, Sizes, AheadType, ZenonT(60)
  <2>10. RingAhead(h, t, n) <= RingAhead(m, t, n)
    BY <1>7, <2>2, <2>9, SMTT(60)
  <2>11. Free(down', downcopy')
    <3>1. RingAhead(t, downcopy.tail, n) + RingAhead(k, t, n) = RingAhead(k, downcopy.tail, n)
      BY <1>3, <1>4, ZenonT(60) DEF Free
    <3>2. RingAhead(t, downcopy.tail, n) + RingAhead(m, t, n) = RingAhead(m, downcopy.tail, n)
      BY <2>2, <2>9, <3>1, SMTT(60)
    <3> QED BY <2>7, <2>8, <3>2, Zenon DEF Free
  <2>12. rpc' \in Offering /\ rpc' \notin Offering \ {"put"}
    BY <1>9, Zenon DEF Offering
  <2>13. Filled(down', Top(rpc', down', downcopy'), entered, l + 1, torn)
    BY <2>3, <2>7, <2>8, <2>10, <2>12, ZenonT(60) DEF Filled, Top
  <2> QED BY <1>1, <1>6, <1>8, <1>9, <2>7, <2>8, <2>11, <2>12, <2>13, ZenonT(60) DEF DownInv
<1>10. CASE torn' = TRUE /\ rpc' = "done" /\ down' = down /\ downcopy' = downcopy
  <2>1. l + 1 \in Nat /\ l <= l + 1
    BY <1>6
  <2>2. Kept(n, b, t, h, entered, l + 1, TRUE)
    BY <1>5, <1>7, <2>1, Sizes, GivenUp, ZenonT(60)
  <2>3. rpc' \notin Offering
    BY <1>10, Zenon DEF Offering
  <2>4. RingAhead(h, t, n) <= RingAhead(h, t, n)
    BY <1>5, Sizes, AheadType, SMTT(60)
  <2>5. Filled(down, Top(rpc', down, downcopy), entered, l + 1, TRUE)
    BY <1>4, <2>2, <2>3, <2>4, Zenon DEF Filled, Top
  <2> QED BY <1>1, <1>3, <1>6, <1>8, <1>10, <2>3, <2>5, ZenonT(60) DEF DownInv
<1> QED BY <1>1, <1>9, <1>10, Zenon

LEMMA WriteHeadDown ==
    ASSUME DownInv, WriteHead
    PROVE  DownInv'
<1> DEFINE n == DownSize
           I == 0..(n - 1)
<1>1. /\ rpc \in {"read", "put"} /\ rpc' = "done" /\ UNCHANGED <<block, entered, typed, downcopy>>
      /\ torn' = torn \/ torn' = TRUE
      /\ \/ down' = [down EXCEPT !.head = downcopy.head]
         \/ torn' = TRUE /\ down' = down
  BY Zenon DEF WriteHead
<1>2. rpc \in Offering /\ rpc' \notin Offering
  BY <1>1, Zenon DEF Offering
<1>3. down \in Rings(n) /\ downcopy \in Copies(n) /\ Waiting(typed)
  BY Zenon DEF DownInv
<1>4. PICK b, t, h, k, l : b = down.buf /\ t = down.tail /\ h = down.head /\ k = downcopy.head /\ l = Given(typed)
  BY Zenon
<1>5. b \in [I -> Nat] /\ t \in I /\ h \in I /\ k \in I
  BY <1>3, <1>4, RingField, CopyField, Zenon
<1>6. Kept(n, b, t, k, entered, l, torn) /\ RingAhead(h, t, n) <= RingAhead(k, t, n)
  BY <1>2, <1>4, Zenon DEF DownInv, Filled, Top
<1>7. RingAhead(h, t, n) <= RingAhead(h, t, n) /\ RingAhead(k, t, n) <= RingAhead(k, t, n)
  BY <1>5, Sizes, AheadType, SMTT(60)
<1>8. block' = "none" => torn'
  BY <1>1, TornStays, Zenon DEF DownInv
<1>9. CASE down' = [down EXCEPT !.head = downcopy.head]
  <2>1. down' = [buf |-> b, head |-> k, tail |-> t]
    BY <1>3, <1>4, <1>9, Zenon DEF Rings
  <2>2. down' \in Rings(n) /\ down'.buf = b /\ down'.head = k /\ down'.tail = t
    BY <1>5, <2>1, Zenon DEF Rings
  <2>3. Kept(n, b, t, k, entered, l, torn')
    BY <1>1, <1>6, Sizes, LossKeeps, Zenon
  <2>4. Filled(down', Top(rpc', down', downcopy), entered, l, torn')
    BY <1>2, <1>7, <2>2, <2>3, Zenon DEF Filled, Top
  <2> QED BY <1>1, <1>2, <1>3, <1>4, <1>8, <2>2, <2>4, ZenonT(60) DEF DownInv
<1>10. CASE torn' = TRUE /\ down' = down
  <2>1. l \in Nat /\ l <= l
    BY <1>6 DEF Kept
  <2>2. Kept(n, b, t, h, entered, l, TRUE)
    BY <1>5, <1>6, <2>1, Sizes, GivenUp, Zenon
  <2>3. Filled(down, Top(rpc', down, downcopy), entered, l, TRUE)
    BY <1>2, <1>4, <1>7, <2>2, Zenon DEF Filled, Top
  <2> QED BY <1>1, <1>2, <1>3, <1>4, <1>8, <1>10, <2>3, ZenonT(60) DEF DownInv
<1> QED BY <1>1, <1>9, <1>10, Zenon

\* The tail moves on by one, towards the head.
LEMMA TailNext ==
    ASSUME NEW n \in Nat, n > 0, NEW t \in 0..(n - 1), NEW h \in 0..(n - 1), h # t, NEW g \in 0..(n - 1),
           RingAhead(h, t, n) <= RingAhead(g, t, n)
    PROVE  /\ (t + 1) % n \in 0..(n - 1) /\ RingAhead((t + 1) % n, t, n) = 1
           /\ RingAhead((t + 1) % n, t, n) <= RingAhead(g, t, n)
           /\ RingAhead(h, (t + 1) % n, n) <= RingAhead(g, (t + 1) % n, n)
           /\ \A c \in 0..(n - 1) :
                RingAhead(t, c, n) + RingAhead(g, t, n) = RingAhead(g, c, n) =>
                  RingAhead((t + 1) % n, c, n) + RingAhead(g, (t + 1) % n, n) = RingAhead(g, c, n)
<1>1. PICK v : v = (t + 1) % n
  BY Zenon
<1>2. v = IF t + 1 < n THEN t + 1 ELSE t + 1 - n
  BY <1>1, Onward, SMTT(60)
<1>3. v \in 0..(n - 1) /\ RingAhead(v, t, n) = 1 /\ RingAhead(v, t, n) <= RingAhead(g, t, n) /\ RingAhead(h, v, n) <= RingAhead(g, v, n)
  BY <1>2, SMTT(60) DEF RingAhead
<1>4. ASSUME NEW c \in 0..(n - 1), RingAhead(t, c, n) + RingAhead(g, t, n) = RingAhead(g, c, n)
      PROVE  RingAhead(v, c, n) + RingAhead(g, v, n) = RingAhead(g, c, n)
  BY <1>2, <1>4 DEF RingAhead
<1> QED BY <1>1, <1>3, <1>4, Zenon

LEMMA OneMore ==
    ASSUME NEW e \in Seq(Nat), NEW v \in Nat
    PROVE  <<v>> \in Seq(Nat) /\ Len(<<v>>) = 1 /\ <<v>>[1] = v /\ Append(e, v) = e \o <<v>>
OBVIOUS

LEMMA TargetReadsDown ==
    ASSUME DownInv, TargetReads
    PROVE  DownInv'
<1> DEFINE n == DownSize
           I == 0..(n - 1)
<1>1. /\ down.head # down.tail /\ UNCHANGED <<block, torn, typed, rpc, downcopy>>
      /\ entered' = Append(entered, down.buf[down.tail])
      /\ down' = [down EXCEPT !.tail = (@ + 1) % n]
  BY Zenon DEF TargetReads, ProbeWaits
<1>2. down \in Rings(n) /\ downcopy \in Copies(n) /\ Waiting(typed)
  BY Zenon DEF DownInv
<1>3. PICK b, t, h, k, l, u :
        b = down.buf /\ t = down.tail /\ h = down.head /\ k = Top(rpc, down, downcopy) /\ l = Given(typed) /\ u = (t + 1) % n
  BY Zenon
<1>4. b \in [I -> Nat] /\ t \in I /\ h \in I /\ k \in I /\ downcopy.tail \in I
  BY <1>2, <1>3, RingField, CopyField, Zenon DEF Top
<1>5. Kept(n, b, t, k, entered, l, torn) /\ RingAhead(h, t, n) <= RingAhead(k, t, n)
  BY <1>3, Zenon DEF DownInv, Filled
<1>6. /\ u \in I /\ RingAhead(u, t, n) = 1 /\ RingAhead(u, t, n) <= RingAhead(k, t, n) /\ RingAhead(h, u, n) <= RingAhead(k, u, n)
      /\ RingAhead(t, downcopy.tail, n) + RingAhead(k, t, n) = RingAhead(k, downcopy.tail, n) =>
           RingAhead(u, downcopy.tail, n) + RingAhead(k, u, n) = RingAhead(k, downcopy.tail, n)
  <2>1. t \in I /\ h \in I /\ k \in I /\ downcopy.tail \in I /\ h # t /\ RingAhead(h, t, n) <= RingAhead(k, t, n)
    BY <1>1, <1>3, <1>4, <1>5, ZenonT(60)
  <2>2. /\ (t + 1) % n \in I /\ RingAhead((t + 1) % n, t, n) = 1
        /\ RingAhead((t + 1) % n, t, n) <= RingAhead(k, t, n)
        /\ RingAhead(h, (t + 1) % n, n) <= RingAhead(k, (t + 1) % n, n)
        /\ RingAhead(t, downcopy.tail, n) + RingAhead(k, t, n) = RingAhead(k, downcopy.tail, n) =>
             RingAhead((t + 1) % n, downcopy.tail, n) + RingAhead(k, (t + 1) % n, n) = RingAhead(k, downcopy.tail, n)
    BY <2>1, Sizes, TailNext, ZenonT(60)
  <2>3. u = (t + 1) % n
    BY <1>3, Zenon
  <2> QED BY <2>2, <2>3, Zenon
<1>7. down' = [buf |-> b, head |-> h, tail |-> u]
  BY <1>1, <1>2, <1>3, Zenon DEF Rings
<1>8. down' \in Rings(n) /\ down'.buf = b /\ down'.head = h /\ down'.tail = u
  BY <1>4, <1>6, <1>7, Zenon DEF Rings
<1>9. PICK x : x = <<b[t]>>
  BY Zenon
<1>10. entered \in Seq(Nat) /\ b[t] \in Nat
  BY <1>4, <1>5, Zenon DEF Kept
<1>11. x \in Seq(Nat) /\ Len(x) = 1 /\ x[1] = b[t] /\ entered' = entered \o x
  BY <1>1, <1>3, <1>9, <1>10, OneMore, ZenonT(60)
<1>12. ASSUME NEW p \in 1..Len(x), NEW i \in I, RingAhead(i, t, n) = p - 1 PROVE x[p] = b[i]
  <2>1. p = 1 /\ RingAhead(i, t, n) = 0
    BY <1>11, <1>12, SMTT(60)
  <2>2. i = t
    BY <1>4, <2>1, Sizes, AheadType, ZenonT(60)
  <2> QED BY <1>11, <2>1, <2>2, ZenonT(60)
<1>13. Kept(n, b, u, k, entered \o x, l, torn)
  <2>1. Len(x) = RingAhead(u, t, n)
    BY <1>6, <1>11, Zenon
  <2> QED BY <1>5, <1>6, <1>11, <1>12, <2>1, Sizes, TakenOut, Zenon
<1>14. Top(rpc, down', downcopy) = k
  BY <1>3, <1>8, Zenon DEF Top
<1>15. Filled(down', Top(rpc, down', downcopy), entered', l, torn)
  BY <1>6, <1>8, <1>11, <1>13, <1>14, ZenonT(60) DEF Filled
<1>16. rpc \in Offering => Free(down', downcopy)
  <2> SUFFICES ASSUME rpc \in Offering PROVE Free(down', downcopy)
    BY Zenon
  <2>1. k = downcopy.head /\ Free(down, downcopy)
    BY <1>3, Zenon DEF DownInv, Top
  <2> QED BY <1>3, <1>6, <1>8, <2>1, ZenonT(60) DEF Free
<1>17. rpc \in Offering \ {"put"} => downcopy.head = down'.head
  BY <1>3, <1>8, Zenon DEF DownInv
<1> QED BY <1>1, <1>2, <1>3, <1>8, <1>15, <1>16, <1>17, ZenonT(60) DEF DownInv

LEMMA ReadChannelsDown ==
    ASSUME DownInv, ReadChannels
    PROVE  DownInv'
<1>1. /\ UNCHANGED <<down, block, entered, typed, torn>> /\ rpc = "channels"
      /\ \/ downcopy' = [head |-> down.head, tail |-> down.tail] /\ rpc' = "print"
         \/ downcopy' = downcopy /\ rpc' = "done"
  BY Zenon DEF ReadChannels, rttTarget
<1>2. rpc \notin Offering
  BY <1>1, Zenon DEF Offering
<1>3. CASE downcopy' = downcopy /\ rpc' = "done"
  <2>1. rpc' \notin Offering
    BY <1>3, Zenon DEF Offering
  <2> QED BY <1>1, <1>2, <1>3, <2>1, DownQuiet, Zenon DEF DownInv
<1>4. CASE downcopy' = [head |-> down.head, tail |-> down.tail] /\ rpc' = "print"
  <2>1. rpc' \in Offering
    BY <1>4, Zenon DEF Offering
  <2>2. down.head \in 0..(DownSize - 1) /\ down.tail \in 0..(DownSize - 1)
    BY RingField, Zenon DEF DownInv
  <2>3. downcopy' \in Copies(DownSize) /\ downcopy'.head = down.head /\ downcopy'.tail = down.tail
    BY <1>4, <2>2, Zenon DEF Copies
  <2>4. Top(rpc', down, downcopy') = Top(rpc, down, downcopy)
    BY <1>2, <2>1, <2>3, Zenon DEF Top
  <2>5. Free(down, downcopy')
    <3>1. RingAhead(down.tail, down.tail, DownSize) = 0 /\ RingAhead(down.head, down.tail, DownSize) \in Nat
      BY <2>2, Sizes, AheadType, ZenonT(60)
    <3>2. RingAhead(down.tail, down.tail, DownSize) + RingAhead(down.head, down.tail, DownSize) = RingAhead(down.head, down.tail, DownSize)
      BY <3>1
    <3> QED BY <2>3, <3>2, Zenon DEF Free
  <2> QED BY <1>1, <2>3, <2>4, <2>5, Zenon DEF DownInv
<1> QED BY <1>1, <1>3, <1>4, Zenon

LEMMA RestDown ==
    ASSUME DownInv,
           \/ poll_rtt \/ find_rtt \/ CheckHeader \/ PrintNothing \/ PrintPart \/ WriteTail \/ ReadNothing
           \/ PollDone \/ cmd_rtt \/ TargetPrints \/ TargetRestarts \/ TargetSetsUp
    PROVE  DownInv'
<1>1. CASE poll_rtt \/ find_rtt \/ CheckHeader \/ PollDone
  <2>1. /\ UNCHANGED <<down, downcopy, typed, entered, torn, block>>
        /\ {rpc, rpc'} \subseteq {"idle", "find", "header", "channels", "done"}
    BY <1>1, Zenon DEF poll_rtt, find_rtt, CheckHeader, PollDone, rttTarget
  <2>2. rpc' \notin Offering /\ rpc \notin Offering
    BY <2>1, Zenon DEF Offering
  <2> QED BY <2>1, <2>2, DownQuiet, Zenon DEF DownInv
<1>2. CASE PrintNothing \/ PrintPart \/ WriteTail
  <2>1. /\ UNCHANGED <<down, downcopy, typed, entered, block>> /\ (torn' = torn \/ torn' = TRUE)
        /\ {rpc, rpc'} \subseteq {"print", "second", "tail", "read"}
    <3>1. CASE PrintNothing
      BY <3>1, Zenon DEF PrintNothing, rttTarget
    <3>2. CASE PrintPart
      <4>1. rpc \in {"print", "second"} /\ rpc' \in {"second", "tail", "read"}
        BY <3>2, Zenon DEF PrintPart
      <4>2. UNCHANGED <<down, downcopy, typed, entered, block, torn>>
        BY <3>2, Zenon DEF PrintPart, rttTarget
      <4>3. {rpc, rpc'} \subseteq {"print", "second", "tail", "read"}
        BY <4>1, Zenon
      <4> QED BY <4>2, <4>3, Zenon
    <3>3. CASE WriteTail
      <4>1. rpc \in {"tail", "second"} /\ rpc' = "read" /\ UNCHANGED <<down, downcopy, typed, entered, block>>
        BY <3>3, Zenon DEF WriteTail
      <4>2. torn' = torn \/ torn' = TRUE
        BY <3>3, Zenon DEF WriteTail
      <4>3. {rpc, rpc'} \subseteq {"print", "second", "tail", "read"}
        BY <4>1, Zenon
      <4> QED BY <4>1, <4>2, <4>3, Zenon
    <3> QED BY <1>2, <3>1, <3>2, <3>3, Zenon
  <2>2. rpc' \in Offering \ {"put"} /\ rpc \in Offering \ {"put"}
    BY <2>1, Zenon DEF Offering
  <2>3. block' = "none" => torn'
    BY <2>1, TornStays, Zenon DEF DownInv
  <2> QED BY <2>1, <2>2, <2>3, DownQuiet, Zenon
<1>3. CASE ReadNothing
  <2>1. UNCHANGED <<down, downcopy, typed, entered, torn, block>> /\ rpc = "read" /\ rpc' = "done"
    BY <1>3, Zenon DEF ReadNothing, rttTarget
  <2>2. rpc' \notin Offering /\ rpc \notin Offering \ {"read"}
    BY <2>1, Zenon DEF Offering
  <2> QED BY <2>1, <2>2, DownQuiet, Zenon DEF DownInv
<1>4. CASE TargetPrints
  BY <1>4, DownQuiet, Zenon DEF TargetPrints, ProbeWaits, DownInv
<1>5. CASE TargetRestarts
  BY <1>5, DownQuiet, Zenon DEF TargetRestarts, ProbeWaits, DownInv
<1>6. CASE cmd_rtt
  <2>1. UNCHANGED <<down, block, typed, entered, torn, rpc>> /\ rpc = "idle" /\ downcopy' \in {NoCopy, downcopy}
    BY <1>6, Zenon DEF cmd_rtt, rttTarget
  <2>2. rpc \notin Offering
    BY <2>1, Zenon DEF Offering
  <2>3. downcopy' \in Copies(DownSize)
    BY <2>1, Sizes, NewRing, Zenon DEF DownInv
  <2>4. Top(rpc, down, downcopy') = Top(rpc, down, downcopy)
    BY <2>2, Zenon DEF Top
  <2> QED BY <2>1, <2>2, <2>3, <2>4, Zenon DEF DownInv
<1>7. CASE TargetSetsUp
  <2>1. /\ down' = Ring(DownSize) /\ UNCHANGED <<typed, entered, torn, downcopy, rpc>>
        /\ block = "none" /\ block' = "ready" /\ rpc = "idle"
    BY <1>7, Zenon DEF TargetSetsUp, ProbeWaits
  <2>2. rpc \notin Offering /\ block' # "none"
    BY <2>1, Zenon DEF Offering
  <2>3. torn /\ down' \in Rings(DownSize) /\ downcopy \in Copies(DownSize) /\ Waiting(typed)
    BY <2>1, Sizes, NewRing, Zenon DEF DownInv
  <2>4. down'.buf \in [0..(DownSize - 1) -> Nat] /\ down'.head = 0 /\ down'.tail = 0
    BY <2>1, Sizes, NewRing, Zenon
  <2>5. PICK l : l = Given(typed)
    BY Zenon
  <2>6. entered \in Seq(Nat) /\ l \in Nat /\ Rising(entered) /\ \A j \in 1..Len(entered) : entered[j] <= l
    BY <2>5, Zenon DEF DownInv, Filled, Kept
  <2>7. Kept(DownSize, down'.buf, 0, 0, entered, l, TRUE)
    BY <2>4, <2>6, Sizes, Empty, Zenon
  <2>8. Kept(DownSize, down'.buf, 0, 0, entered, l, torn)
    BY <2>3, <2>7, Zenon DEF Kept
  <2>9. RingAhead(0, 0, DownSize) <= RingAhead(0, 0, DownSize)
    BY Sizes DEF RingAhead
  <2>10. Filled(down', Top(rpc, down', downcopy), entered, l, torn)
    BY <2>2, <2>4, <2>8, <2>9, ZenonT(60) DEF Filled, Top
  <2> QED BY <2>1, <2>2, <2>3, <2>5, <2>10, Zenon DEF DownInv
<1> QED BY <1>1, <1>2, <1>3, <1>4, <1>5, <1>6, <1>7, Zenon

LEMMA DownNext == DownInv /\ [RttPollNext]_rttPollVars => DownInv'
<1> SUFFICES ASSUME DownInv, [RttPollNext]_rttPollVars PROVE DownInv'
  BY Zenon
<1>1. CASE RttPollNext
  BY <1>1, ReadCharDown, WriteHeadDown, TargetReadsDown, ReadChannelsDown, RestDown, Zenon DEF RttPollNext
<1>2. CASE UNCHANGED rttPollVars
  BY <1>2, DownQuiet, Zenon DEF rttPollVars, rttTarget, DownInv
<1> QED BY <1>1, <1>2, Zenon

\* Real time transfer (rtt.c) loses, repeats and reorders nothing: for rings of every
\* size, however the accesses of print_rtt and read_rtt interleave with the target's
\* and whichever of them fail, the host sees the characters the target printed and the
\* target those the host typed, in order and once, and all of them unless a failing
\* access or a restart of the target lost some.
THEOREM RttKept == RttPollSpec => []RttExact
<1>1. UpInv /\ DownInv => RttExact
  <2> SUFFICES ASSUME UpInv, DownInv PROVE RttExact
    BY Zenon
  <2>1. Rising(shown) /\ (~torn => Complete(shown))
    BY Zenon DEF UpInv, Kept
  <2>2. Rising(entered) /\ (~torn => Complete(entered))
    BY Zenon DEF DownInv, Filled, Kept
  <2> QED BY <2>1, <2>2, Zenon DEF RttExact
<1> QED BY <1>1, UpInit, UpNext, DownInit, DownNext, PTL DEF RttPollSpec

=============================================================================
