------------------------------ MODULE RttPoll ------------------------------
(***************************************************************************)
(* Polling of real time transfer (rtt.c): the probe finds the control      *)
(* block in the target's memory, copies what the target printed out of one *)
(* ring buffer and what the host typed into another, one memory access     *)
(* after the other, while the target goes on printing and reading.  Any    *)
(* access may fail, and the target may start anew between two polls.       *)
(*                                                                         *)
(* A character is the number of its place in its stream.  The halt around  *)
(* a poll is for cores that no driver supports and is left out.            *)
(***************************************************************************)
EXTENDS Integers, Sequences

CONSTANTS
    UpSize, DownSize,   \* of the ring buffers in the target
    XmitSize,           \* characters xmit_buf has room for
    MaxUp, MaxDown,     \* characters the target prints and the host types
    MaxFailures,        \* accesses that fail
    rtt_max_poll_errs

\* print_rtt and read_rtt refuse a channel without a buffer.
ASSUME RttPollAssumption ==
    {UpSize, DownSize} \subseteq Nat \ {0} /\ {XmitSize, MaxUp, MaxDown, MaxFailures} \subseteq Nat

VARIABLES
    block,      \* the control block in the target: "none", "empty" (no channels) or "ready"
    up, down,   \* its channels: buf, head, tail
    printed,    \* characters the target has printed
    entered,    \* characters the target has read
    typed,      \* characters that wait in the probe for the target
    rtt_on, rtt_found,  \* rtt_enabled, rtt_found
    poll_errs,
    rpc,        \* where poll_rtt is
    rtt_err,
    upcopy, downcopy,   \* head and tail of the channels in rtt_channel
    xmit_buf,   \* characters copied in this poll
    shown,      \* characters the host has received
    failures,
    torn        \* characters were lost by an access that failed or by a restart

rttTarget == <<block, up, down, printed, entered>>
rttPollVars == <<rttTarget, typed, rtt_on, rtt_found, poll_errs, rpc, rtt_err, upcopy, downcopy,
                 xmit_buf, shown, failures, torn>>

Ring(n) == [buf |-> [i \in 0..(n - 1) |-> 0], head |-> 0, tail |-> 0]
NoCopy == [head |-> 0, tail |-> 0]

RttPollInit ==
    /\ block \in {"empty", "ready"} /\ up = Ring(UpSize) /\ down = Ring(DownSize)
    /\ printed = 0 /\ entered = <<>>
    /\ typed = [i \in 1..MaxDown |-> i]
    /\ rtt_on = TRUE /\ rtt_found = FALSE /\ poll_errs = 0
    /\ rpc = "idle" /\ rtt_err = FALSE
    /\ upcopy = NoCopy /\ downcopy = NoCopy /\ xmit_buf = <<>>
    /\ shown = <<>> /\ failures = 0 /\ torn = FALSE

---------------------------------------------------------------------------
(* poll_rtt.                                                               *)

Succeeds == UNCHANGED failures
Fails == failures < MaxFailures /\ failures' = failures + 1

\* The time for a poll has come.
poll_rtt ==
    /\ rpc = "idle" /\ rtt_on
    /\ rpc' = IF rtt_found THEN "header" ELSE "find"
    /\ rtt_err' = FALSE /\ xmit_buf' = <<>>
    /\ UNCHANGED <<rttTarget, typed, rtt_on, rtt_found, poll_errs, upcopy, downcopy, shown, failures, torn>>

\* Any of its reads may fail.
find_rtt ==
    /\ rpc = "find"
    /\ poll_errs' = 0
    /\ \/ /\ Succeeds
          /\ rtt_found' = (block = "ready")
          /\ rtt_on' = (block # "empty")
       \/ Fails /\ rtt_found' = FALSE /\ UNCHANGED rtt_on
    /\ rpc' = IF rtt_found' THEN "header" ELSE "done"
    /\ UNCHANGED <<rttTarget, typed, rtt_err, upcopy, downcopy, xmit_buf, shown, torn>>

\* The control block must not have changed.
CheckHeader ==
    /\ rpc = "header"
    /\ \/ Succeeds /\ rtt_found' = (block = "ready")
       \/ Fails /\ rtt_found' = FALSE
    /\ rpc' = IF rtt_found' THEN "channels" ELSE "done"
    /\ UNCHANGED <<rttTarget, typed, rtt_on, poll_errs, rtt_err, upcopy, downcopy, xmit_buf, shown, torn>>

ReadChannels ==
    /\ rpc = "channels"
    /\ \/ /\ Succeeds
          /\ upcopy' = [head |-> up.head, tail |-> up.tail]
          /\ downcopy' = [head |-> down.head, tail |-> down.tail]
          /\ rpc' = "print" /\ UNCHANGED rtt_err
       \/ Fails /\ rtt_err' = TRUE /\ rpc' = "done" /\ UNCHANGED <<upcopy, downcopy>>
    /\ UNCHANGED <<rttTarget, typed, rtt_on, rtt_found, poll_errs, xmit_buf, shown, torn>>

\* print_rtt reads the part of the ring up to its end, then the part from its
\* start, as far as there is room.
Wrapped == upcopy.tail > upcopy.head
Room == XmitSize - Len(xmit_buf)
Part == LET n == (IF Wrapped THEN UpSize ELSE upcopy.head) - upcopy.tail
        IN  IF n > Room THEN Room ELSE n

PrintNothing ==
    /\ rpc = "print" /\ upcopy.head = upcopy.tail
    /\ rpc' = "read"
    /\ UNCHANGED <<rttTarget, typed, rtt_on, rtt_found, poll_errs, rtt_err, upcopy, downcopy,
                   xmit_buf, shown, failures, torn>>

PrintPart ==
    /\ \/ rpc = "print" /\ upcopy.head # upcopy.tail
       \/ rpc = "second" /\ upcopy.head > upcopy.tail /\ Room > 0
    /\ \/ /\ Succeeds
          /\ xmit_buf' = xmit_buf \o [i \in 1..Part |-> up.buf[upcopy.tail + i - 1]]
          /\ upcopy' = [upcopy EXCEPT !.tail = (@ + Part) % UpSize]
          /\ rpc' = IF rpc = "print" /\ Wrapped THEN "second" ELSE "tail"
          /\ UNCHANGED rtt_err
       \/ Fails /\ rtt_err' = TRUE /\ rpc' = "read" /\ UNCHANGED <<upcopy, xmit_buf>>
    /\ UNCHANGED <<rttTarget, typed, rtt_on, rtt_found, poll_errs, downcopy, shown, torn>>

ShownAnyway(ok) == shown' = shown \o xmit_buf   \* mutant: the tail could not be written
Shown(ok) == shown' = IF ok THEN shown \o xmit_buf ELSE shown

\* The tail is given back to the target before the characters go to the host.
\* A write that fails may have reached the target.
WriteTail ==
    /\ \/ rpc = "tail"
       \/ rpc = "second" /\ ~(upcopy.head > upcopy.tail /\ Room > 0)
    /\ \/ /\ Succeeds
          /\ up' = [up EXCEPT !.tail = upcopy.tail]
          /\ Shown(TRUE)
          /\ UNCHANGED <<rtt_err, torn>>
       \/ /\ Fails /\ rtt_err' = TRUE
          /\ Shown(FALSE)
          /\ \/ UNCHANGED <<up, torn>>
             \/ up' = [up EXCEPT !.tail = upcopy.tail] /\ torn' = TRUE
    /\ rpc' = "read"
    /\ UNCHANGED <<block, down, printed, entered, typed, rtt_on, rtt_found, poll_errs,
                   upcopy, downcopy, xmit_buf>>

DownFull == (downcopy.head + 1) % DownSize = downcopy.tail

\* read_rtt writes the characters behind the head and then tells the head; what it
\* took from the buffer before an access failed is given up.
ReadNothing ==
    /\ rpc = "read" /\ typed = <<>>
    /\ rpc' = "done"
    /\ UNCHANGED <<rttTarget, typed, rtt_on, rtt_found, poll_errs, rtt_err, upcopy, downcopy,
                   xmit_buf, shown, failures, torn>>

ReadChar ==
    /\ rpc \in {"read", "put"} /\ ~DownFull /\ typed # <<>>
    /\ typed' = Tail(typed)
    /\ \/ /\ Succeeds
          /\ down' = [down EXCEPT !.buf[downcopy.head] = Head(typed)]
          /\ downcopy' = [downcopy EXCEPT !.head = (@ + 1) % DownSize]
          /\ rpc' = "put" /\ UNCHANGED <<rtt_err, torn>>
       \/ Fails /\ rtt_err' = TRUE /\ torn' = TRUE /\ rpc' = "done" /\ UNCHANGED <<down, downcopy>>
    /\ UNCHANGED <<block, up, printed, entered, rtt_on, rtt_found, poll_errs, upcopy, xmit_buf, shown>>

WriteHead ==
    /\ rpc = "put" \/ (rpc = "read" /\ typed # <<>>)
    /\ DownFull \/ typed = <<>>
    /\ \/ Succeeds /\ down' = [down EXCEPT !.head = downcopy.head] /\ UNCHANGED <<rtt_err, torn>>
       \/ /\ Fails /\ rtt_err' = TRUE /\ torn' = TRUE
          /\ down' \in {down, [down EXCEPT !.head = downcopy.head]}
    /\ rpc' = "done"
    /\ UNCHANGED <<block, up, printed, entered, typed, rtt_on, rtt_found, poll_errs, upcopy, downcopy,
                   xmit_buf, shown>>

\* Too many errors end the transfer.
PollDone ==
    /\ rpc = "done"
    /\ poll_errs' = IF rtt_err THEN poll_errs + 1 ELSE poll_errs
    /\ rtt_on' = (rtt_on /\ (rtt_max_poll_errs = 0 \/ poll_errs' <= rtt_max_poll_errs))
    /\ rpc' = "idle"
    /\ UNCHANGED <<rttTarget, typed, rtt_found, rtt_err, upcopy, downcopy, xmit_buf, shown, failures, torn>>

\* The command that turns it on or off starts from nothing.
cmd_rtt ==
    /\ rpc = "idle"
    /\ rtt_on' \in BOOLEAN /\ rtt_found' = FALSE
    /\ upcopy' = IF rtt_on' THEN NoCopy ELSE upcopy
    /\ downcopy' = IF rtt_on' THEN NoCopy ELSE downcopy
    /\ UNCHANGED <<rttTarget, typed, poll_errs, rpc, rtt_err, xmit_buf, shown, failures, torn>>

---------------------------------------------------------------------------
(* The target, which is external.                                          *)

ProbeWaits == UNCHANGED <<typed, rtt_on, rtt_found, poll_errs, rpc, rtt_err, upcopy, downcopy,
                          xmit_buf, shown, failures>>

TargetPrints ==
    /\ block = "ready" /\ printed < MaxUp /\ (up.head + 1) % UpSize # up.tail
    /\ up' = [up EXCEPT !.buf[up.head] = printed + 1, !.head = (@ + 1) % UpSize]
    /\ printed' = printed + 1
    /\ UNCHANGED <<block, down, entered, torn>> /\ ProbeWaits

TargetReads ==
    /\ block = "ready" /\ down.head # down.tail
    /\ entered' = Append(entered, down.buf[down.tail])
    /\ down' = [down EXCEPT !.tail = (@ + 1) % DownSize]
    /\ UNCHANGED <<block, up, printed, torn>> /\ ProbeWaits

\* The target starts anew, and later sets up its control block.
TargetRestarts ==
    /\ rpc = "idle" /\ block # "none" /\ printed < MaxUp
    /\ block' = "none" /\ torn' = TRUE
    /\ UNCHANGED <<up, down, printed, entered>> /\ ProbeWaits

TargetSetsUp ==
    /\ rpc = "idle" /\ block = "none"
    /\ block' = "ready" /\ up' = Ring(UpSize) /\ down' = Ring(DownSize)
    /\ UNCHANGED <<printed, entered, torn>> /\ ProbeWaits

RttPollNext ==
    \/ poll_rtt \/ find_rtt \/ CheckHeader \/ ReadChannels \/ PrintNothing \/ PrintPart \/ WriteTail
    \/ ReadNothing \/ ReadChar \/ WriteHead \/ PollDone \/ cmd_rtt
    \/ TargetPrints \/ TargetReads \/ TargetRestarts \/ TargetSetsUp

RttPollSpec == RttPollInit /\ [][RttPollNext]_rttPollVars

---------------------------------------------------------------------------
Rising(s) == \A i \in 1..(Len(s) - 1) : s[i] < s[i + 1]
Complete(s) == \A i \in 1..Len(s) : s[i] = i

\* Whichever accesses of a poll fail, the host sees what the target printed and
\* the target gets what the host typed, in order and nothing twice; nothing is
\* missing either unless a failing access or a restart lost it (print_rtt gives the
\* tail back before it shows the characters, read_rtt tells the head last).
RttExact ==
    /\ Rising(shown) /\ Rising(entered)
    /\ ~torn => Complete(shown) /\ Complete(entered)

=============================================================================
