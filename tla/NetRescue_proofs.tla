-------------------------- MODULE NetRescue_proofs --------------------------
(* What the run of NetRescue checks for two servers and short waits, proved *)
(* for any servers, addresses, interfaces, waits and budgets: an exchange   *)
(* keeps to its time, its lease is the one it asked for, and the image that *)
(* is started was itself approved.                                          *)
EXTENDS NetRescue, FiniteSetTheorems, TLAPS

(* The messages of the client: a discovery, and a request of one offer. *)
Sent ==
  \A x \in Int, s \in Servers, a \in Addresses : <<x, s, a>> \in sent =>
     /\ x \in 1..xid
     /\ x = xid /\ pc \in Exchanging => pc = "request" /\ offer = {<<s, a>>}

(* Servers acknowledge only what they were asked for. *)
Answered ==
  \A m \in net : m.type = "ack" => <<m.xid, m.server, m.address>> \in sent

(* A lease is there from its acknowledgement to the next round. *)
Leased ==
  /\ LeaseIsRequested
  /\ pc \in Exchanging \cup {"link"} => lease = {}
  /\ pc = "request" => offer # {}

(* What is left of the socket's timeout fits into the budget, but for what  *)
(* was begun again by an ignored frame.                                     *)
Timed ==
  pc \in Exchanging =>
    /\ timer <= wait
    /\ ~Noisy => clock + timer <= Budget + strays * MaxWait

(* The digest in hand is that of the last download, and each later place    *)
(* was reached by the answer to a question about that download.             *)
Approved ==
  /\ pc \in {"signature", "pin"} => known \subseteq {image}
  /\ pc \in {"pin", "confirm", "child"} => (signing = "enforce" => image.signed)
  /\ pc \in {"confirm", "child"} => image.pinned \/ <<"unpinned", count>> \in yes
  /\ pc = "child" => <<"hash", count>> \in yes

(* One download follows each acquired lease. *)
Counted ==
  /\ count <= xid
  /\ pc \in Exchanging \cup {"apply", "download"} => count < xid
  /\ pc \in {"signature", "pin", "confirm"} => count > 0

Typed == TypeOK /\ Counted

IInv == Typed /\ Sent /\ Answered /\ Leased /\ Timed /\ Approved

----------------------------------------------------------------------------
(* Lemmas *)

(* The least of three numbers is one of them and exceeds none. *)
LEMMA MinOfThree ==
  ASSUME NEW a \in Int, NEW b \in Int, NEW c \in Int
  PROVE  /\ Min({a, b, c}) \in {a, b, c}
         /\ Min({a, b, c}) <= a /\ Min({a, b, c}) <= b /\ Min({a, b, c}) <= c
<1>1. \E x \in {a, b, c} : \A y \in {a, b, c} : x <= y
  <2>1. CASE a <= b /\ a <= c
    BY <2>1
  <2>2. CASE b <= a /\ b <= c
    BY <2>2
  <2>3. CASE c <= a /\ c <= b
    BY <2>3
  <2>. QED
    BY <2>1, <2>2, <2>3
<1>. QED
  BY <1>1 DEF Min

(* The same of two. *)
LEMMA MinOfTwo ==
  ASSUME NEW a \in Int, NEW b \in Int
  PROVE  Min({a, b}) \in {a, b} /\ Min({a, b}) <= a /\ Min({a, b}) <= b
<1>1. \E x \in {a, b} : \A y \in {a, b} : x <= y
  OBVIOUS
<1>. QED
  BY <1>1 DEF Min

(* The back-off is a positive number of seconds. *)
LEMMA BackoffPositive ==
  ASSUME NEW n \in Nat
  PROVE  Backoff(n) \in Nat \ {0}
<1>1. Min({n, 3}) \in 0..3
  BY MinOfTwo
<1>. QED
  BY <1>1 DEF Backoff

(* A timeout is never longer than the longest wait or than the time left. *)
LEMMA WaitBounded ==
  ASSUME NEW n \in Nat, NEW left \in Nat \ {0}
  PROVE  Wait(n, left) \in 0..MaxWait /\ Wait(n, left) <= left
<1>1. Backoff(n) \in Nat \ {0} /\ MaxWait \in Nat \ {0}
  BY BackoffPositive, NumbersAssumption
<1>2. Wait(n, left) \in {Backoff(n), MaxWait, left}
      /\ Wait(n, left) <= MaxWait /\ Wait(n, left) <= left
  BY <1>1, MinOfThree DEF Wait
<1>. QED
  BY <1>1, <1>2

(* One ignored frame more allows one timeout more. *)
LEMMA OneMore == \A n, w \in Nat : n * w \in Nat /\ (n + 1) * w = n * w + w
OBVIOUS

(* At most one offer or lease at a time. *)
LEMMA OneElement ==
  /\ Cardinality({}) = 0
  /\ \A x : Cardinality({x}) = 1
BY FS_EmptySet, FS_Singleton

----------------------------------------------------------------------------
(* The invariant *)

(* The initial states satisfy the invariant. *)
LEMMA InitInv == Init => IInv
<1>. SUFFICES ASSUME Init PROVE IInv
  OBVIOUS
<1>1. Typed
  BY NumbersAssumption, OneElement
     DEF Init, Typed, TypeOK, Counted, Images, Frames, Exchanging, Ended
<1>. QED
  BY <1>1 DEF LeaseIsRequested, Init, IInv, Sent, Answered, Leased, Timed, Approved, Exchanging

(* An interface is given up: shared by every way an exchange ends early. *)
LEMMA AdvanceType == Typed /\ Advance => Typed'
BY NumbersAssumption, OneElement
   DEF Typed, TypeOK, Counted, Advance, Forgotten, trust, wire, Ended, Exchanging, Images, Frames

(* Every step keeps the state well typed. *)
LEMMA NextType == Typed /\ [Next]_vars => Typed'
<1>. SUFFICES ASSUME Typed, [Next]_vars PROVE Typed'
  OBVIOUS
<1>. USE NumbersAssumption
<1>1. CASE Pick
  <2>1. /\ offer' \in {{}, offer} /\ lease' \in {{}, lease} /\ nic' \in {1, nic}
        /\ pc' \in {"link", "rebooted", "halted"}
    BY <1>1 DEF Pick
  <2>2. UNCHANGED <<xid, timing, wire, signing, trust>>
    BY <1>1 DEF Pick
  <2>. QED
    <3>1. /\ offer' \subseteq Servers \X Addresses /\ Cardinality(offer') <= 1
          /\ lease' \subseteq Servers \X Addresses /\ Cardinality(lease') <= 1
      BY <2>1, OneElement DEF Typed, TypeOK
    <3>2. nic' \in 0..Nics
      BY <2>1 DEF Typed, TypeOK
    <3>. QED
      BY <2>1, <2>2, <3>1, <3>2
         DEF Typed, TypeOK, Counted, timing, wire, trust, Ended, Exchanging, Frames
<1>2. CASE NoLink
  BY <1>2, AdvanceType DEF NoLink
<1>3. CASE Acquire
  <2>1. Wait(0, Budget) \in 0..MaxWait
    BY WaitBounded
  <2>. QED
    BY <1>3, <2>1, OneElement
       DEF Typed, TypeOK, Counted, Acquire, SetTimeout, timing, wire, trust, Ended, Exchanging, Frames
<1>4. CASE Server
  BY <1>4 DEF Typed, TypeOK, Counted, Server, Offer, Answer, timing, trust, Ended, Exchanging, Frames
<1>5. ASSUME NEW m \in net, ReadOffer(m) PROVE Typed'
  <2>1. CASE Remaining > 0
    <3>1. Remaining \in Nat \ {0}
      BY <2>1 DEF Typed, TypeOK, Counted, Remaining
    <3>2. Wait(0, Remaining) \in 0..MaxWait
      BY <3>1, WaitBounded
    <3>3. /\ offer' = {<<m.server, m.address>>} /\ pc' = "request"
          /\ attempt' = 0 /\ wait' = Wait(0, Remaining) /\ timer' = Wait(0, Remaining)
          /\ UNCHANGED <<nic, xid, lease, clock, strays, net, signing, trust>>
          /\ pc = "discover"
      BY <1>5, <2>1 DEF ReadOffer, SetTimeout
    <3>4. m.server \in Servers /\ m.address \in Addresses
      <4>1. m \in Frames
        BY DEF Typed, TypeOK
      <4>. QED
        BY <4>1 DEF Frames
    <3>5. offer' \subseteq Servers \X Addresses /\ Cardinality(offer') <= 1
      <4>1. offer' \subseteq Servers \X Addresses
        BY <3>3, <3>4
      <4>2. Cardinality(offer') = 1
        BY <3>3, OneElement
      <4>. QED
        BY <4>1, <4>2
    <3>. QED
      BY <3>2, <3>3, <3>5 DEF Typed, TypeOK, Counted, trust, Ended, Exchanging, Frames
  <2>2. CASE ~(Remaining > 0)
    BY <1>5, <2>2, AdvanceType DEF ReadOffer
  <2>. QED
    BY <2>1, <2>2
<1>6. ASSUME NEW m \in net, ReadAck(m) PROVE Typed'
  BY <1>6, OneElement
     DEF Typed, TypeOK, Counted, ReadAck, Forgotten, wire, trust, Ended, Exchanging, Frames
<1>7. ASSUME NEW m \in net, ReadNak(m) PROVE Typed'
  BY <1>7, AdvanceType DEF ReadNak
<1>8. CASE ReadStray
  BY <1>8 DEF Typed, TypeOK, Counted, ReadStray, wire, trust, Ended, Exchanging, Frames
<1>9. CASE Tick
  BY <1>9 DEF Typed, TypeOK, Counted, Tick, wire, trust, Ended, Exchanging, Frames
<1>10. CASE Retry
  <2>1. Remaining \in Nat \ {0}
    BY <1>10 DEF Typed, TypeOK, Counted, Retry, Remaining
  <2>2. attempt + 1 \in Nat
    BY DEF Typed, TypeOK
  <2>3. Wait(attempt + 1, Remaining) \in 0..MaxWait
    BY <2>1, <2>2, WaitBounded
  <2>. QED
    BY <1>10, <2>3 DEF Typed, TypeOK, Counted, Retry, SetTimeout, wire, trust, Ended, Exchanging, Frames
<1>11. CASE GiveUp
  BY <1>11, AdvanceType DEF GiveUp
<1>12. CASE Apply
  BY <1>12 DEF Typed, TypeOK, Counted, Apply, Ends, timing, wire, trust, Ended, Exchanging, Frames
<1>13. CASE Download
  BY <1>13 DEF Typed, TypeOK, Counted, Download, Ends, timing, wire, trust, Ended, Exchanging, Frames
<1>14. CASE Signature
  BY <1>14 DEF Typed, TypeOK, Counted, Signature, Ends, timing, wire, trust, Ended, Exchanging, Frames
<1>15. CASE Pin
  BY <1>15 DEF Typed, TypeOK, Counted, Pin, Yes, Ends, timing, wire, trust, Ended, Exchanging, Frames
<1>16. CASE Confirm
  BY <1>16 DEF Typed, TypeOK, Counted, Confirm, Yes, Ends, timing, wire, trust, Ended, Exchanging, Frames
<1>17. CASE Done \/ UNCHANGED vars
  BY <1>17 DEF Typed, TypeOK, Counted, Done, vars, timing, wire, trust
<1>. QED
  BY <1>1, <1>2, <1>3, <1>4, <1>5, <1>6, <1>7, <1>8, <1>9, <1>10, <1>11, <1>12, <1>13,
     <1>14, <1>15, <1>16, <1>17 DEF Next, Read, TimesOut, Image

(* Every step keeps what is known of messages, times and approvals. *)
LEMMA NextTimed == IInv /\ [Next]_vars => Timed'
<1>. SUFFICES ASSUME IInv, [Next]_vars PROVE Timed'
  OBVIOUS
<1>. USE NumbersAssumption
<1>1. CASE Acquire
  <2>1. Wait(0, Budget) \in 0..MaxWait /\ Wait(0, Budget) <= Budget
    BY WaitBounded
  <2>. QED
    BY <1>1, <2>1 DEF Timed, Acquire, SetTimeout
<1>2. ASSUME NEW m \in net, ReadOffer(m), Remaining > 0 PROVE Timed'
  <2>1. Remaining \in Nat \ {0}
    BY <1>2 DEF IInv, Typed, TypeOK, Remaining
  <2>2. Wait(0, Remaining) \in 0..MaxWait /\ Wait(0, Remaining) <= Remaining
    BY <2>1, WaitBounded
  <2>3. clock \in Nat /\ strays \in Nat /\ MaxWait \in Nat
    BY DEF IInv, Typed, TypeOK
  <2>4. strays * MaxWait \in Nat
    BY <2>3
  <2>. QED
    BY <1>2, <2>2, <2>3, <2>4 DEF Timed, ReadOffer, SetTimeout, Remaining
<1>3. CASE ReadStray
  <2>1. /\ timer' = wait /\ pc' = pc /\ UNCHANGED <<clock, wait>>
        /\ pc \in Exchanging /\ (~Noisy => strays' = strays + 1)
    BY <1>3 DEF ReadStray
  <2>2. clock \in Nat /\ strays \in Nat /\ MaxWait \in Nat /\ wait \in 0..MaxWait
        /\ timer \in Nat
    BY DEF IInv, Typed, TypeOK
  <2>3. ~Noisy => strays' * MaxWait = strays * MaxWait + MaxWait
    <3>1. (strays + 1) * MaxWait = strays * MaxWait + MaxWait
      BY <2>2, OneMore
    <3>2. ~Noisy => strays' = strays + 1
      BY <2>1
    <3>. QED
      BY <3>1, <3>2, Zenon
  <2>4. strays * MaxWait \in Nat
    BY <2>2, OneMore
  <2>. QED
    BY <2>1, <2>2, <2>3, <2>4 DEF Timed, IInv
<1>4. CASE Tick
  <2>1. /\ timer' = timer - 1 /\ clock' <= clock + 1 /\ UNCHANGED <<pc, wait, strays>>
        /\ clock' \in Nat
    BY <1>4 DEF Tick, IInv, Typed, TypeOK
  <2>2. clock \in Nat /\ strays \in Nat /\ MaxWait \in Nat /\ wait \in Nat /\ timer \in Nat
    BY DEF IInv, Typed, TypeOK
  <2>3. strays * MaxWait \in Nat
    BY <2>2
  <2>. QED
    BY <2>1, <2>2, <2>3 DEF Timed, IInv
<1>5. CASE Retry
  <2>1. Remaining \in Nat \ {0} /\ attempt + 1 \in Nat
    BY <1>5 DEF Retry, IInv, Typed, TypeOK, Remaining
  <2>2. Wait(attempt + 1, Remaining) \in 0..MaxWait /\ Wait(attempt + 1, Remaining) <= Remaining
    BY <2>1, WaitBounded
  <2>3. clock \in Nat /\ strays \in Nat /\ MaxWait \in Nat
    BY DEF IInv, Typed, TypeOK
  <2>4. strays * MaxWait \in Nat
    BY <2>3
  <2>. QED
    BY <1>5, <2>2, <2>3, <2>4 DEF Timed, Retry, SetTimeout, Remaining
<1>6. CASE Advance
  BY <1>6 DEF Timed, Advance, Exchanging
<1>7. CASE UNCHANGED <<wait, timer, clock, strays>> /\ (pc' \notin Exchanging \/ pc' = pc)
  BY <1>7 DEF IInv, Timed
<1>8. ASSUME NEW m \in net, ReadAck(m) PROVE Timed'
  BY <1>8 DEF ReadAck, Timed, Exchanging
<1>9. Pick \/ Server \/ Image \/ Done \/ UNCHANGED vars =>
        UNCHANGED <<wait, timer, clock, strays>> /\ (pc' \notin Exchanging \/ pc' = pc)
  BY DEF Pick, Server, Offer, Answer, Image, Apply, Download, Signature, Pin, Confirm, Yes,
         Ends, Done, vars, timing, Exchanging
<1>10. NoLink \/ GiveUp \/ (\E m \in net : ReadNak(m) \/ (ReadOffer(m) /\ ~(Remaining > 0)))
         => Advance
  BY DEF NoLink, GiveUp, ReadNak, ReadOffer
<1>. QED
  BY <1>1, <1>2, <1>3, <1>4, <1>5, <1>6, <1>7, <1>8, <1>9, <1>10 DEF Next, Read, TimesOut

(* Every step keeps what is known of the messages and the lease. *)
LEMMA NextMessages == IInv /\ [Next]_vars => (Sent /\ Answered /\ Leased)'
<1>. SUFFICES ASSUME IInv, [Next]_vars PROVE (Sent /\ Answered /\ Leased)'
  OBVIOUS
<1>. USE DEF IInv, Exchanging
<1>1. CASE Pick
  BY <1>1 DEF Pick, Sent, Answered, Leased, LeaseIsRequested, timing, wire, trust
<1>2. CASE Acquire
  <2>1. xid \in Nat /\ xid' = xid + 1 /\ pc' = "discover" /\ pc = "link"
        /\ sent' = sent \cup {<<xid + 1>>} /\ UNCHANGED <<net, lease>>
    BY <1>2 DEF Acquire, Typed, TypeOK
  <2>2. ASSUME NEW x \in Int, NEW s \in Servers, NEW a \in Addresses
        PROVE  <<x, s, a>> \in sent' <=> <<x, s, a>> \in sent
    BY <2>1
  <2>3. Sent'
    BY <2>1, <2>2 DEF Sent
  <2>4. Answered'
    BY <2>1 DEF Answered
  <2>. QED
    BY <2>1, <2>3, <2>4 DEF Leased, LeaseIsRequested
<1>3. ASSUME NEW s \in Servers, NEW x \in 1..xid, NEW a \in Addresses, Offer(s, x, a)
      PROVE  (Sent /\ Answered /\ Leased)'
  BY <1>3 DEF Offer, Sent, Answered, Leased, LeaseIsRequested
<1>4. ASSUME NEW s \in Servers, NEW x \in 1..xid, NEW a \in Addresses, Answer(s, x, a)
      PROVE  (Sent /\ Answered /\ Leased)'
  BY <1>4 DEF Answer, Sent, Answered, Leased, LeaseIsRequested
<1>5. ASSUME NEW m \in net, ReadOffer(m), Remaining > 0
      PROVE  (Sent /\ Answered /\ Leased)'
  <2>1. /\ offer' = {<<m.server, m.address>>} /\ pc' = "request" /\ pc = "discover"
        /\ sent' = sent \cup {<<xid, m.server, m.address>>} /\ UNCHANGED <<xid, lease, net>>
        /\ xid \in Nat /\ m.xid = xid
    BY <1>5 DEF ReadOffer, Typed, TypeOK, Matches
  <2>2. m \in Frames
    BY DEF Typed, TypeOK
  <2>3. xid \in 1..xid
    BY <2>1, <2>2 DEF Frames
  <2>4. Sent'
    BY <2>1, <2>3 DEF Sent
  <2>. QED
    BY <2>1, <2>4 DEF Answered, Leased, LeaseIsRequested
<1>6. ASSUME NEW m \in net, ReadAck(m) PROVE (Sent /\ Answered /\ Leased)'
  <2>1. /\ pc = "request" /\ pc' = "apply" /\ lease' = {<<m.server, m.address>>}
        /\ m.xid = xid /\ m.type = "ack" /\ UNCHANGED <<xid, offer, sent, net>>
    BY <1>6 DEF ReadAck, Matches, wire
  <2>2. m \in Frames /\ xid \in Nat
    BY DEF Typed, TypeOK
  <2>3. m = [type |-> "ack", xid |-> xid, server |-> m.server, address |-> m.address]
    BY <2>1, <2>2 DEF Frames
  <2>4. offer = {<<m.server, m.address>>}
    <3>1. <<xid, m.server, m.address>> \in sent
      BY <2>1 DEF Answered
    <3>2. m.server \in Servers /\ m.address \in Addresses
      BY <2>2 DEF Frames
    <3>. QED
      BY <2>1, <2>2, <3>1, <3>2 DEF Sent
  <2>5. LeaseIsRequested'
    <3>. SUFFICES ASSUME NEW l \in lease'
                  PROVE  /\ offer' = {l}
                         /\ [type |-> "ack", xid |-> xid', server |-> l[1], address |-> l[2]] \in net'
      BY DEF LeaseIsRequested
    <3>1. l = <<m.server, m.address>>
      BY <2>1
    <3>. QED
      BY <2>1, <2>3, <2>4, <3>1
  <2>. QED
    BY <2>1, <2>4, <2>5 DEF Sent, Answered, Leased
<1>7. CASE Advance /\ pc \in Exchanging \cup {"link"}
  BY <1>7 DEF Advance, Sent, Answered, Leased, LeaseIsRequested, wire
<1>8. CASE UNCHANGED <<xid, offer, lease, sent, net>>
           /\ (pc' = pc \/ pc' \in {"pick", "download", "signature", "pin", "confirm"} \cup Ended)
  BY <1>8 DEF Sent, Answered, Leased, LeaseIsRequested, Ended
<1>9. ReadStray \/ Tick \/ Retry \/ Image \/ Done \/ UNCHANGED vars =>
        UNCHANGED <<xid, offer, lease, sent, net>>
        /\ (pc' = pc \/ pc' \in {"pick", "download", "signature", "pin", "confirm"} \cup Ended)
  BY DEF ReadStray, Tick, Retry, Image, Apply, Download, Signature, Pin, Confirm, Yes, Ends,
         Done, vars, wire, Ended
<1>10. NoLink \/ GiveUp \/ (\E m \in net : ReadNak(m) \/ (ReadOffer(m) /\ ~(Remaining > 0)))
         => Advance /\ pc \in Exchanging \cup {"link"}
  BY DEF NoLink, GiveUp, ReadNak, ReadOffer
<1>. QED
  BY <1>1, <1>2, <1>3, <1>4, <1>5, <1>6, <1>7, <1>8, <1>9, <1>10
     DEF Next, Read, TimesOut, Server

(* Every step keeps what is known of the image. *)
LEMMA NextApproved == IInv /\ [Next]_vars => Approved'
<1>. SUFFICES ASSUME IInv, [Next]_vars PROVE Approved'
  OBVIOUS
<1>1. CASE Pick \/ NoLink \/ Acquire \/ Server \/ Read \/ Tick \/ TimesOut \/ Done \/ UNCHANGED vars
  <2>1. UNCHANGED <<signing, image, known, count, yes>>
    BY <1>1 DEF Pick, NoLink, Acquire, Server, Offer, Answer, Read, ReadOffer, ReadAck, ReadNak,
                ReadStray, Tick, TimesOut, Retry, GiveUp, Advance, Done, vars, trust
  <2>2. pc' = pc \/ pc' \notin {"signature", "pin", "confirm", "child"}
    BY <1>1 DEF Pick, NoLink, Acquire, Server, Offer, Answer, Read, ReadOffer, ReadAck, ReadNak,
                ReadStray, Tick, TimesOut, Retry, GiveUp, Advance, Done, vars
  <2>. QED
    BY <2>1, <2>2 DEF IInv, Approved
<1>2. CASE Apply
  BY <1>2 DEF Apply, Ends, IInv, Approved
<1>3. CASE Download
  BY <1>3 DEF Download, Ends, IInv, Approved
<1>4. CASE Signature
  BY <1>4 DEF Signature, Ends, trust, IInv, Approved
<1>5. CASE Pin
  <2>. DEFINE actual == IF known = {} THEN image ELSE CHOOSE i \in known : TRUE
  <2>1. actual = image
    BY <1>5 DEF Pin, IInv, Approved
  <2>2. \/ image.pinned /\ Ends("confirm")
        \/ Ends("halted")
        \/ Yes("unpinned", "confirm")
        \/ Ends("pick")
    BY <1>5, <2>1 DEF Pin
  <2>. QED
    BY <1>5, <2>2 DEF Pin, Yes, Ends, trust, IInv, Approved
<1>6. CASE Confirm
  BY <1>6 DEF Confirm, Yes, Ends, trust, IInv, Approved
<1>. QED
  BY <1>1, <1>2, <1>3, <1>4, <1>5, <1>6 DEF Next, Image

----------------------------------------------------------------------------
(* Theorems *)

(* The invariant holds in every reachable state. *)
THEOREM Invariant == Spec => []IInv
<1>1. IInv /\ [Next]_vars => IInv'
  BY NextType, NextTimed, NextMessages, NextApproved DEF IInv
<1>. QED
  BY InitInv, <1>1, PTL DEF Spec

(* The state stays well typed, and with it the number of messages that one  *)
(* exchange sends again.                                                    *)
THEOREM TypeCorrect == Spec => []TypeOK
<1>1. IInv => TypeOK
  BY DEF IInv, Typed
<1>. QED
  BY Invariant, <1>1, PTL

(* An exchange keeps to its budget, and to one more timeout for every frame *)
(* that was ignored, for every budget, longest wait and number of attempts. *)
THEOREM TimeIsBounded == ~Noisy => (Spec => []BudgetKept)
<1>. SUFFICES ASSUME ~Noisy PROVE Spec => []BudgetKept
  OBVIOUS
<1>1. IInv => BudgetKept
  <2>1. IInv => clock \in Nat /\ timer \in Nat /\ strays \in Nat /\ MaxWait \in Nat
    BY NumbersAssumption DEF IInv, Typed, TypeOK
  <2>. QED
    BY <2>1, NumbersAssumption DEF IInv, Timed, BudgetKept
<1>. QED
  BY Invariant, <1>1, PTL

(* The lease is what was offered and requested in its own exchange, for any *)
(* number of servers and exchanges and any order of their answers.          *)
THEOREM LeaseWasRequested == Spec => []LeaseIsRequested
<1>1. IInv => LeaseIsRequested
  BY DEF IInv, Leased
<1>. QED
  BY Invariant, <1>1, PTL

(* The image that is started was verified as the policy asks, was pinned or *)
(* chosen, and was confirmed, after any number of refused downloads.        *)
THEOREM ImageWasApproved == Spec => []ApprovedImage
<1>1. IInv => ApprovedImage
  BY DEF IInv, Approved, ApprovedImage
<1>. QED
  BY Invariant, <1>1, PTL
=============================================================================
