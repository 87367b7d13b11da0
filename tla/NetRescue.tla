----------------------------- MODULE NetRescue -----------------------------
(* The network rescue: a lease from DHCP servers on one of the interfaces,  *)
(* then an image that is downloaded, checked and confirmed.                 *)
(*                                                                          *)
(* The network may lose, delay, repeat and reorder every frame: what was    *)
(* sent stays in `sent` or `net`, a server may answer at any later time or  *)
(* never, and the socket may read any frame of `net`, any number of times,  *)
(* or none.  One unit of time is a second; the clock stops counting at      *)
(* MaxClock, a bound of the model.                                          *)
EXTENDS Integers, FiniteSets, FiniteSetsExt

CONSTANTS
  Servers,     \* DHCP servers
  Addresses,   \* what they lease
  Nics,        \* number of interfaces, tried in the order of their names
  MaxRetries,  \* MAX_RETRIES
  MaxWait,     \* MAX_PER_RETRY in seconds
  Budget,      \* DHCP_TIMEOUT in seconds
  MaxStrays,   \* frames per exchange that are read and ignored
  Noisy,       \* TRUE: there is no such bound, and strays are not counted
  MaxAcquires, \* exchanges begun
  MaxClock     \* where the clock stops

ASSUME NumbersAssumption ==
  /\ {Nics, MaxRetries, MaxWait, Budget} \subseteq Nat \ {0}
  /\ Noisy \in BOOLEAN
  /\ MaxStrays \in Nat /\ MaxAcquires \in Nat /\ MaxClock \in Nat

VARIABLES
  pc,        \* where the flow is
  nic,       \* the interface in use
  xid,       \* the exchange: each has its own transaction id
  attempt, clock,  \* of this exchange: messages sent again, seconds gone
  wait, timer,     \* the socket's timeout, and what is left of it
  strays,    \* frames read and ignored in this exchange
  offer,     \* the offer being requested: {} or one <<server, address>>
  lease,     \* the lease of this round: {} or one <<server, address>>
  sent,      \* what the client has broadcast
  net,       \* what servers have answered
  signing,   \* "off", "audit" or "enforce"
  image,     \* the download: [signed, pinned]
  known,     \* the digest of the signature check: {} or one image
  count,     \* downloads so far
  yes        \* history: <<question, download>> the operator answered yes

vars == <<pc, nic, xid, attempt, clock, wait, timer, strays, offer, lease, sent, net,
          signing, image, known, count, yes>>
timing == <<attempt, clock, wait, timer, strays>>
wire == <<sent, net>>
trust == <<image, known, count, yes>>

Images == [signed : BOOLEAN, pinned : BOOLEAN]
Frames == [type : {"offer", "ack", "nak"}, xid : 1..MaxAcquires,
           server : Servers, address : Addresses]
Exchanging == {"discover", "request"}
Ended == {"child", "rebooted", "halted"}

TypeOK ==
  /\ pc \in Exchanging \cup Ended
            \cup {"pick", "link", "apply", "download", "signature", "pin", "confirm"}
  /\ nic \in 0..Nics /\ xid \in 0..MaxAcquires
  /\ attempt \in 0..MaxRetries - 1 /\ {wait, timer} \subseteq 0..MaxWait /\ clock \in 0..MaxClock
  /\ strays \in Nat
  /\ offer \subseteq Servers \X Addresses /\ Cardinality(offer) <= 1
  /\ lease \subseteq Servers \X Addresses /\ Cardinality(lease) <= 1
  /\ net \subseteq Frames
  /\ signing \in {"off", "audit", "enforce"}
  /\ image \in Images /\ known \subseteq Images /\ count \in 0..MaxAcquires
  /\ yes \subseteq {"unpinned", "hash"} \X (1..MaxAcquires)

Init ==
  /\ pc = "pick" /\ nic = 0 /\ xid = 0
  /\ attempt = 0 /\ clock = 0 /\ wait = 0 /\ timer = 0 /\ strays = 0
  /\ offer = {} /\ lease = {} /\ sent = {} /\ net = {}
  /\ signing \in {"off", "audit", "enforce"}
  /\ image = [signed |-> FALSE, pinned |-> FALSE]
  /\ known = {} /\ count = 0 /\ yes = {}

----------------------------------------------------------------------------
(* The source picker and the interfaces *)

Pick ==
  /\ pc = "pick"
  /\ \/ pc' = "link" /\ nic' = 1 /\ lease' = {} /\ offer' = {}
     \/ pc' \in {"rebooted", "halted"} /\ UNCHANGED <<nic, lease, offer>>
  /\ UNCHANGED <<xid, timing, wire, signing, trust>>

(* What only an exchange knows is gone when it ends. *)
Forgotten == attempt' = 0 /\ clock' = 0 /\ wait' = 0 /\ timer' = 0 /\ strays' = 0
(* No carrier, or no lease: the next interface, after the last one the end. *)
Advance ==
  /\ IF nic < Nics THEN pc' = "link" /\ nic' = nic + 1
                   ELSE pc' = "halted" /\ UNCHANGED nic
  /\ Forgotten /\ offer' = {}
  /\ UNCHANGED <<xid, lease, wire, signing, trust>>

NoLink == pc = "link" /\ Advance

Remaining == Budget - clock
(* One second, doubled up to three times. *)
Backoff(n) == <<1, 2, 4, 8>>[Min({n, 3}) + 1]
WholeWait(n, left) == Min({Backoff(n), MaxWait})
(* Never more than what is left of the budget. *)
Wait(n, left) == Min({Backoff(n), MaxWait, left})
SetTimeout(w) == wait' = w /\ timer' = w

Acquire ==
  /\ pc = "link" /\ xid < MaxAcquires
  /\ pc' = "discover" /\ xid' = xid + 1
  /\ attempt' = 0 /\ clock' = 0 /\ strays' = 0 /\ SetTimeout(Wait(0, Budget))
  /\ offer' = {}
  /\ sent' = sent \cup {<<xid + 1>>}
  /\ UNCHANGED <<nic, lease, net, signing, trust>>

----------------------------------------------------------------------------
(* One exchange *)

(* The servers answer while a client listens, which may be in a later       *)
(* exchange; an answer that nobody could read any more is not modelled.     *)
(* A server that was asked offers an address, one per exchange. *)
Offer(s, x, a) ==
  /\ pc \in Exchanging /\ <<x>> \in sent
  /\ \A m \in net : m.type = "offer" /\ m.xid = x /\ m.server = s => m.address = a
  /\ net' = net \cup {[type |-> "offer", xid |-> x, server |-> s, address |-> a]}
  /\ UNCHANGED <<pc, nic, xid, timing, offer, lease, sent, signing, trust>>

(* The server that a request names acknowledges or refuses it, however      *)
(* often it is sent.                                                        *)
Answer(s, x, a) ==
  /\ pc \in Exchanging /\ <<x, s, a>> \in sent
  /\ \A m \in net : ~(m.type \in {"ack", "nak"} /\ m.xid = x /\ m.server = s)
  /\ \E answer \in {"ack", "nak"} :
       net' = net \cup {[type |-> answer, xid |-> x, server |-> s, address |-> a]}
  /\ UNCHANGED <<pc, nic, xid, timing, offer, lease, sent, signing, trust>>

MatchesAny(m, type) == m.type = type
(* What recv_dhcp hands on: this transaction, and the type that is wanted. *)
Matches(m, type) == m.xid = xid /\ m.type = type

ReadOffer(m) ==
  /\ pc = "discover" /\ timer > 0 /\ Matches(m, "offer")
  /\ IF Remaining > 0
       THEN /\ pc' = "request" /\ offer' = {<<m.server, m.address>>}
            /\ attempt' = 0 /\ SetTimeout(Wait(0, Remaining))
            /\ sent' = sent \cup {<<xid, m.server, m.address>>}
            /\ UNCHANGED <<nic, xid, lease, clock, strays, net, signing, trust>>
       ELSE Advance

(* The acknowledgement is the lease; its address counts, not the requested  *)
(* one.                                                                     *)
ReadAck(m) ==
  /\ pc = "request" /\ timer > 0 /\ Matches(m, "ack")
  /\ pc' = "apply" /\ lease' = {<<m.server, m.address>>}
  /\ Forgotten
  /\ UNCHANGED <<nic, xid, offer, wire, signing, trust>>

ReadNak(m) ==
  /\ pc \in Exchanging /\ timer > 0 /\ Matches(m, "nak")
  /\ Advance

(* Any other frame, from another exchange or of another program, is dropped *)
(* and the socket is read again, with its timeout from the beginning.       *)
ReadStray ==
  /\ pc \in Exchanging /\ timer > 0 /\ (Noisy \/ strays < MaxStrays)
  /\ timer' = wait
  /\ strays' = IF Noisy THEN strays ELSE strays + 1
  /\ UNCHANGED <<pc, nic, xid, attempt, clock, wait, offer, lease, wire, signing, trust>>

Tick ==
  /\ pc \in Exchanging /\ timer > 0
  /\ timer' = timer - 1 /\ clock' = IF clock < MaxClock THEN clock + 1 ELSE clock
  /\ UNCHANGED <<pc, nic, xid, attempt, wait, strays, offer, lease, wire, signing, trust>>

(* The socket's timeout: the message is sent again while attempts and time  *)
(* are left.                                                                *)
RetryForever ==
  /\ pc \in Exchanging /\ timer = 0
  /\ Remaining > 0
  /\ attempt' = attempt + 1 /\ SetTimeout(Wait(attempt + 1, Remaining))
  /\ UNCHANGED <<pc, nic, xid, clock, strays, offer, lease, wire, signing, trust>>
Retry ==
  /\ pc \in Exchanging /\ timer = 0
  /\ attempt + 1 < MaxRetries /\ Remaining > 0
  /\ attempt' = attempt + 1 /\ SetTimeout(Wait(attempt + 1, Remaining))
  /\ UNCHANGED <<pc, nic, xid, clock, strays, offer, lease, wire, signing, trust>>

GiveUpAfresh ==
  /\ pc \in Exchanging /\ timer = 0
  /\ attempt + 1 = MaxRetries \/ Remaining <= 0
  /\ pc' = "discover" /\ attempt' = 0 /\ clock' = 0 /\ SetTimeout(Wait(0, Budget))
  /\ UNCHANGED <<nic, xid, strays, offer, lease, wire, signing, trust>>
GiveUp ==
  /\ pc \in Exchanging /\ timer = 0
  /\ attempt + 1 = MaxRetries \/ Remaining <= 0
  /\ Advance

----------------------------------------------------------------------------
(* The image *)

Ends(how) == pc' = how /\ UNCHANGED <<nic, xid, timing, offer, lease, wire, signing, trust>>

(* The address is set and the operator asked for the URL; either may fail. *)
Apply == pc = "apply" /\ \E next \in {"download", "halted"} : Ends(next)

DownloadStale ==
  /\ pc = "download"
  /\ \/ /\ pc' = "signature" /\ image' \in Images /\ count' = count + 1
        /\ UNCHANGED <<nic, xid, timing, offer, lease, wire, signing, known, yes>>
     \/ Ends("halted")
Download ==
  /\ pc = "download"
  /\ \/ /\ pc' = "signature" /\ image' \in Images /\ count' = count + 1
        /\ known' = {}
        /\ UNCHANGED <<nic, xid, timing, offer, lease, wire, signing, yes>>
     \/ Ends("halted")

(* An image is refused only where the policy enforces; what was verified is *)
(* the digest that the pin is compared with.                                *)
Signature ==
  /\ pc = "signature"
  /\ \/ /\ signing = "enforce" /\ ~image.signed
        /\ Ends("pick")
     \/ /\ signing = "off" \/ (signing = "audit" /\ ~image.signed)
        /\ Ends("pin")
     \/ /\ signing # "off" /\ image.signed
        /\ pc' = "pin" /\ known' = {image}
        /\ UNCHANGED <<nic, xid, timing, offer, lease, wire, signing, image, count, yes>>

Yes(question, next) ==
  /\ pc' = next /\ yes' = yes \cup {<<question, count>>}
  /\ UNCHANGED <<nic, xid, timing, offer, lease, wire, signing, image, known, count>>

(* Another image than the pinned one is the operator's explicit choice; a   *)
(* malformed pin, or a question that cannot be asked, ends the flow.        *)
Pin ==
  /\ pc = "pin"
  /\ LET actual == IF known = {} THEN image ELSE CHOOSE i \in known : TRUE
     IN \/ actual.pinned /\ Ends("confirm")
        \/ Ends("halted")
        \/ ~actual.pinned /\ (Yes("unpinned", "confirm") \/ Ends("pick"))

(* The hash is always confirmed; then the image is mounted, which may fail. *)
Confirm ==
  /\ pc = "confirm"
  /\ \/ \E next \in {"child", "halted"} : Yes("hash", next)
     \/ Ends("pick")

----------------------------------------------------------------------------
Server == \E s \in Servers, x \in 1..xid, a \in Addresses : Offer(s, x, a) \/ Answer(s, x, a)
Read == (\E m \in net : ReadOffer(m) \/ ReadAck(m) \/ ReadNak(m)) \/ ReadStray
TimesOut == Retry \/ GiveUp
Image == Apply \/ Download \/ Signature \/ Pin \/ Confirm
(* The flow is over, or the model began as many exchanges as its bound is. *)
Done ==
  /\ \/ pc \in Ended
     \/ pc = "link" /\ xid = MaxAcquires
  /\ UNCHANGED vars

Next == Pick \/ NoLink \/ Acquire \/ Server \/ Read \/ Tick \/ TimesOut \/ Image \/ Done

Spec == Init /\ [][Next]_vars
(* Time passes and a timeout that has come is delivered.  Nothing is assumed *)
(* of the servers, of what the network delivers and of the operator.         *)
FairSpec == Spec /\ WF_vars(Tick) /\ WF_vars(TimesOut)

----------------------------------------------------------------------------
(* The time of an exchange is its budget, and for every frame that was read *)
(* and dropped at most one more timeout.                                    *)
BudgetKept == pc \in Exchanging => clock <= Budget + strays * MaxWait

(* The lease is the address that was offered and asked for in this very     *)
(* exchange by the server that offered it, whatever late, repeated *)
(* or foreign answers the network delivers.                                 *)
LeaseIsRequested == \A l \in lease : 
  /\ offer = {l}
  /\ [type |-> "ack", xid |-> xid, server |-> l[1], address |-> l[2]] \in net

(* The rescue system is entered with an image that was itself verified      *)
(* where the policy enforces it, is the pinned one or was chosen, and whose *)
(* hash was confirmed: no answer or digest of an earlier download counts.   *)
ApprovedImage == pc = "child" =>
  /\ signing = "enforce" => image.signed
  /\ image.pinned \/ <<"unpinned", count>> \in yes
  /\ <<"hash", count>> \in yes

(* An exchange ends, with a lease or without one.                           *)
AcquireEnds == pc \in Exchanging ~> pc \notin Exchanging

(* The same on a network that never falls silent.                           *)
NoisyLanEnds == AcquireEnds
=============================================================================
