------------------------------ MODULE Capture ------------------------------
(***************************************************************************)
(* Key capture: the socket on which dualsense-ffsd tells kbm-web what keys *)
(* are pressed (capture_* in kbm-mapper-ff/files/main.c), and the relay of *)
(* each connection to a browser (kbm-web/files/capture.go).                *)
(*                                                                         *)
(* Key events are numbered.  A subscriber is a connection; who connects    *)
(* again is another subscriber.                                            *)
(***************************************************************************)
EXTENDS Naturals, Sequences, SequencesExt

CONSTANTS
  Subscribers, \* bound: connections made
  MaxClients,  \* CAPTURE_MAX_CLIENTS
  Backlog,     \* connections the kernel keeps for accept
  Room,        \* events a socket has room for
  MaxEvents,   \* bound: key events
  NoClient     \* an empty slot

ASSUME ClientsAssumption == NoClient \notin Subscribers
ASSUME SizesAssumption ==
  /\ MaxClients \in Nat \ {0} /\ Room \in Nat \ {0}
  /\ Backlog \in Nat /\ MaxEvents \in Nat

Slots == 1 .. MaxClients

VARIABLES
  clients,   \* capture_clients
  waiting,   \* connections not accepted yet
  link,      \* per subscriber: "none", "open", "left" by kbm-web, "closed" by us
  inbox,     \* per subscriber: events written and not relayed
  relayed,   \* per subscriber: events the browser was sent
  since,     \* history: events before the connection was accepted
  lossy,     \* history: subscribers whose socket was full once
  published, \* key events so far
  listening  \* the daemon has not ended

captureVars == <<clients, waiting, link, inbox, relayed, since, lossy,
                 published, listening>>

CaptureInit ==
  /\ clients = [i \in Slots |-> NoClient] /\ waiting = <<>>
  /\ link = [s \in Subscribers |-> "none"]
  /\ inbox = [s \in Subscribers |-> <<>>]
  /\ relayed = [s \in Subscribers |-> <<>>]
  /\ since = [s \in Subscribers |-> 0] /\ lossy = {}
  /\ published = 0 /\ listening = TRUE
-----------------------------------------------------------------------------
(* kbm-web.                                                                *)

\* With the backlog full, or nobody listening, the page says so at once.
Connects(s) ==
  /\ listening /\ link[s] = "none" /\ Len(waiting) < Backlog
  /\ link' = [link EXCEPT ![s] = "open"]
  /\ waiting' = Append(waiting, s)
  /\ UNCHANGED <<clients, inbox, relayed, since, lossy, published, listening>>

\* What was written before we closed the connection is still relayed.
Relays(s) ==
  /\ link[s] \in {"open", "closed"} /\ inbox[s] # <<>>
  /\ relayed' = [relayed EXCEPT ![s] = Append(@, Head(inbox[s]))]
  /\ inbox' = [inbox EXCEPT ![s] = Tail(@)]
  /\ UNCHANGED <<clients, waiting, link, since, lossy, published, listening>>

\* The browser has what it wanted, or is gone.
Leaves(s) ==
  /\ link[s] = "open"
  /\ link' = [link EXCEPT ![s] = "left"]
  /\ inbox' = [inbox EXCEPT ![s] = <<>>]
  /\ UNCHANGED <<clients, waiting, relayed, since, lossy, published, listening>>
-----------------------------------------------------------------------------
(* dualsense-ffsd.                                                         *)

Closed(ss) ==
  [s \in Subscribers |-> IF s \in ss /\ link[s] = "open" THEN "closed" ELSE link[s]]

Free == {i \in Slots : clients[i] = NoClient}

Take(i) ==
  /\ clients' = [clients EXCEPT ![i] = Head(waiting)]
  /\ waiting' = Tail(waiting)
  /\ since' = [since EXCEPT ![Head(waiting)] = published]
  /\ UNCHANGED <<inbox, relayed, lossy, published, listening>>

\* capture_accept: the first free slot.
AcceptFree ==
  /\ listening /\ waiting # <<>> /\ Free # {}
  /\ Take(CHOOSE i \in Free : \A j \in Free : i <= j)
  /\ UNCHANGED link

\* Variant of AcceptFull: the connection in the way is forgotten, not closed.
AcceptLeaks ==
  /\ listening /\ waiting # <<>> /\ Free = {}
  /\ Take(1)
  /\ UNCHANGED link

\* Without one, whoever has the first slot is closed for the newcomer.
AcceptFull ==
  /\ listening /\ waiting # <<>> /\ Free = {}
  /\ Take(1)
  /\ link' = Closed({clients[1]})

Full(s) == Len(inbox[s]) = Room

\* capture_publish: a full socket misses the event, one that was left is
\* closed and its slot free again.
Publish ==
  /\ listening /\ published < MaxEvents
  /\ published' = published + 1
  /\ LET served == {s \in Subscribers : s \in ToSet(clients) /\ link[s] = "open"} IN
       /\ inbox' = [s \in Subscribers |->
                      IF s \in served /\ ~Full(s) THEN Append(inbox[s], published')
                      ELSE inbox[s]]
       /\ lossy' = lossy \cup {s \in served : Full(s)}
       /\ clients' = [i \in Slots |-> IF clients[i] \in served THEN clients[i]
                                      ELSE NoClient]
  /\ UNCHANGED <<waiting, link, relayed, since, listening>>

\* The daemon ends: every connection is closed, those not accepted as well.
CaptureEnds ==
  /\ listening
  /\ listening' = FALSE
  /\ link' = Closed(Subscribers)
  /\ clients' = [i \in Slots |-> NoClient] /\ waiting' = <<>>
  /\ UNCHANGED <<inbox, relayed, since, lossy, published>>

CaptureNext ==
  \/ \E s \in Subscribers : Connects(s) \/ Relays(s) \/ Leaves(s)
  \/ AcceptFree \/ AcceptFull \/ Publish \/ CaptureEnds

CaptureSpec == CaptureInit /\ [][CaptureNext]_captureVars
-----------------------------------------------------------------------------
(* Properties.                                                             *)

CaptureTypeOK ==
  /\ ToSet(clients) \subseteq Subscribers \cup {NoClient}
  /\ Len(waiting) <= Backlog
  /\ \A s \in Subscribers : Len(inbox[s]) <= Room /\ since[s] <= published

\* Every connection that is open, and not waiting to be accepted, is served:
\* the browser has been sent, or is about to be sent, each key event since the
\* connection was accepted, in order and once, unless its socket was full; so
\* the chord a user holds is the chord the page records.  No connection is
\* open that nobody writes to.
SubscribersServed ==
  \A s \in Subscribers :
    link[s] = "open" /\ s \notin ToSet(waiting) =>
      /\ s \in ToSet(clients)
      /\ s \notin lossy =>
           relayed[s] \o inbox[s] =
             [i \in 1 .. published - since[s] |-> since[s] + i]
=============================================================================
