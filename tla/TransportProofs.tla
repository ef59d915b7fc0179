--------------------------- MODULE TransportProofs ---------------------------
(***************************************************************************)
(* Proofs about what two ends of a connection believe of each other.       *)
(*                                                                         *)
(* Actors: the hub's directory is what the node believes it registered     *)
(* (HubKnowsActors), for any number of actors, connections and calls.      *)
(* Four things are invariant.  Where a connection is: before it is         *)
(* authenticated its wire to the hub holds the password and nothing else   *)
(* (SessionsInv).  What the hub keeps agrees with itself and belongs to    *)
(* authenticated connections (HubInv).  The numbers of requests tell       *)
(* actors apart, so that a timer sends only refused registrations again    *)
(* (NumbersInv).  And of every other actor, the last word on the wire, or  *)
(* what the hub knows if there is none, is what the node wants it to be    *)
(* (WantedInv).                                                            *)
(*                                                                         *)
(* Sessions: what a logic node keeps of the clients of a gate, and what    *)
(* they were sent (SessionsHold), for any number of clients, connections   *)
(* and messages.  Five things are invariant beside the types: two handlers *)
(* are at one session only if their channels crossed (Alone), an object    *)
(* belongs to one session (Owned), the count (CountsSessions), a client    *)
(* that is gone and known is one whose news is on the way (ToldInv), and   *)
(* what a client was sent is in a message that waits (SentInv).            *)
(***************************************************************************)
EXTENDS ActorHub, GateSessions, Integers, SequenceTheorems, FiniteSetTheorems, TLAPS

---------------------------------------------------------------------------
(* Actors.                                                                 *)

Ops == {"auth", "reg", "unreg", "find", "authok", "nack", "found", "missing", "ack"}
Messages == [op : Ops, id : Nat, actor : Actors \union {""}]
\* What goes up: the password, or a request about an actor.
Auth(m) == m.op = "auth"
UpMessages == {m \in Messages : Auth(m) \/ (m.op \in {"reg", "unreg", "find"} /\ m.actor \in Actors)}
DownMessages == {m \in Messages : m.op = "authok" \/ (m.op \in {"nack", "found", "missing", "ack"} /\ m.actor \in Actors)}

CallStates == [at : {"idle", "sent", "own"}, id : Nat, op : {"reg", "unreg", "find"}]

TypeOK ==
    /\ hubConn \in 0 .. HubConns
    /\ alive \subseteq HubConnIds /\ handled \subseteq HubConnIds
    /\ isAuthed \in BOOLEAN
    /\ ownedActors \subseteq Actors /\ resending \subseteq Actors
    /\ reqMap \subseteq Nat \X {"reg", "unreg", "find"} \X Actors
    /\ autoReqId \in Nat
    /\ appAt \in [Actors -> CallStates]
    /\ \A a \in Actors : appAt[a].at = "own" => appAt[a].op # "find"
    /\ retries \subseteq Nat
    /\ toHub \in [HubConnIds -> Seq(UpMessages)]
    /\ toNode \in [HubConnIds -> Seq(DownMessages)]
    /\ authed \subseteq HubConnIds /\ forgotten \subseteq HubConnIds
    /\ connRegs \in [HubConnIds -> SUBSET Actors]
    /\ actorOwner \in [Actors -> HubConnIds \union {NoOwner}]
    /\ directory \subseteq Actors

---------------------------------------------------------------------------
(* Where the connections are. *)

\* Nothing but the password, and of that at most one.
OnlyAuth(s) == Len(s) <= 1 /\ \A i \in DOMAIN s : Auth(s[i])
NoAuth(s) == \A i \in DOMAIN s : ~Auth(s[i])

SessionsInv ==
    /\ alive \subseteq {hubConn} \ (handled \union forgotten)
    /\ isAuthed => hubConn \in (authed \union forgotten) \ handled
    /\ ~isAuthed => resending = {}
    /\ \A c \in HubConnIds :
          /\ c > hubConn => toHub[c] = <<>> /\ c \notin authed \union forgotten \union handled
          /\ c \notin authed => OnlyAuth(toHub[c])
          /\ c \in authed => NoAuth(toHub[c])
          /\ c \in forgotten => toHub[c] = <<>>
          /\ \A i \in DOMAIN toNode[c] : toNode[c][i].op = "authok" => c \in authed \union forgotten

(* What the hub keeps. *)
HubInv ==
    /\ authed \cap forgotten = {}
    /\ \A a \in Actors :
          /\ a \in directory <=> actorOwner[a] # NoOwner
          /\ \A c \in HubConnIds : a \in connRegs[c] <=> actorOwner[a] = c
          /\ actorOwner[a] \in authed \union {NoOwner}

---------------------------------------------------------------------------
(* The numbers of requests. *)

Asked(id, a) == \E c \in HubConnIds : \E i \in DOMAIN toHub[c] :
    ~Auth(toHub[c][i]) /\ toHub[c][i].id = id /\ toHub[c][i].actor = a
Answered(id, a) == \E c \in HubConnIds : \E i \in DOMAIN toNode[c] :
    toNode[c][i].op # "authok" /\ toNode[c][i].id = id /\ toNode[c][i].actor = a
Remembered(id, a) == \E r \in reqMap : r[1] = id /\ r[3] = a
Calling(id, a) == appAt[a].at # "idle" /\ appAt[a].id = id

Used(id, a) == Asked(id, a) \/ Answered(id, a) \/ Remembered(id, a) \/ Calling(id, a)

NumbersInv ==
    /\ \A id \in Nat, a \in Actors : Used(id, a) => id <= autoReqId
    /\ \A id \in Nat, a, b \in Actors : Used(id, a) /\ Used(id, b) => a = b
    /\ \A id \in retries : id <= autoReqId /\ \A a \in Actors : Used(id, a) => a \in Rejected
    /\ \A c \in HubConnIds : \A i \in DOMAIN toNode[c] :
          toNode[c][i].op = "nack" => toNode[c][i].actor \in Rejected

---------------------------------------------------------------------------
(* What the node wants. *)

About(m, a) == m.op \in {"reg", "unreg"} /\ m.actor = a

\* The last word of s about a is want; if s has none, then what is known is.
Settles(s, a, now, want) ==
    /\ \A i \in DOMAIN s :
          About(s[i], a) /\ (\A j \in DOMAIN s : j > i => ~About(s[j], a)) => (s[i].op = "reg" <=> want)
    /\ (\A i \in DOMAIN s : ~About(s[i], a)) => (now <=> want)

\* A call under way counts from the moment it sends.
Telling(a) == appAt[a].at # "idle" /\ appAt[a].op # "find"
Wanted(a) == (Telling(a) /\ appAt[a].op = "reg") \/ (~Telling(a) /\ a \in ownedActors)

Good == Actors \ (overlapped \union overtaken \union Rejected)

\* Before the hub's answer to the password, the hub has heard of no actor on this connection.
NothingSaid ==
    hubConn \in alive /\ ~isAuthed =>
        /\ \A a \in Actors : actorOwner[a] # hubConn
        /\ \A i \in DOMAIN toHub[hubConn] : Auth(toHub[hubConn][i])

Owns(a) == actorOwner[a] = hubConn
WillKnow(a) ==
    /\ a \in resending => Wanted(a)
    /\ hubConn \in alive /\ isAuthed /\ a \notin resending =>
          Settles(toHub[hubConn], a, Owns(a), Wanted(a))

WantedInv == NothingSaid /\ \A a \in Good : WillKnow(a)

HubIndInv == TypeOK /\ SessionsInv /\ HubInv /\ NumbersInv /\ WantedInv

---------------------------------------------------------------------------
(* What is sent and what is taken. *)

\* A wire that one message was added to, or none.
Sent(s, t, m) == t = s \/ t = Append(s, m)

LEMMA SendFacts ==
    ASSUME TypeOK, NEW m \in UpMessages, Send(m)
    PROVE  /\ toHub' \in [HubConnIds -> Seq(UpMessages)]
           /\ \A c \in HubConnIds :
                 toHub'[c] = IF c = hubConn /\ c \in alive THEN Append(toHub[c], m) ELSE toHub[c]
BY DEF TypeOK, Send

LEMMA ReplyFacts ==
    ASSUME TypeOK, NEW c \in HubConnIds, NEW m \in DownMessages, Reply(c, m)
    PROVE  /\ toNode' \in [HubConnIds -> Seq(DownMessages)]
           /\ \A d \in HubConnIds :
                 toNode'[d] = IF d = c /\ c \in alive \ handled THEN Append(toNode[d], m) ELSE toNode[d]
BY DEF TypeOK, Reply

\* The message at the head of a wire is one of its messages.
LEMMA TakeFacts ==
    ASSUME NEW S, NEW s \in Seq(S), s # <<>>
    PROVE  /\ Head(s) \in S /\ Head(s) = s[1] /\ 1 \in DOMAIN s
           /\ Tail(s) \in Seq(S) /\ Len(Tail(s)) = Len(s) - 1
           /\ \A i \in DOMAIN Tail(s) : i + 1 \in DOMAIN s /\ Tail(s)[i] = s[i + 1]
OBVIOUS

LEMMA AppendFacts ==
    ASSUME NEW S, NEW s \in Seq(S), NEW m \in S
    PROVE  /\ Append(s, m) \in Seq(S) /\ Len(Append(s, m)) = Len(s) + 1
           /\ DOMAIN Append(s, m) = DOMAIN s \union {Len(s) + 1}
           /\ \A i \in DOMAIN s : Append(s, m)[i] = s[i]
           /\ Append(s, m)[Len(s) + 1] = m
OBVIOUS

\* An answer is about the actor that was asked about.
LEMMA AnswerFacts ==
    ASSUME NEW m \in UpMessages, ~Auth(m), NEW o \in {"nack", "found", "missing", "ack"}
    PROVE  /\ [m EXCEPT !.op = o] \in DownMessages
           /\ [m EXCEPT !.op = o].op = o
           /\ [m EXCEPT !.op = o].id = m.id /\ [m EXCEPT !.op = o].actor = m.actor
BY DEF UpMessages, DownMessages, Messages, Auth, Ops

LEMMA PasswordFacts ==
    /\ [op |-> "auth", id |-> 0, actor |-> ""] \in UpMessages
    /\ Auth([op |-> "auth", id |-> 0, actor |-> ""])
    /\ [op |-> "authok", id |-> 0, actor |-> ""] \in DownMessages
BY DEF UpMessages, DownMessages, Messages, Auth, Ops

LEMMA RequestFacts ==
    ASSUME NEW o \in {"reg", "unreg", "find"}, NEW i \in Nat, NEW a \in Actors
    PROVE  /\ [op |-> o, id |-> i, actor |-> a] \in UpMessages
           /\ ~Auth([op |-> o, id |-> i, actor |-> a])
BY DEF UpMessages, Messages, Auth, Ops

---------------------------------------------------------------------------
(* The last word about an actor. *)

LEMMA SettlesAppend ==
    ASSUME NEW s \in Seq(UpMessages), NEW m \in UpMessages, NEW a,
           NEW now \in BOOLEAN, NEW want \in BOOLEAN
    PROVE  /\ About(m, a) /\ (m.op = "reg" <=> want) => Settles(Append(s, m), a, now, want)
           /\ ~About(m, a) /\ Settles(s, a, now, want) => Settles(Append(s, m), a, now, want)
<1> DEFINE t == Append(s, m)
<1>1. /\ DOMAIN t = DOMAIN s \union {Len(s) + 1} /\ Len(s) + 1 \in DOMAIN t
      /\ \A i \in DOMAIN s : t[i] = s[i] /\ i < Len(s) + 1 /\ i \in Nat
      /\ t[Len(s) + 1] = m /\ Len(s) \in Nat
  BY AppendFacts
<1> HIDE DEF t
<1>2. ASSUME About(m, a), m.op = "reg" <=> want PROVE Settles(t, a, now, want)
  BY <1>1, <1>2 DEF Settles
<1>3. ASSUME ~About(m, a), Settles(s, a, now, want) PROVE Settles(t, a, now, want)
  <2>1. ASSUME NEW i \in DOMAIN t, About(t[i], a), \A j \in DOMAIN t : j > i => ~About(t[j], a)
        PROVE  t[i].op = "reg" <=> want
    <3>1. i \in DOMAIN s
      BY <1>1, <1>3, <2>1
    <3>2. \A j \in DOMAIN s : j > i => ~About(s[j], a)
      BY <1>1, <2>1
    <3> QED BY <1>1, <1>3, <2>1, <3>1, <3>2 DEF Settles
  <2>2. (\A i \in DOMAIN t : ~About(t[i], a)) => (now <=> want)
    BY <1>1, <1>3 DEF Settles
  <2> QED BY <2>1, <2>2 DEF Settles
<1> QED BY <1>2, <1>3 DEF t

LEMMA SettlesTail ==
    ASSUME NEW s \in Seq(UpMessages), s # <<>>, NEW a,
           NEW now \in BOOLEAN, NEW now2 \in BOOLEAN, NEW want \in BOOLEAN,
           Settles(s, a, now, want),
           IF About(Head(s), a) THEN now2 <=> Head(s).op = "reg" ELSE now2 <=> now
    PROVE  Settles(Tail(s), a, now2, want)
<1> DEFINE t == Tail(s)
<1>1. /\ Head(s) = s[1] /\ 1 \in DOMAIN s
      /\ \A i \in DOMAIN t : i + 1 \in DOMAIN s /\ t[i] = s[i + 1] /\ i \in Nat
      /\ \A j \in DOMAIN s : j \in Nat /\ (j # 1 => j - 1 \in DOMAIN t /\ t[j - 1] = s[j])
  OBVIOUS
<1> HIDE DEF t
<1>2. ASSUME NEW i \in DOMAIN t, About(t[i], a), \A j \in DOMAIN t : j > i => ~About(t[j], a)
      PROVE  t[i].op = "reg" <=> want
  <2>1. \A j \in DOMAIN s : j > i + 1 => ~About(s[j], a)
    <3> SUFFICES ASSUME NEW j \in DOMAIN s, j > i + 1 PROVE ~About(s[j], a)
      OBVIOUS
    <3>1. j # 1 /\ j - 1 > i
      BY <1>1
    <3> QED BY <1>1, <1>2, <3>1
  <2> QED BY <1>1, <1>2, <2>1 DEF Settles
<1>3. ASSUME \A i \in DOMAIN t : ~About(t[i], a) PROVE now2 <=> want
  <2>1. \A j \in DOMAIN s : j # 1 => ~About(s[j], a)
    BY <1>1, <1>3
  <2>2. CASE About(Head(s), a)
    <3>1. \A j \in DOMAIN s : j > 1 => ~About(s[j], a)
      BY <1>1, <2>1
    <3> QED BY <1>1, <2>2, <3>1 DEF Settles
  <2>3. CASE ~About(Head(s), a)
    <3>1. \A j \in DOMAIN s : ~About(s[j], a)
      BY <1>1, <2>1, <2>3
    <3> QED BY <2>3, <3>1 DEF Settles
  <2> QED BY <2>2, <2>3
<1> QED BY <1>2, <1>3 DEF Settles, t

---------------------------------------------------------------------------
(* Types. *)

LEMMA InitType == ASSUME HubInit PROVE TypeOK
<1>1. toHub \in [HubConnIds -> Seq(UpMessages)] /\ toNode \in [HubConnIds -> Seq(DownMessages)]
  BY DEF HubInit
<1>2. appAt \in [Actors -> CallStates] /\ \A a \in Actors : appAt[a].at = "idle"
  BY DEF HubInit, CallStates, Idle
<1>3. /\ connRegs \in [HubConnIds -> SUBSET Actors]
      /\ actorOwner \in [Actors -> HubConnIds \union {NoOwner}]
  BY DEF HubInit
<1>4. hubConn \in 0 .. HubConns
  BY HubAssumption DEF HubInit
<1> QED BY <1>1, <1>2, <1>3, <1>4 DEF HubInit, TypeOK

LEMMA ConnectType == ASSUME TypeOK, OnConnect PROVE TypeOK'
<1>1. hubConn + 1 \in HubConnIds /\ hubConn + 1 \in 0 .. HubConns
  <2>1. hubConn \in 0 .. HubConns /\ hubConn < HubConns
    BY DEF TypeOK, OnConnect
  <2> QED BY HubAssumption, <2>1 DEF HubConnIds
<1>2. toHub' \in [HubConnIds -> Seq(UpMessages)]
  <2> DEFINE password == [op |-> "auth", id |-> 0, actor |-> ""]
  <2>1. password \in UpMessages
    BY PasswordFacts
  <2> HIDE DEF password
  <2>2. <<password>> \in Seq(UpMessages)
    BY <2>1
  <2>3. <<[op |-> "auth", id |-> 0, actor |-> ""]>> \in Seq(UpMessages)
    BY <2>2 DEF password
  <2> QED BY <2>3 DEF TypeOK, OnConnect
<1> QED BY <1>1, <1>2 DEF TypeOK, OnConnect, hubVars

LEMMA BreaksType == ASSUME TypeOK, HubBreaks PROVE TypeOK'
BY DEF TypeOK, HubBreaks, hubVars

LEMMA CloseType == ASSUME TypeOK, ClientOnClose PROVE TypeOK'
<1>1. hubConn \in HubConnIds
  BY HubAssumption DEF TypeOK, ClientOnClose, HubConnIds
<1>2. toNode' \in [HubConnIds -> Seq(DownMessages)]
  <2>1. <<>> \in Seq(DownMessages)
    OBVIOUS
  <2> QED BY <2>1 DEF TypeOK, ClientOnClose
<1> QED BY <1>1, <1>2 DEF TypeOK, ClientOnClose, hubVars

LEMMA ReqSendType ==
    ASSUME TypeOK, NEW a \in Actors, NEW op \in {"reg", "unreg", "find"}, ReqSend(a, op)
    PROVE  TypeOK'
<1>1. autoReqId + 1 \in Nat
  BY DEF TypeOK
<1>2. toHub' \in [HubConnIds -> Seq(UpMessages)]
  BY <1>1, RequestFacts, SendFacts DEF ReqSend
<1>3. appAt' \in [Actors -> CallStates] /\ \A b \in Actors : appAt'[b].at = "own" => appAt'[b].op # "find"
  BY <1>1 DEF TypeOK, ReqSend, CallStates
<1> QED BY <1>1, <1>2, <1>3 DEF TypeOK, ReqSend, hubVars

LEMMA RememberType == ASSUME TypeOK, NEW a \in Actors, ReqRemember(a) PROVE TypeOK'
<1>1. appAt[a] \in CallStates
  BY DEF TypeOK
<1>2. <<appAt[a].id, appAt[a].op, a>> \in Nat \X {"reg", "unreg", "find"} \X Actors
  BY <1>1 DEF CallStates
<1>3. appAt' \in [Actors -> CallStates] /\ \A b \in Actors : appAt'[b].at = "own" => appAt'[b].op # "find"
  BY <1>1 DEF TypeOK, ReqRemember, CallStates, Idle
<1> QED BY <1>2, <1>3 DEF TypeOK, ReqRemember, hubVars

LEMMA OwnType == ASSUME TypeOK, NEW a \in Actors, ReqOwn(a) PROVE TypeOK'
<1>1. appAt' \in [Actors -> CallStates] /\ \A b \in Actors : appAt'[b].at = "own" => appAt'[b].op # "find"
  BY DEF TypeOK, ReqOwn, CallStates, Idle
<1>2. ownedActors' \subseteq Actors
  BY DEF TypeOK, ReqOwn
<1> QED BY <1>1, <1>2 DEF TypeOK, ReqOwn, hubVars

\* What the node takes from its connection.
LEMMA NodeTakes ==
    ASSUME TypeOK, ClientOnRaw
    PROVE  /\ hubConn \in HubConnIds
           /\ toNode[hubConn] \in Seq(DownMessages) /\ toNode[hubConn] # <<>>
           /\ Head(toNode[hubConn]) \in DownMessages
           /\ toNode' \in [HubConnIds -> Seq(DownMessages)]
           /\ toNode'[hubConn] = Tail(toNode[hubConn])
           /\ \A c \in HubConnIds \ {hubConn} : toNode'[c] = toNode[c]
<1>1. hubConn \in HubConnIds
  BY HubAssumption DEF TypeOK, ClientOnRaw, HubConnIds
<1>2. toNode[hubConn] \in Seq(DownMessages) /\ toNode[hubConn] # <<>>
  BY <1>1 DEF TypeOK, ClientOnRaw
<1>3. Head(toNode[hubConn]) \in DownMessages /\ Tail(toNode[hubConn]) \in Seq(DownMessages)
  BY <1>2, TakeFacts
<1> QED BY <1>1, <1>2, <1>3 DEF TypeOK, ClientOnRaw

LEMMA OnRawType == ASSUME TypeOK, ClientOnRaw PROVE TypeOK'
<1>1. toNode' \in [HubConnIds -> Seq(DownMessages)]
  BY NodeTakes
<1>2. Head(toNode[hubConn]).id \in Nat
  BY NodeTakes DEF DownMessages, Messages
<1>3. isAuthed' \in BOOLEAN /\ resending' \subseteq Actors
  BY DEF TypeOK, ClientOnRaw
<1>4. reqMap' \subseteq Nat \X {"reg", "unreg", "find"} \X Actors
  BY DEF TypeOK, ClientOnRaw, delReq
<1>5. retries' \subseteq Nat
  BY <1>2 DEF TypeOK, ClientOnRaw
<1> QED BY <1>1, <1>3, <1>4, <1>5 DEF TypeOK, ClientOnRaw, hubVars

LEMMA ResendType == ASSUME TypeOK, NEW a \in Actors, resendOwnedActors(a) PROVE TypeOK'
<1>1. autoReqId + 1 \in Nat
  BY DEF TypeOK
<1>2. toHub' \in [HubConnIds -> Seq(UpMessages)]
  BY <1>1, RequestFacts, SendFacts DEF resendOwnedActors
<1> QED BY <1>1, <1>2 DEF TypeOK, resendOwnedActors, hubVars

\* What a timer sends again.
LEMMA RetrySends ==
    ASSUME TypeOK, NEW id \in retries, Retry(id)
    PROVE  \/ UNCHANGED toHub
           \/ \E r \in reqMap : /\ r[1] = id /\ r[2] \in {"reg", "unreg"} /\ r[3] \in Actors
                                /\ isAuthed /\ hubConn \notin handled
                                /\ [op |-> r[2], id |-> id, actor |-> r[3]] \in UpMessages
                                /\ Send([op |-> r[2], id |-> id, actor |-> r[3]])
<1> DEFINE mine == {r \in reqMap : r[1] = id /\ r[2] # "find"}
<1>1. CASE mine = {} \/ ~isAuthed \/ hubConn \in handled
  BY <1>1 DEF Retry
<1>2. CASE ~(mine = {} \/ ~isAuthed \/ hubConn \in handled)
  <2>1. PICK r \in mine : Send([op |-> r[2], id |-> id, actor |-> r[3]])
    BY <1>2 DEF Retry
  <2>2. r[2] \in {"reg", "unreg"} /\ r[3] \in Actors /\ id \in Nat
    BY <2>1 DEF TypeOK
  <2>3. [op |-> r[2], id |-> id, actor |-> r[3]] \in UpMessages
    BY <2>2, RequestFacts
  <2> QED BY <1>2, <2>1, <2>2, <2>3
<1> QED BY <1>1, <1>2

LEMMA RetryType == ASSUME TypeOK, NEW id \in retries, Retry(id) PROVE TypeOK'
<1>1. toHub' \in [HubConnIds -> Seq(UpMessages)]
  BY RetrySends, SendFacts DEF TypeOK
<1> QED BY <1>1 DEF TypeOK, Retry, hubVars

\* What the hub takes from a connection.
LEMMA HubTakes ==
    ASSUME TypeOK, NEW c \in HubConnIds, ServerOnRaw(c)
    PROVE  /\ toHub[c] \in Seq(UpMessages) /\ toHub[c] # <<>>
           /\ Head(toHub[c]) \in UpMessages
           /\ toHub' \in [HubConnIds -> Seq(UpMessages)]
           /\ toHub'[c] = Tail(toHub[c])
           /\ \A d \in HubConnIds \ {c} : toHub'[d] = toHub[d]
<1>1. toHub[c] \in Seq(UpMessages) /\ toHub[c] # <<>>
  BY DEF TypeOK, ServerOnRaw
<1>2. Head(toHub[c]) \in UpMessages /\ Tail(toHub[c]) \in Seq(UpMessages)
  BY <1>1, TakeFacts
<1> QED BY <1>1, <1>2 DEF TypeOK, ServerOnRaw

\* What the hub answers: the password, or the request.
LEMMA HubAnswers ==
    ASSUME TypeOK, NEW c \in HubConnIds, ServerOnRaw(c)
    PROVE  \E r \in DownMessages :
              /\ Reply(c, r)
              /\ LET m == Head(toHub[c])
                 IN  \/ Auth(m) /\ r.op = "authok" /\ authed' = authed \union {c}
                     \/ /\ ~Auth(m) /\ r.op \in {"nack", "found", "missing", "ack"}
                        /\ r.id = m.id /\ r.actor = m.actor /\ m.actor \in Actors
                        /\ r.op = "nack" => c \notin authed \/ m.actor \in Rejected
                        /\ authed' = authed
<1> DEFINE m == Head(toHub[c])
<1>1. m \in UpMessages /\ (~Auth(m) => m.actor \in Actors)
  BY HubTakes DEF UpMessages
<1> HIDE DEF m
<1>2. CASE Auth(m)
  BY <1>2, PasswordFacts DEF ServerOnRaw, Auth, m
<1>3. CASE ~Auth(m)
  <2>1. PICK o \in {"nack", "found", "missing", "ack"} :
              /\ Reply(c, [m EXCEPT !.op = o]) /\ UNCHANGED authed
              /\ o = "nack" => c \notin authed \/ m.actor \in Rejected
    BY <1>3 DEF ServerOnRaw, Auth, m
  <2>2. /\ [m EXCEPT !.op = o] \in DownMessages /\ [m EXCEPT !.op = o].op = o
        /\ [m EXCEPT !.op = o].id = m.id /\ [m EXCEPT !.op = o].actor = m.actor
    BY <1>1, <1>3, AnswerFacts
  <2> QED BY <1>1, <1>3, <2>1, <2>2 DEF m
<1> QED BY <1>2, <1>3

LEMMA ServerRawType == ASSUME TypeOK, NEW c \in HubConnIds, ServerOnRaw(c) PROVE TypeOK'
<1> DEFINE m == Head(toHub[c])
<1>1. toHub' \in [HubConnIds -> Seq(UpMessages)] /\ m \in UpMessages
  BY HubTakes
<1>2. toNode' \in [HubConnIds -> Seq(DownMessages)]
  BY HubAnswers, ReplyFacts
<1>3. authed' \subseteq HubConnIds
  BY HubAnswers DEF TypeOK
<1>4. /\ connRegs' \in [HubConnIds -> SUBSET Actors]
      /\ actorOwner' \in [Actors -> HubConnIds \union {NoOwner}]
      /\ directory' \subseteq Actors
  <2>1. CASE UNCHANGED <<connRegs, actorOwner, directory>>
    BY <2>1 DEF TypeOK
  <2>2. CASE m.op \in {"reg", "unreg"} /\ onRegisterActorReq(c, m)
    <3>1. m.actor \in Actors
      BY <1>1, <2>2 DEF UpMessages, Auth
    <3>2. CASE m.op = "reg"
      <4>1. connRegs' \in [HubConnIds -> SUBSET Actors]
        <5>1. /\ DOMAIN connRegs' = HubConnIds
              /\ \A d \in HubConnIds : connRegs'[d] \subseteq connRegs[d] \union {m.actor}
          BY <2>2, <3>2 DEF onRegisterActorReq
        <5> QED BY <2>2, <3>1, <3>2, <5>1 DEF TypeOK, onRegisterActorReq
      <4>2. actorOwner' \in [Actors -> HubConnIds \union {NoOwner}] /\ directory' \subseteq Actors
        BY <2>2, <3>1, <3>2 DEF TypeOK, onRegisterActorReq
      <4> QED BY <4>1, <4>2
    <3>3. CASE m.op # "reg"
      BY <2>2, <3>1, <3>3 DEF TypeOK, onRegisterActorReq
    <3> QED BY <3>2, <3>3
  <2> QED BY <2>1, <2>2 DEF ServerOnRaw
<1> QED BY <1>1, <1>2, <1>3, <1>4 DEF TypeOK, ServerOnRaw, actorNodeVars

LEMMA ServerCloseType == ASSUME TypeOK, NEW c \in HubConnIds, ServerOnClose(c) PROVE TypeOK'
<1>1. toHub' \in [HubConnIds -> Seq(UpMessages)]
  BY DEF TypeOK, ServerOnClose
<1>2. /\ connRegs' \in [HubConnIds -> SUBSET Actors]
      /\ actorOwner' \in [Actors -> HubConnIds \union {NoOwner}]
      /\ directory' \subseteq Actors
  BY DEF TypeOK, ServerOnClose
<1> QED BY <1>1, <1>2 DEF TypeOK, ServerOnClose, actorNodeVars

LEMMA NextType == ASSUME TypeOK, HubNext PROVE TypeOK'
BY ConnectType, BreaksType, CloseType, ReqSendType, RememberType, OwnType, OnRawType, ResendType,
   RetryType, ServerRawType, ServerCloseType DEF HubNext

---------------------------------------------------------------------------
(* Where the connections are. *)

LEMMA InitSessions == ASSUME HubInit PROVE SessionsInv
BY HubAssumption DEF HubInit, SessionsInv, HubConnIds, OnlyAuth, NoAuth

\* The last connection is not broken only if neither end has seen its close.
LEMMA AliveFacts ==
    ASSUME TypeOK, SessionsInv, hubConn \in alive
    PROVE  /\ hubConn \in HubConnIds /\ hubConn \notin handled /\ hubConn \notin forgotten
           /\ isAuthed => hubConn \in authed
BY DEF TypeOK, SessionsInv

LEMMA ConnectSessions == ASSUME TypeOK, SessionsInv, OnConnect PROVE SessionsInv'
<1> DEFINE n == hubConn + 1
           password == [op |-> "auth", id |-> 0, actor |-> ""]
<1>1. /\ hubConn \in Nat /\ n \in HubConnIds /\ n > hubConn
      /\ hubConn' = n /\ alive' = alive \union {n}
      /\ toHub' = [toHub EXCEPT ![n] = <<password>>]
      /\ \A c \in HubConnIds : c \in Nat /\ c # 0
  <2>1. hubConn \in 0 .. HubConns /\ hubConn < HubConns
    BY DEF TypeOK, OnConnect
  <2>2. hubConn' = n /\ alive' = alive \union {n} /\ toHub' = [toHub EXCEPT ![n] = <<password>>]
    BY DEF OnConnect
  <2>3. hubConn \in Nat /\ n \in HubConnIds /\ n > hubConn /\ \A c \in HubConnIds : c \in Nat /\ c # 0
    BY <2>1, HubAssumption DEF HubConnIds
  <2> QED BY <2>2, <2>3
<1>2. UNCHANGED <<isAuthed, resending, handled, toNode, authed, forgotten>>
  BY DEF OnConnect, hubVars
<1>3. /\ n \notin authed \union forgotten \union handled
      /\ hubConn \in handled \/ hubConn = 0
  BY <1>1 DEF SessionsInv, OnConnect
<1>4. alive = {} /\ ~isAuthed
  <2>1. hubConn \notin alive
    BY <1>1, <1>3 DEF SessionsInv, TypeOK
  <2>2. isAuthed => hubConn # 0
    BY <1>1 DEF SessionsInv, TypeOK
  <2> QED BY <1>3, <2>1, <2>2 DEF SessionsInv, TypeOK
<1>5. \A c \in HubConnIds \ {n} : toHub'[c] = toHub[c]
  BY <1>1 DEF TypeOK
<1>6. OnlyAuth(toHub'[n])
  <2>1. Auth(password)
    BY DEF Auth
  <2>2. toHub'[n] = <<password>>
    BY <1>1 DEF TypeOK
  <2> HIDE DEF password
  <2>3. Len(<<password>>) = 1 /\ \A i \in DOMAIN <<password>> : <<password>>[i] = password
    OBVIOUS
  <2> QED BY <2>1, <2>2, <2>3 DEF OnlyAuth
<1>7. ASSUME NEW c \in HubConnIds
      PROVE  /\ c > n => toHub'[c] = <<>> /\ c \notin authed \union forgotten \union handled
             /\ c \notin authed => OnlyAuth(toHub'[c])
             /\ c \in authed => NoAuth(toHub'[c])
             /\ c \in forgotten => toHub'[c] = <<>>
             /\ \A i \in DOMAIN toNode[c] : toNode[c][i].op = "authok" => c \in authed \union forgotten
  <2> HIDE DEF password
  <2>1. c > n => c > hubConn /\ c # n
    BY <1>1
  <2> QED BY <1>3, <1>5, <1>6, <2>1 DEF SessionsInv
<1>8. alive' \subseteq {n} \ (handled \union forgotten)
  BY <1>1, <1>3, <1>4
<1> HIDE DEF n
<1> QED BY <1>1, <1>2, <1>4, <1>7, <1>8 DEF SessionsInv, OnlyAuth, NoAuth

LEMMA BreaksSessions == ASSUME TypeOK, SessionsInv, HubBreaks PROVE SessionsInv'
BY DEF SessionsInv, HubBreaks, hubVars, OnlyAuth, NoAuth

LEMMA CloseSessions == ASSUME TypeOK, SessionsInv, ClientOnClose PROVE SessionsInv'
<1>1. /\ hubConn \in HubConnIds /\ hubConn \notin alive
      /\ isAuthed' = FALSE /\ handled' = handled \union {hubConn} /\ resending = {}
      /\ UNCHANGED <<hubConn, alive, resending, toHub, authed, forgotten>>
  BY HubAssumption DEF TypeOK, ClientOnClose, HubConnIds, hubVars
<1>2. \A c \in HubConnIds : \A i \in DOMAIN toNode'[c] : i \in DOMAIN toNode[c] /\ toNode'[c][i] = toNode[c][i]
  BY DEF TypeOK, ClientOnClose
<1>3. \A c \in HubConnIds : c > hubConn => c # hubConn
  BY <1>1 DEF HubConnIds
<1> QED BY <1>1, <1>2, <1>3 DEF SessionsInv, OnlyAuth, NoAuth

\* A request is sent by a node that was authenticated.
LEMMA SendSessions ==
    ASSUME TypeOK, SessionsInv, NEW m \in UpMessages, ~Auth(m), Send(m) \/ UNCHANGED toHub, isAuthed,
           UNCHANGED <<hubConn, alive, isAuthed, handled, toNode, authed, forgotten>>
    PROVE  SessionsInv'
<1>1. CASE UNCHANGED toHub
  BY <1>1 DEF SessionsInv, OnlyAuth, NoAuth
<1>2. CASE Send(m)
  <2>1. \A c \in HubConnIds :
           toHub'[c] = toHub[c] \/ (/\ c = hubConn /\ c \in authed /\ c \notin forgotten
                                    /\ toHub'[c] = Append(toHub[c], m))
    BY <1>2, SendFacts, AliveFacts
  <2>2. ASSUME NEW c \in HubConnIds, NoAuth(toHub[c])
        PROVE  NoAuth(Append(toHub[c], m))
    <3>1. toHub[c] \in Seq(UpMessages)
      BY DEF TypeOK
    <3> QED BY <2>2, <3>1, AppendFacts DEF NoAuth
  <2>3. \A c \in HubConnIds : c > hubConn => c # hubConn
    BY DEF HubConnIds, TypeOK
  <2> QED BY <2>1, <2>2, <2>3 DEF SessionsInv, OnlyAuth, NoAuth
<1> QED BY <1>1, <1>2

LEMMA NodeTakesSessions == ASSUME TypeOK, SessionsInv, ClientOnRaw PROVE SessionsInv'
<1>1. /\ hubConn \in HubConnIds /\ hubConn \notin handled
      /\ UNCHANGED <<hubConn, alive, handled, toHub, authed, forgotten>>
  BY NodeTakes DEF ClientOnRaw, hubVars
<1>2. \A c \in HubConnIds : \A i \in DOMAIN toNode'[c] :
         \E j \in DOMAIN toNode[c] : toNode'[c][i] = toNode[c][j]
  <2> SUFFICES ASSUME NEW c \in HubConnIds, NEW i \in DOMAIN toNode'[c]
               PROVE  \E j \in DOMAIN toNode[c] : toNode'[c][i] = toNode[c][j]
    OBVIOUS
  <2>1. CASE c = hubConn
    <3>1. toNode[c] \in Seq(DownMessages) /\ toNode[c] # <<>> /\ toNode'[c] = Tail(toNode[c])
      BY <2>1, NodeTakes
    <3> QED BY <3>1, TakeFacts
  <2>2. CASE c # hubConn
    BY <2>2, NodeTakes
  <2> QED BY <2>1, <2>2
<1>3. isAuthed' => hubConn \in authed \union forgotten
  <2>1. CASE UNCHANGED isAuthed
    BY <2>1 DEF SessionsInv
  <2>2. CASE Head(toNode[hubConn]).op = "authok"
    <3>1. Head(toNode[hubConn]) = toNode[hubConn][1] /\ 1 \in DOMAIN toNode[hubConn]
      BY NodeTakes, TakeFacts
    <3> QED BY <1>1, <2>2, <3>1 DEF SessionsInv
  <2> QED BY <2>1, <2>2 DEF ClientOnRaw
<1>4. ~isAuthed' => resending' = {}
  BY DEF ClientOnRaw
<1>5. \A c \in HubConnIds : \A i \in DOMAIN toNode'[c] :
         toNode'[c][i].op = "authok" => c \in authed \union forgotten
  BY <1>2 DEF SessionsInv
<1> QED BY <1>1, <1>3, <1>4, <1>5 DEF SessionsInv, OnlyAuth, NoAuth

LEMMA HubTakesSessions ==
    ASSUME TypeOK, SessionsInv, NEW c \in HubConnIds, ServerOnRaw(c)
    PROVE  SessionsInv'
<1>1. /\ c \notin forgotten
      /\ UNCHANGED <<hubConn, alive, isAuthed, resending, handled, forgotten>>
  BY DEF ServerOnRaw, actorNodeVars
<1>2. PICK r \in DownMessages :
         /\ Reply(c, r)
         /\ LET m == Head(toHub[c])
            IN  \/ Auth(m) /\ r.op = "authok" /\ authed' = authed \union {c}
                \/ ~Auth(m) /\ r.op # "authok" /\ authed' = authed
  BY HubAnswers
<1>3. /\ toHub[c] \in Seq(UpMessages) /\ toHub[c] # <<>>
      /\ Head(toHub[c]) = toHub[c][1] /\ 1 \in DOMAIN toHub[c]
      /\ \A i \in DOMAIN toHub'[c] : i + 1 \in DOMAIN toHub[c] /\ toHub'[c][i] = toHub[c][i + 1]
      /\ Len(toHub'[c]) = Len(toHub[c]) - 1 /\ Len(toHub[c]) \in Nat
      /\ \A d \in HubConnIds \ {c} : toHub'[d] = toHub[d]
  <2>1. toHub[c] \in Seq(UpMessages) /\ toHub[c] # <<>> /\ toHub'[c] = Tail(toHub[c])
    BY HubTakes
  <2>2. /\ Head(toHub[c]) = toHub[c][1] /\ 1 \in DOMAIN toHub[c]
        /\ \A i \in DOMAIN Tail(toHub[c]) : i + 1 \in DOMAIN toHub[c] /\ Tail(toHub[c])[i] = toHub[c][i + 1]
        /\ Len(Tail(toHub[c])) = Len(toHub[c]) - 1 /\ Len(toHub[c]) \in Nat
    BY <2>1, TakeFacts
  <2> QED BY <2>1, <2>2, HubTakes
<1>4. c \notin authed /\ Auth(Head(toHub[c])) => \A i \in DOMAIN toHub'[c] : FALSE
  <2> SUFFICES ASSUME c \notin authed, NEW i \in DOMAIN toHub'[c] PROVE FALSE
    OBVIOUS
  <2>1. Len(toHub[c]) <= 1
    BY DEF SessionsInv, OnlyAuth
  <2>2. toHub'[c] \in Seq(UpMessages)
    BY HubTakes
  <2> QED BY <1>3, <2>1, <2>2
<1>5. c \in authed' => NoAuth(toHub'[c])
  <2>1. CASE c \in authed
    BY <1>3, <2>1 DEF SessionsInv, NoAuth
  <2>2. CASE c \notin authed
    BY <1>2, <1>4, <2>2 DEF NoAuth
  <2> QED BY <2>1, <2>2
<1>6. c \notin authed' => OnlyAuth(toHub'[c])
  BY <1>2, <1>3 DEF SessionsInv, OnlyAuth
<1>7. ~(c > hubConn)
  BY <1>3 DEF SessionsInv
<1>8. ASSUME NEW d \in HubConnIds, NEW i \in DOMAIN toNode'[d], toNode'[d][i].op = "authok"
      PROVE  d \in authed' \union forgotten
  <2>1. CASE toNode'[d] = toNode[d]
    BY <1>2, <1>8, <2>1 DEF SessionsInv
  <2>2. CASE d = c /\ toNode'[d] = Append(toNode[d], r)
    <3>1. toNode[d] \in Seq(DownMessages)
      BY DEF TypeOK
    <3>2. CASE i \in DOMAIN toNode[d]
      BY <1>2, <1>8, <2>2, <3>1, <3>2, AppendFacts DEF SessionsInv
    <3>3. CASE i \notin DOMAIN toNode[d]
      <4>1. toNode'[d][i] = r
        BY <2>2, <3>1, <3>3, AppendFacts
      <4> QED BY <1>2, <1>8, <2>2, <4>1
    <3> QED BY <3>2, <3>3
  <2> QED BY <1>2, <2>1, <2>2, ReplyFacts
<1>9. ASSUME NEW d \in HubConnIds
      PROVE  /\ d > hubConn => toHub'[d] = <<>> /\ d \notin authed' \union forgotten \union handled
             /\ d \notin authed' => OnlyAuth(toHub'[d])
             /\ d \in authed' => NoAuth(toHub'[d])
             /\ d \in forgotten => toHub'[d] = <<>>
  <2>1. CASE d = c
    BY <1>1, <1>5, <1>6, <1>7, <2>1
  <2>2. CASE d # c
    BY <1>2, <1>3, <2>2 DEF SessionsInv
  <2> QED BY <2>1, <2>2
<1>10. isAuthed => hubConn \in (authed' \union forgotten) \ handled
  BY <1>2 DEF SessionsInv
<1> QED BY <1>1, <1>8, <1>9, <1>10 DEF SessionsInv, OnlyAuth, NoAuth

LEMMA ForgetSessions ==
    ASSUME TypeOK, SessionsInv, NEW c \in HubConnIds, ServerOnClose(c)
    PROVE  SessionsInv'
<1>1. /\ c \notin alive /\ c <= hubConn
      /\ forgotten' = forgotten \union {c} /\ authed' = authed \ {c}
      /\ UNCHANGED <<hubConn, alive, isAuthed, resending, handled, toNode>>
  BY DEF ServerOnClose, actorNodeVars
<1>2. toHub'[c] = <<>> /\ \A d \in HubConnIds \ {c} : toHub'[d] = toHub[d]
  BY DEF ServerOnClose, TypeOK
<1>3. OnlyAuth(toHub'[c])
  BY <1>2 DEF OnlyAuth
<1>4. ASSUME NEW d \in HubConnIds
      PROVE  /\ d > hubConn => toHub'[d] = <<>> /\ d \notin authed' \union forgotten' \union handled
             /\ d \notin authed' => OnlyAuth(toHub'[d])
             /\ d \in authed' => NoAuth(toHub'[d])
             /\ d \in forgotten' => toHub'[d] = <<>>
             /\ \A i \in DOMAIN toNode[d] : toNode[d][i].op = "authok" => d \in authed' \union forgotten'
  <2>1. CASE d = c
    <3>1. ~(c > hubConn)
      BY <1>1 DEF TypeOK, HubConnIds
    <3> QED BY <1>1, <1>2, <1>3, <2>1, <3>1
  <2>2. CASE d # c
    BY <1>1, <1>2, <2>2 DEF SessionsInv
  <2> QED BY <2>1, <2>2
<1>5. alive \subseteq {hubConn} \ (handled \union forgotten')
  BY <1>1 DEF SessionsInv
<1>6. isAuthed => hubConn \in (authed' \union forgotten') \ handled
  BY <1>1 DEF SessionsInv
<1>7. ~isAuthed => resending = {}
  BY DEF SessionsInv
<1> QED BY <1>1, <1>4, <1>5, <1>6, <1>7 DEF SessionsInv, OnlyAuth, NoAuth

\* The steps that send requests.
LEMMA RequestSessions ==
    ASSUME TypeOK, SessionsInv, NEW a \in Actors,
           \/ \E op \in {"reg", "unreg", "find"} : ReqSend(a, op)
           \/ resendOwnedActors(a)
    PROVE  SessionsInv'
<1>1. isAuthed
  BY DEF ReqSend, resendOwnedActors, SessionsInv
<1>2. autoReqId + 1 \in Nat
  BY DEF TypeOK
<1>3. \E m \in UpMessages : ~Auth(m) /\ Send(m)
  BY <1>2, RequestFacts DEF ReqSend, resendOwnedActors
<1>4. UNCHANGED <<hubConn, alive, isAuthed, handled, toNode, authed, forgotten>>
  BY DEF ReqSend, resendOwnedActors, hubVars
<1> QED BY <1>1, <1>3, <1>4, SendSessions

LEMMA RetrySessions == ASSUME TypeOK, SessionsInv, NEW id \in retries, Retry(id) PROVE SessionsInv'
<1>1. UNCHANGED <<hubConn, alive, isAuthed, handled, toNode, authed, forgotten, resending>>
  BY DEF Retry, hubVars
<1>2. CASE UNCHANGED toHub
  BY <1>1, <1>2 DEF SessionsInv, OnlyAuth, NoAuth
<1>3. CASE \E m \in UpMessages : ~Auth(m) /\ Send(m) /\ isAuthed
  BY <1>1, <1>3, SendSessions
<1> QED BY <1>2, <1>3, RetrySends DEF Auth

LEMMA CallSessions ==
    ASSUME SessionsInv, NEW a \in Actors, ReqRemember(a) \/ ReqOwn(a)
    PROVE  SessionsInv'
BY DEF SessionsInv, ReqRemember, ReqOwn, hubVars, OnlyAuth, NoAuth

LEMMA NextSessions == ASSUME TypeOK, SessionsInv, HubNext PROVE SessionsInv'
BY ConnectSessions, BreaksSessions, CloseSessions, NodeTakesSessions, HubTakesSessions, ForgetSessions,
   RequestSessions, RetrySessions, CallSessions DEF HubNext

---------------------------------------------------------------------------
(* What the hub keeps. *)

LEMMA InitHub == ASSUME HubInit PROVE HubInv
BY DEF HubInit, HubInv, HubConnIds, NoOwner

LEMMA RegisterHub ==
    ASSUME TypeOK, HubInv, NEW c \in HubConnIds, NEW m, m.actor \in Actors, m.op \in {"reg", "unreg"},
           onRegisterActorReq(c, m), c \in authed, UNCHANGED <<authed, forgotten>>
    PROVE  HubInv'
<1> SUFFICES ASSUME NEW a \in Actors
             PROVE  /\ a \in directory' <=> actorOwner'[a] # NoOwner
                    /\ \A d \in HubConnIds : a \in connRegs'[d] <=> actorOwner'[a] = d
                    /\ actorOwner'[a] \in authed \union {NoOwner}
  BY DEF HubInv
<1>1. /\ a \in directory <=> actorOwner[a] # NoOwner
      /\ \A d \in HubConnIds : a \in connRegs[d] <=> actorOwner[a] = d
      /\ actorOwner[a] \in authed \union {NoOwner}
  BY DEF HubInv
<1>2. c # NoOwner
  BY DEF HubConnIds, NoOwner
<1>3. CASE m.op = "reg"
  <2>1. /\ directory' = directory \union {m.actor}
        /\ actorOwner'[a] = IF a = m.actor THEN c ELSE actorOwner[a]
        /\ \A d \in HubConnIds :
              connRegs'[d] = IF d = c THEN connRegs[d] \union {m.actor}
                             ELSE IF d = actorOwner[m.actor] THEN connRegs[d] \ {m.actor} ELSE connRegs[d]
    BY <1>3 DEF onRegisterActorReq, TypeOK
  <2> QED BY <1>1, <1>2, <2>1
<1>4. CASE m.op # "reg"
  <2>1. /\ \A d \in HubConnIds : connRegs'[d] = IF d = c THEN connRegs[d] \ {m.actor} ELSE connRegs[d]
        /\ IF actorOwner[m.actor] \in {c, NoOwner}
           THEN /\ actorOwner'[a] = IF a = m.actor THEN NoOwner ELSE actorOwner[a]
                /\ directory' = directory \ {m.actor}
           ELSE UNCHANGED <<actorOwner, directory>>
    BY <1>4 DEF onRegisterActorReq, TypeOK
  <2>2. \A d \in HubConnIds : d # NoOwner
    BY DEF HubConnIds, NoOwner
  <2> QED BY <1>1, <1>2, <2>1, <2>2
<1> QED BY <1>3, <1>4

LEMMA HubTakesHub ==
    ASSUME TypeOK, HubInv, NEW c \in HubConnIds, ServerOnRaw(c)
    PROVE  HubInv'
<1> DEFINE m == Head(toHub[c])
<1>1. m \in UpMessages /\ forgotten' = forgotten /\ c \notin forgotten
  BY HubTakes DEF ServerOnRaw
<1>2. CASE UNCHANGED <<connRegs, actorOwner, directory>>
  <2>1. authed \subseteq authed' /\ authed' \subseteq authed \union {c}
    BY HubAnswers
  <2> QED BY <1>1, <1>2, <2>1 DEF HubInv
<1>3. CASE m.op \in {"reg", "unreg"} /\ c \in authed /\ onRegisterActorReq(c, m) /\ UNCHANGED authed
  <2>1. m.actor \in Actors
    BY <1>1, <1>3 DEF UpMessages, Auth
  <2> QED BY <1>1, <1>3, <2>1, RegisterHub
<1> QED BY <1>2, <1>3 DEF ServerOnRaw

LEMMA ForgetHub ==
    ASSUME TypeOK, HubInv, NEW c \in HubConnIds, ServerOnClose(c)
    PROVE  HubInv'
<1>1. forgotten' = forgotten \union {c} /\ authed' = authed \ {c}
  BY DEF ServerOnClose
<1>2. ASSUME NEW a \in Actors
      PROVE  /\ a \in directory' <=> actorOwner'[a] # NoOwner
             /\ \A d \in HubConnIds : a \in connRegs'[d] <=> actorOwner'[a] = d
             /\ actorOwner'[a] \in authed' \union {NoOwner}
  <2>1. /\ a \in directory <=> actorOwner[a] # NoOwner
        /\ \A d \in HubConnIds : a \in connRegs[d] <=> actorOwner[a] = d
        /\ actorOwner[a] \in authed \union {NoOwner}
    BY DEF HubInv
  <2>2. /\ actorOwner'[a] = IF actorOwner[a] = c THEN NoOwner ELSE actorOwner[a]
        /\ a \in directory' <=> a \in directory /\ actorOwner[a] # c
    BY <2>1 DEF ServerOnClose
  <2>3. \A d \in HubConnIds : d # NoOwner /\ connRegs'[d] = IF d = c THEN {} ELSE connRegs[d]
    BY DEF ServerOnClose, TypeOK, HubConnIds, NoOwner
  <2> QED BY <1>1, <2>1, <2>2, <2>3
<1> QED BY <1>1, <1>2 DEF HubInv

LEMMA NextHub == ASSUME TypeOK, HubInv, HubNext PROVE HubInv'
<1>1. CASE UNCHANGED hubVars
  BY <1>1 DEF HubInv, hubVars
<1>2. CASE \E c \in HubConnIds : ServerOnRaw(c) \/ ServerOnClose(c)
  BY <1>2, HubTakesHub, ForgetHub
<1> QED BY <1>1, <1>2 DEF HubNext, OnConnect, HubBreaks, ClientOnClose, ClientOnRaw, ReqSend, ReqRemember,
   ReqOwn, resendOwnedActors, Retry

---------------------------------------------------------------------------
(* The numbers of requests. *)

LEMMA InitNumbers == ASSUME HubInit PROVE NumbersInv
<1>1. \A id \in Nat, a \in Actors : ~Used(id, a)
  BY DEF HubInit, Used, Asked, Answered, Remembered, Calling, Idle
<1> QED BY <1>1 DEF HubInit, NumbersInv

\* Numbers are new, or were used for the same actor before.
LEMMA NumbersKept ==
    ASSUME TypeOK, TypeOK', NumbersInv, NEW b,
           \A id \in Nat, a \in Actors :
              Used(id, a)' => \/ Used(id, a)
                              \/ id = autoReqId + 1 /\ a = b /\ autoReqId' = autoReqId + 1,
           autoReqId' >= autoReqId,
           \A id \in retries' : \/ id \in retries
                                \/ id <= autoReqId /\ \A a \in Actors : Used(id, a) => a \in Rejected,
           \A c \in HubConnIds : \A i \in DOMAIN toNode'[c] :
              toNode'[c][i].op = "nack" => toNode'[c][i].actor \in Rejected
    PROVE  NumbersInv'
<1>1. autoReqId \in Nat /\ autoReqId' \in Nat /\ retries' \subseteq Nat
  BY DEF TypeOK
<1>2. ASSUME NEW id \in Nat, NEW a \in Actors, Used(id, a)' PROVE id <= autoReqId'
  BY <1>1, <1>2 DEF NumbersInv
<1>3. ASSUME NEW id \in Nat, NEW a \in Actors, NEW d \in Actors, Used(id, a)', Used(id, d)' PROVE a = d
  <2>1. CASE id = autoReqId + 1
    <3>1. ~Used(id, a) /\ ~Used(id, d)
      BY <1>1, <2>1 DEF NumbersInv
    <3> QED BY <1>3, <3>1
  <2>2. CASE id # autoReqId + 1
    BY <1>3, <2>2 DEF NumbersInv
  <2> QED BY <2>1, <2>2
<1>4. ASSUME NEW id \in retries'
      PROVE  id <= autoReqId' /\ \A a \in Actors : Used(id, a)' => a \in Rejected
  <2>1. id \in Nat /\ id <= autoReqId /\ \A a \in Actors : Used(id, a) => a \in Rejected
    BY <1>1, <1>4 DEF NumbersInv
  <2> QED BY <1>1, <2>1
<1> QED BY <1>2, <1>3, <1>4 DEF NumbersInv

LEMMA AskedSent ==
    ASSUME TypeOK, NEW m \in UpMessages, Send(m), NEW id, NEW a, Asked(id, a)'
    PROVE  Asked(id, a) \/ (m.id = id /\ m.actor = a)
<1>c. PICK c \in HubConnIds : \E i \in DOMAIN toHub'[c] :
         ~Auth(toHub'[c][i]) /\ toHub'[c][i].id = id /\ toHub'[c][i].actor = a
  BY DEF Asked, Auth
<1>1. PICK i \in DOMAIN toHub'[c] :
         ~Auth(toHub'[c][i]) /\ toHub'[c][i].id = id /\ toHub'[c][i].actor = a
  BY <1>c
<1>2. toHub[c] \in Seq(UpMessages)
  BY DEF TypeOK
<1>3. CASE toHub'[c] = toHub[c]
  BY <1>1, <1>3 DEF Asked
<1>4. CASE toHub'[c] = Append(toHub[c], m)
  <2>1. CASE i \in DOMAIN toHub[c]
    BY <1>1, <1>2, <1>4, <2>1, AppendFacts DEF Asked
  <2>2. CASE i \notin DOMAIN toHub[c]
    BY <1>1, <1>2, <1>4, <2>2, AppendFacts
  <2> QED BY <2>1, <2>2
<1> QED BY <1>3, <1>4, SendFacts

LEMMA AskedTaken ==
    ASSUME TypeOK, NEW c \in HubConnIds, ServerOnRaw(c)
    PROVE  /\ \A id, a : Asked(id, a)' => Asked(id, a)
           /\ ~Auth(Head(toHub[c])) => Asked(Head(toHub[c]).id, Head(toHub[c]).actor)
<1>1. /\ Head(toHub[c]) = toHub[c][1] /\ 1 \in DOMAIN toHub[c]
      /\ \A i \in DOMAIN toHub'[c] : i + 1 \in DOMAIN toHub[c] /\ toHub'[c][i] = toHub[c][i + 1]
      /\ \A d \in HubConnIds \ {c} : toHub'[d] = toHub[d]
  <2>1. toHub[c] \in Seq(UpMessages) /\ toHub[c] # <<>> /\ toHub'[c] = Tail(toHub[c])
    BY HubTakes
  <2>2. /\ Head(toHub[c]) = toHub[c][1] /\ 1 \in DOMAIN toHub[c]
        /\ \A i \in DOMAIN Tail(toHub[c]) : i + 1 \in DOMAIN toHub[c] /\ Tail(toHub[c])[i] = toHub[c][i + 1]
    BY <2>1, TakeFacts
  <2> QED BY <2>1, <2>2, HubTakes
<1>2. ~Auth(Head(toHub[c])) => Asked(Head(toHub[c]).id, Head(toHub[c]).actor)
  BY <1>1 DEF Asked
<1>3. ASSUME NEW id, NEW a, Asked(id, a)' PROVE Asked(id, a)
  <2>d. PICK d \in HubConnIds : \E i \in DOMAIN toHub'[d] :
           ~Auth(toHub'[d][i]) /\ toHub'[d][i].id = id /\ toHub'[d][i].actor = a
    BY <1>3 DEF Asked, Auth
  <2>1. PICK i \in DOMAIN toHub'[d] :
           ~Auth(toHub'[d][i]) /\ toHub'[d][i].id = id /\ toHub'[d][i].actor = a
    BY <2>d
  <2>2. \E j \in DOMAIN toHub[d] : toHub'[d][i] = toHub[d][j]
    BY <1>1
  <2> QED BY <2>1, <2>2 DEF Asked
<1> QED BY <1>2, <1>3

LEMMA AnsweredTaken ==
    ASSUME TypeOK, ClientOnRaw
    PROVE  /\ \A id, a : Answered(id, a)' => Answered(id, a)
           /\ \A c \in HubConnIds : \A i \in DOMAIN toNode'[c] :
                 \E j \in DOMAIN toNode[c] : toNode'[c][i] = toNode[c][j]
           /\ 1 \in DOMAIN toNode[hubConn] /\ Head(toNode[hubConn]) = toNode[hubConn][1]
<1>1. toNode[hubConn] \in Seq(DownMessages) /\ toNode[hubConn] # <<>> /\ toNode'[hubConn] = Tail(toNode[hubConn])
  BY NodeTakes
<1>2. /\ Head(toNode[hubConn]) = toNode[hubConn][1] /\ 1 \in DOMAIN toNode[hubConn]
      /\ \A i \in DOMAIN toNode'[hubConn] : /\ i + 1 \in DOMAIN toNode[hubConn]
                                            /\ toNode'[hubConn][i] = toNode[hubConn][i + 1]
  BY <1>1, TakeFacts
<1>3. ASSUME NEW c \in HubConnIds, NEW i \in DOMAIN toNode'[c]
      PROVE  \E j \in DOMAIN toNode[c] : toNode'[c][i] = toNode[c][j]
  <2>1. CASE c = hubConn
    BY <1>2, <2>1
  <2>2. CASE c # hubConn
    BY <2>2, NodeTakes
  <2> QED BY <2>1, <2>2
<1>4. \A id, a : Answered(id, a)' => Answered(id, a)
  BY <1>3 DEF Answered
<1> QED BY <1>2, <1>3, <1>4

LEMMA AnsweredReplied ==
    ASSUME TypeOK, NEW c \in HubConnIds, NEW r \in DownMessages, Reply(c, r)
    PROVE  /\ \A id, a : Answered(id, a)' => Answered(id, a) \/ (r.op # "authok" /\ r.id = id /\ r.actor = a)
           /\ \A d \in HubConnIds : \A i \in DOMAIN toNode'[d] :
                 toNode'[d][i] = r \/ \E j \in DOMAIN toNode[d] : toNode'[d][i] = toNode[d][j]
<1>1. ASSUME NEW d \in HubConnIds, NEW i \in DOMAIN toNode'[d]
      PROVE  toNode'[d][i] = r \/ \E j \in DOMAIN toNode[d] : toNode'[d][i] = toNode[d][j]
  <2>1. toNode[d] \in Seq(DownMessages)
    BY DEF TypeOK
  <2>2. CASE toNode'[d] = toNode[d]
    BY <1>1, <2>2
  <2>3. CASE toNode'[d] = Append(toNode[d], r)
    <3>1. CASE i \in DOMAIN toNode[d]
      BY <2>1, <2>3, <3>1, AppendFacts
    <3>2. CASE i \notin DOMAIN toNode[d]
      BY <1>1, <2>1, <2>3, <3>2, AppendFacts
    <3> QED BY <3>1, <3>2
  <2> QED BY <2>2, <2>3, ReplyFacts
<1>2. \A id, a : Answered(id, a)' => Answered(id, a) \/ (r.op # "authok" /\ r.id = id /\ r.actor = a)
  BY <1>1 DEF Answered
<1> QED BY <1>1, <1>2

LEMMA ConnectNumbers == ASSUME TypeOK, TypeOK', NumbersInv, OnConnect PROVE NumbersInv'
<1> DEFINE n == hubConn + 1
           password == [op |-> "auth", id |-> 0, actor |-> ""]
<1>1. /\ toHub' = [toHub EXCEPT ![n] = <<password>>]
      /\ UNCHANGED <<toNode, reqMap, appAt, autoReqId, retries>>
  BY DEF OnConnect
<1>2. Auth(password)
  BY DEF Auth
<1> HIDE DEF n, password
<1>3. \A c \in HubConnIds : toHub'[c] = toHub[c] \/ toHub'[c] = <<password>>
  BY <1>1 DEF TypeOK
<1>4. \A i \in DOMAIN <<password>> : <<password>>[i] = password
  OBVIOUS
<1>5. \A id, a : Asked(id, a)' => Asked(id, a)
  BY <1>2, <1>3, <1>4 DEF Asked, Auth
<1>6. \A id \in Nat, a \in Actors : Used(id, a)' => Used(id, a)
  BY <1>1, <1>5 DEF Used, Answered, Remembered, Calling
<1> QED BY <1>1, <1>6, NumbersKept DEF TypeOK, NumbersInv

LEMMA CloseNumbers == ASSUME TypeOK, TypeOK', NumbersInv, ClientOnClose PROVE NumbersInv'
<1>1. reqMap' = {} /\ UNCHANGED <<toHub, appAt, autoReqId, retries>>
  BY DEF ClientOnClose
<1>2. \A c \in HubConnIds : \A i \in DOMAIN toNode'[c] : i \in DOMAIN toNode[c] /\ toNode'[c][i] = toNode[c][i]
  BY DEF TypeOK, ClientOnClose
<1>3. \A id, a : Answered(id, a)' => Answered(id, a)
  BY <1>2 DEF Answered
<1>4. \A id \in Nat, a \in Actors : Used(id, a)' => Used(id, a)
  BY <1>1, <1>3 DEF Used, Asked, Auth, Remembered, Calling
<1>5. \A c \in HubConnIds : \A i \in DOMAIN toNode'[c] :
         toNode'[c][i].op = "nack" => toNode'[c][i].actor \in Rejected
  BY <1>2 DEF NumbersInv
<1> QED BY <1>1, <1>4, <1>5, NumbersKept DEF TypeOK

LEMMA RequestNumbers ==
    ASSUME TypeOK, TypeOK', NumbersInv, NEW b \in Actors,
           \/ \E op \in {"reg", "unreg", "find"} : ReqSend(b, op)
           \/ resendOwnedActors(b)
    PROVE  NumbersInv'
<1>1. autoReqId + 1 \in Nat /\ autoReqId' = autoReqId + 1 /\ autoReqId \in Nat
  BY DEF TypeOK, ReqSend, resendOwnedActors
<1>2. PICK m \in UpMessages : m.id = autoReqId + 1 /\ m.actor = b /\ Send(m)
  BY <1>1, RequestFacts DEF ReqSend, resendOwnedActors
<1>3. \A id, a : Asked(id, a)' => Asked(id, a) \/ (id = autoReqId + 1 /\ a = b)
  BY <1>2, AskedSent
<1>4. \A id, a : Remembered(id, a)' => Remembered(id, a) \/ (id = autoReqId + 1 /\ a = b)
  BY DEF ReqSend, resendOwnedActors, Remembered
<1>5. UNCHANGED <<toNode, retries>>
  BY DEF ReqSend, resendOwnedActors
<1>6. \A id \in Nat, a \in Actors :
         Used(id, a)' => Used(id, a) \/ (id = autoReqId + 1 /\ a = b /\ autoReqId' = autoReqId + 1)
  <2> SUFFICES ASSUME NEW id \in Nat, NEW a \in Actors, Used(id, a)', ~Used(id, a)
               PROVE  id = autoReqId + 1 /\ a = b
    BY <1>1
  <2>1. Calling(id, a)' => Calling(id, a) \/ (id = autoReqId + 1 /\ a = b)
    BY DEF TypeOK, ReqSend, resendOwnedActors, Calling
  <2>2. Answered(id, a)' => Answered(id, a)
    BY <1>5 DEF Answered
  <2> QED BY <1>3, <1>4, <2>1, <2>2 DEF Used
<1> QED BY <1>1, <1>5, <1>6, NumbersKept DEF NumbersInv

LEMMA CallNumbers ==
    ASSUME TypeOK, TypeOK', NumbersInv, NEW b \in Actors, ReqRemember(b) \/ ReqOwn(b)
    PROVE  NumbersInv'
<1>1. UNCHANGED <<toHub, toNode, autoReqId, retries>>
  BY DEF ReqRemember, ReqOwn
<1>2. ASSUME NEW id \in Nat, NEW a \in Actors, Used(id, a)' PROVE Used(id, a)
  <2>1. Asked(id, a)' => Asked(id, a)
    BY <1>1 DEF Asked, Auth
  <2>2. Answered(id, a)' => Answered(id, a)
    BY <1>1 DEF Answered
  <2>3. Remembered(id, a)' => Remembered(id, a) \/ Calling(id, a)
    BY DEF ReqRemember, ReqOwn, Remembered, Calling
  <2>4. Calling(id, a)' => Calling(id, a)
    <3>1. CASE a # b
      BY <3>1 DEF TypeOK, ReqRemember, ReqOwn, Calling
    <3>2. CASE a = b
      <4>1. appAt[b] \in CallStates /\ appAt[b].at # "idle"
        BY DEF TypeOK, ReqRemember, ReqOwn
      <4>2. appAt'[b] = Idle \/ appAt'[b] = [appAt[b] EXCEPT !.at = "own"]
        BY DEF TypeOK, ReqRemember, ReqOwn
      <4> QED BY <3>2, <4>1, <4>2 DEF Calling, Idle, CallStates
    <3> QED BY <3>1, <3>2
  <2> QED BY <1>2, <2>1, <2>2, <2>3, <2>4 DEF Used
<1> QED BY <1>1, <1>2, NumbersKept DEF TypeOK, NumbersInv

LEMMA NodeTakesNumbers == ASSUME TypeOK, TypeOK', NumbersInv, ClientOnRaw PROVE NumbersInv'
<1> DEFINE m == Head(toNode[hubConn])
<1>1. UNCHANGED <<toHub, appAt, autoReqId>> /\ reqMap' \subseteq reqMap
  BY DEF ClientOnRaw, delReq
<1>2. \A id \in Nat, a \in Actors : Used(id, a)' => Used(id, a)
  BY <1>1, AnsweredTaken DEF Used, Asked, Auth, Remembered, Calling
<1>3. \A c \in HubConnIds : \A i \in DOMAIN toNode'[c] :
         toNode'[c][i].op = "nack" => toNode'[c][i].actor \in Rejected
  BY AnsweredTaken DEF NumbersInv
<1>4. retries' = retries \/ (m.op = "nack" /\ retries' = retries \union {m.id})
  BY DEF ClientOnRaw
<1>5. ASSUME m.op = "nack"
      PROVE  m.id <= autoReqId /\ \A a \in Actors : Used(m.id, a) => a \in Rejected
  <2>1. hubConn \in HubConnIds /\ m \in DownMessages
    BY NodeTakes
  <2>2. m.id \in Nat /\ m.actor \in Actors
    BY <1>5, <2>1 DEF DownMessages, Messages
  <2>3. Used(m.id, m.actor) /\ m.actor \in Rejected
    BY <1>5, <2>1, AnsweredTaken DEF Used, Answered, NumbersInv
  <2> QED BY <2>2, <2>3 DEF NumbersInv
<1>6. \A id \in retries' : id \in retries \/ (id <= autoReqId /\ \A a \in Actors : Used(id, a) => a \in Rejected)
  BY <1>4, <1>5
<1>7. autoReqId' >= autoReqId
  BY <1>1 DEF TypeOK
<1> QED BY <1>2, <1>3, <1>6, <1>7, NumbersKept

LEMMA RetryNumbers ==
    ASSUME TypeOK, TypeOK', NumbersInv, NEW id \in retries, Retry(id)
    PROVE  NumbersInv'
<1>1. UNCHANGED <<reqMap, appAt, autoReqId, toNode>> /\ retries' \subseteq retries
  BY DEF Retry
<1>2. \A i, a : Asked(i, a)' => Asked(i, a) \/ Remembered(i, a)
  <2>1. CASE UNCHANGED toHub
    BY <2>1 DEF Asked, Auth
  <2>2. CASE \E r \in reqMap : /\ r[1] = id /\ [op |-> r[2], id |-> id, actor |-> r[3]] \in UpMessages
                               /\ Send([op |-> r[2], id |-> id, actor |-> r[3]])
    <3>1. PICK r \in reqMap : /\ r[1] = id /\ [op |-> r[2], id |-> id, actor |-> r[3]] \in UpMessages
                              /\ Send([op |-> r[2], id |-> id, actor |-> r[3]])
      BY <2>2
    <3>2. \A i, a : Asked(i, a)' => Asked(i, a) \/ (id = i /\ r[3] = a)
      BY <3>1, AskedSent
    <3> QED BY <3>1, <3>2 DEF Remembered
  <2> QED BY <2>1, <2>2, RetrySends
<1>3. \A i \in Nat, a \in Actors : Used(i, a)' => Used(i, a)
  BY <1>1, <1>2 DEF Used, Answered, Remembered, Calling
<1> QED BY <1>1, <1>3, NumbersKept DEF TypeOK, NumbersInv

LEMMA HubTakesNumbers ==
    ASSUME TypeOK, TypeOK', SessionsInv, NumbersInv, NEW c \in HubConnIds, ServerOnRaw(c)
    PROVE  NumbersInv'
<1> DEFINE m == Head(toHub[c])
<1>1. UNCHANGED <<reqMap, appAt, autoReqId, retries>>
  BY DEF ServerOnRaw, actorNodeVars
<1>2. PICK r \in DownMessages :
         /\ Reply(c, r)
         /\ \/ Auth(m) /\ r.op = "authok"
            \/ /\ ~Auth(m) /\ r.id = m.id /\ r.actor = m.actor
               /\ r.op = "nack" => c \notin authed \/ m.actor \in Rejected
  BY HubAnswers
<1>3. \A id, a : Answered(id, a)' => Answered(id, a) \/ Asked(id, a)
  BY <1>2, AnsweredReplied, AskedTaken
<1>4. \A id \in Nat, a \in Actors : Used(id, a)' => Used(id, a)
  BY <1>1, <1>3, AskedTaken DEF Used, Remembered, Calling
<1>5. r.op = "nack" => r.actor \in Rejected
  <2>1. ~Auth(m) => c \in authed
    <3>1. toHub[c] \in Seq(UpMessages) /\ toHub[c] # <<>>
      BY HubTakes
    <3>2. m = toHub[c][1] /\ 1 \in DOMAIN toHub[c]
      BY <3>1, TakeFacts
    <3> QED BY <3>2 DEF SessionsInv, OnlyAuth
  <2> QED BY <1>2, <2>1
<1>6. \A d \in HubConnIds : \A i \in DOMAIN toNode'[d] :
         toNode'[d][i].op = "nack" => toNode'[d][i].actor \in Rejected
  BY <1>2, <1>5, AnsweredReplied DEF NumbersInv
<1> QED BY <1>1, <1>4, <1>6, NumbersKept DEF TypeOK

LEMMA ForgetNumbers ==
    ASSUME TypeOK, TypeOK', NumbersInv, NEW c \in HubConnIds, ServerOnClose(c)
    PROVE  NumbersInv'
<1>1. UNCHANGED <<reqMap, appAt, autoReqId, retries, toNode>>
  BY DEF ServerOnClose, actorNodeVars
<1>2. \A d \in HubConnIds : toHub'[d] = toHub[d] \/ toHub'[d] = <<>>
  BY DEF ServerOnClose, TypeOK
<1>3. \A id, a : Asked(id, a)' => Asked(id, a)
  BY <1>2 DEF Asked, Auth
<1>4. \A id \in Nat, a \in Actors : Used(id, a)' => Used(id, a)
  BY <1>1, <1>3 DEF Used, Answered, Remembered, Calling
<1> QED BY <1>1, <1>4, NumbersKept DEF TypeOK, NumbersInv

LEMMA NextNumbers == ASSUME TypeOK, TypeOK', SessionsInv, NumbersInv, HubNext PROVE NumbersInv'
<1>1. CASE HubBreaks
  BY <1>1 DEF HubBreaks, NumbersInv, Used, Asked, Auth, Answered, Remembered, Calling
<1> QED BY <1>1, ConnectNumbers, CloseNumbers, RequestNumbers, CallNumbers, NodeTakesNumbers, RetryNumbers,
   HubTakesNumbers, ForgetNumbers DEF HubNext

---------------------------------------------------------------------------
(* What the node wants. *)

LEMMA InitWanted == ASSUME HubInit PROVE WantedInv
BY DEF HubInit, WantedInv, NothingSaid, WillKnow

LEMMA ConnectWanted ==
    ASSUME TypeOK, SessionsInv, HubInv, WantedInv, SessionsInv', OnConnect
    PROVE  WantedInv'
<1> DEFINE n == hubConn + 1
           password == [op |-> "auth", id |-> 0, actor |-> ""]
<1>1. /\ n \in HubConnIds /\ n > hubConn /\ hubConn' = n
      /\ toHub' = [toHub EXCEPT ![n] = <<password>>]
      /\ UNCHANGED <<isAuthed, resending, authed, forgotten, actorOwner>>
  <2>1. hubConn \in 0 .. HubConns /\ hubConn < HubConns
    BY DEF TypeOK, OnConnect
  <2>2. n \in HubConnIds /\ n > hubConn
    BY <2>1, HubAssumption DEF HubConnIds
  <2>3. /\ hubConn' = n /\ toHub' = [toHub EXCEPT ![n] = <<password>>]
        /\ UNCHANGED <<isAuthed, resending, authed, forgotten, actorOwner>>
    BY DEF OnConnect, hubVars
  <2> QED BY <2>2, <2>3
<1>2. Auth(password) /\ toHub'[n] = <<password>>
  BY <1>1 DEF TypeOK, Auth
<1> HIDE DEF n, password
<1>3. n \notin authed \union forgotten /\ n # NoOwner
  BY <1>1 DEF SessionsInv, HubConnIds, NoOwner
<1>4. ~isAuthed /\ resending = {}
  BY <1>1, <1>3 DEF SessionsInv
<1>5. \A a \in Actors : actorOwner[a] # n
  BY <1>3 DEF HubInv
<1>6. \A i \in DOMAIN <<password>> : <<password>>[i] = password
  OBVIOUS
<1>7. NothingSaid'
  BY <1>1, <1>2, <1>5, <1>6 DEF NothingSaid, Auth
<1> QED BY <1>1, <1>4, <1>7 DEF WantedInv, WillKnow

LEMMA BreaksWanted == ASSUME WantedInv, HubBreaks PROVE WantedInv'
<1>1. /\ hubConn' \notin alive'
      /\ UNCHANGED <<hubConn, resending, appAt, ownedActors, overlapped, overtaken>>
  BY DEF HubBreaks
<1> QED BY <1>1 DEF WantedInv, NothingSaid, WillKnow, Good, Wanted, Telling

LEMMA CloseWanted == ASSUME WantedInv, ClientOnClose PROVE WantedInv'
<1>1. /\ hubConn' \notin alive'
      /\ UNCHANGED <<hubConn, resending, appAt, ownedActors, overlapped, overtaken>>
  BY DEF ClientOnClose
<1> QED BY <1>1 DEF WantedInv, NothingSaid, WillKnow, Good, Wanted, Telling

\* What is wanted is a truth value, and so is what the hub knows.
LEMMA WantedBoolean == \A a : Wanted(a) \in BOOLEAN /\ Owns(a) \in BOOLEAN
BY DEF Wanted, Owns

\* A message about another actor, or a new one about this.
LEMMA SentWanted ==
    ASSUME TypeOK, SessionsInv, NEW a \in Good, WillKnow(a), NEW m \in UpMessages, Send(m), isAuthed,
           UNCHANGED <<hubConn, alive, isAuthed, actorOwner>>,
           a \in resending' => a \in resending /\ Wanted(a)',
           IF About(m, a) THEN m.op = "reg" <=> Wanted(a)'
                          ELSE (Wanted(a)' <=> Wanted(a)) /\ (a \in resending => a \in resending')
    PROVE  WillKnow(a)'
<1> SUFFICES ASSUME hubConn \in alive, a \notin resending'
             PROVE  Settles(toHub'[hubConn], a, Owns(a), Wanted(a)')
  BY DEF WillKnow, Settles, About, Owns
<1>1. /\ toHub[hubConn] \in Seq(UpMessages) /\ hubConn \in HubConnIds
      /\ toHub'[hubConn] = Append(toHub[hubConn], m)
  BY AliveFacts, SendFacts DEF TypeOK
<1>2. Wanted(a)' \in BOOLEAN /\ Owns(a) \in BOOLEAN
  BY DEF Wanted, Owns
<1>3. CASE About(m, a)
  BY <1>1, <1>2, <1>3, SettlesAppend
<1>4. CASE ~About(m, a)
  <2>1. Settles(toHub[hubConn], a, Owns(a), Wanted(a)')
    BY <1>4 DEF WillKnow, Settles
  <2> QED BY <1>1, <1>2, <1>4, <2>1, SettlesAppend
<1> QED BY <1>3, <1>4

LEMMA ReqSendWanted ==
    ASSUME TypeOK, SessionsInv, WantedInv, NEW b \in Actors, NEW op \in {"reg", "unreg", "find"}, ReqSend(b, op)
    PROVE  WantedInv'
<1> DEFINE m == [op |-> op, id |-> autoReqId + 1, actor |-> b]
<1>1. /\ isAuthed /\ UNCHANGED <<hubConn, alive, isAuthed, actorOwner, resending, ownedActors, overtaken>>
      /\ overlapped \subseteq overlapped' /\ appAt[b].at = "idle"
      /\ b \in resending /\ op = "unreg" => b \in overlapped'
      /\ \A a \in Actors \ {b} : appAt'[a] = appAt[a]
      /\ appAt'[b].at = "sent" /\ appAt'[b].op = op
  BY DEF ReqSend, hubVars, TypeOK
<1>2. m \in UpMessages /\ Send(m) /\ m.op = op /\ m.actor = b
  <2>1. autoReqId + 1 \in Nat
    BY DEF TypeOK
  <2> QED BY <2>1, RequestFacts DEF ReqSend
<1> HIDE DEF m
<1>3. ASSUME NEW a \in Good' PROVE WillKnow(a)'
  <2>1. a \in Good /\ WillKnow(a) /\ a \in Actors /\ a \notin overlapped'
    BY <1>1, <1>3 DEF Good, WantedInv
  <2>2. CASE About(m, a)
    <3>1. a = b /\ op \in {"reg", "unreg"}
      BY <1>2, <2>2 DEF About
    <3>2. Wanted(a)' <=> op = "reg"
      BY <1>1, <3>1 DEF Wanted, Telling
    <3>3. a \in resending' => a \in resending /\ Wanted(a)'
      BY <1>1, <2>1, <3>1, <3>2
    <3> QED BY <1>1, <1>2, <2>1, <2>2, <3>2, <3>3, SentWanted
  <2>3. CASE ~About(m, a)
    <3>1. Wanted(a)' <=> Wanted(a)
      <4>1. CASE a = b
        <5>1. op = "find"
          BY <1>2, <2>3, <4>1 DEF About
        <5> QED BY <1>1, <4>1, <5>1 DEF Wanted, Telling
      <4>2. CASE a # b
        BY <1>1, <2>1, <4>2 DEF Wanted, Telling
      <4> QED BY <4>1, <4>2
    <3>2. a \in resending' => a \in resending /\ Wanted(a)'
      BY <1>1, <2>1, <3>1 DEF WillKnow
    <3> QED BY <1>1, <1>2, <2>1, <2>3, <3>1, <3>2, SentWanted
  <2> QED BY <2>2, <2>3
<1>4. NothingSaid'
  BY <1>1 DEF NothingSaid
<1> QED BY <1>3, <1>4 DEF WantedInv

LEMMA ResendWanted ==
    ASSUME TypeOK, SessionsInv, WantedInv, NEW b \in Actors, resendOwnedActors(b)
    PROVE  WantedInv'
<1> DEFINE m == [op |-> "reg", id |-> autoReqId + 1, actor |-> b]
<1>1. /\ isAuthed /\ b \in resending /\ resending' = resending \ {b}
      /\ UNCHANGED <<hubConn, alive, isAuthed, actorOwner, appAt, ownedActors, overlapped, overtaken>>
  BY DEF resendOwnedActors, hubVars, SessionsInv
<1>2. m \in UpMessages /\ Send(m) /\ m.op = "reg" /\ m.actor = b
  <2>1. autoReqId + 1 \in Nat
    BY DEF TypeOK
  <2> QED BY <2>1, RequestFacts DEF resendOwnedActors
<1> HIDE DEF m
<1>3. ASSUME NEW a \in Good' PROVE WillKnow(a)'
  <2>1. a \in Good /\ WillKnow(a)
    BY <1>1, <1>3 DEF Good, WantedInv
  <2>2. Wanted(a)' <=> Wanted(a)
    BY <1>1 DEF Wanted, Telling
  <2>3. About(m, a) <=> a = b
    BY <1>2 DEF About
  <2>4. a \in resending => Wanted(a)
    BY <2>1 DEF WillKnow
  <2> QED BY <1>1, <1>2, <2>1, <2>2, <2>3, <2>4, SentWanted
<1>4. NothingSaid'
  BY <1>1 DEF NothingSaid
<1> QED BY <1>3, <1>4 DEF WantedInv

LEMMA CallWanted ==
    ASSUME TypeOK, WantedInv, NEW b \in Actors, ReqRemember(b) \/ ReqOwn(b)
    PROVE  WantedInv'
<1>1. UNCHANGED <<hubConn, alive, isAuthed, actorOwner, resending, toHub, overlapped, overtaken>>
  BY DEF ReqRemember, ReqOwn, hubVars
<1>2. ASSUME NEW a \in Actors PROVE Wanted(a)' <=> Wanted(a)
  <2>1. CASE ReqRemember(b)
    <3>1. CASE a # b
      BY <2>1, <3>1 DEF TypeOK, ReqRemember, Wanted, Telling
    <3>2. CASE a = b
      <4>1. appAt[b] \in CallStates /\ appAt[b].at = "sent" /\ ownedActors' = ownedActors
        BY <2>1 DEF TypeOK, ReqRemember
      <4>2. appAt'[b] = IF appAt[b].op = "find" THEN Idle ELSE [appAt[b] EXCEPT !.at = "own"]
        BY <2>1 DEF TypeOK, ReqRemember
      <4> QED BY <3>2, <4>1, <4>2 DEF Wanted, Telling, Idle, CallStates
    <3> QED BY <3>1, <3>2
  <2>2. CASE ReqOwn(b)
    <3>1. CASE a # b
      BY <2>2, <3>1 DEF TypeOK, ReqOwn, Wanted, Telling
    <3>2. CASE a = b
      BY <2>2, <3>2 DEF TypeOK, ReqOwn, Wanted, Telling, Idle
    <3> QED BY <3>1, <3>2
  <2> QED BY <2>1, <2>2
<1> QED BY <1>1, <1>2 DEF WantedInv, NothingSaid, WillKnow, Good, Settles, About, Owns, Auth

LEMMA NodeTakesWanted ==
    ASSUME TypeOK, SessionsInv, WantedInv, ClientOnRaw
    PROVE  WantedInv'
<1>1. /\ UNCHANGED <<hubConn, alive, actorOwner, appAt, ownedActors, toHub, overtaken>>
      /\ resending = {} /\ overlapped \subseteq overlapped'
  BY DEF ClientOnRaw, hubVars
<1>2. \A a \in Actors : Wanted(a)' <=> Wanted(a)
  BY <1>1 DEF Wanted, Telling
<1>3. CASE UNCHANGED <<isAuthed, resending>>
  BY <1>1, <1>2, <1>3 DEF WantedInv, NothingSaid, WillKnow, Good, Settles, About, Owns, Auth
<1>4. CASE /\ isAuthed' = TRUE /\ resending' = ownedActors
           /\ overlapped' = overlapped \union {a \in Actors : appAt[a].op # "find" /\ appAt[a].at # "idle"}
  <2>1. ASSUME NEW a \in Good' PROVE WillKnow(a)'
    <3>1. a \in Good /\ WillKnow(a) /\ a \in Actors
      BY <1>1, <2>1 DEF Good, WantedInv
    <3>2. Wanted(a) <=> a \in ownedActors
      BY <1>4, <2>1 DEF Good, Wanted, Telling, Telling
    <3>3. ASSUME hubConn \in alive, a \notin ownedActors
          PROVE  Settles(toHub[hubConn], a, Owns(a), Wanted(a))
      <4>1. CASE isAuthed
        BY <1>1, <3>1, <3>3, <4>1 DEF WillKnow
      <4>2. CASE ~isAuthed
        <5>1. actorOwner[a] # hubConn /\ \A i \in DOMAIN toHub[hubConn] : Auth(toHub[hubConn][i])
          BY <3>1, <3>3, <4>2 DEF WantedInv, NothingSaid
        <5> QED BY <3>2, <3>3, <5>1 DEF Settles, About, Auth, Owns
      <4> QED BY <4>1, <4>2
    <3>4. Settles(toHub[hubConn], a, Owns(a), Wanted(a)) => Settles(toHub[hubConn], a, Owns(a), Wanted(a))'
      BY <1>1, <1>2, <3>1 DEF Settles, About, Owns
    <3> QED BY <1>1, <1>2, <1>4, <3>1, <3>2, <3>3, <3>4 DEF WillKnow
  <2>2. NothingSaid'
    BY <1>4 DEF NothingSaid
  <2> QED BY <2>1, <2>2 DEF WantedInv
<1> QED BY <1>3, <1>4 DEF ClientOnRaw

LEMMA RetryWanted ==
    ASSUME TypeOK, SessionsInv, NumbersInv, WantedInv, NEW id \in retries, Retry(id)
    PROVE  WantedInv'
<1>1. UNCHANGED <<hubConn, alive, isAuthed, actorOwner, appAt, ownedActors, resending, overlapped, overtaken>>
  BY DEF Retry, hubVars
<1>2. CASE UNCHANGED toHub
  BY <1>1, <1>2 DEF WantedInv, NothingSaid, WillKnow, Good, Wanted, Telling, Settles, About, Owns, Auth
<1>3. CASE ~UNCHANGED toHub
  <2>1. PICK r \in reqMap : /\ r[1] = id /\ r[3] \in Actors /\ isAuthed
                            /\ [op |-> r[2], id |-> id, actor |-> r[3]] \in UpMessages
                            /\ Send([op |-> r[2], id |-> id, actor |-> r[3]])
    BY <1>3, RetrySends
  <2>2. r[3] \in Rejected
    BY <2>1 DEF NumbersInv, Used, Remembered
  <2>3. PICK m \in UpMessages : m.actor = r[3] /\ Send(m)
    BY <2>1
  <2>4. ASSUME NEW a \in Good' PROVE WillKnow(a)'
    <3>1. a \in Good /\ WillKnow(a) /\ ~About(m, a)
      BY <1>1, <2>2, <2>3, <2>4 DEF Good, WantedInv, About
    <3>2. Wanted(a)' <=> Wanted(a)
      BY <1>1 DEF Wanted, Telling
    <3>3. a \in resending => Wanted(a)
      BY <3>1 DEF WillKnow
    <3> QED BY <1>1, <2>1, <2>3, <3>1, <3>2, <3>3, SentWanted
  <2>5. NothingSaid'
    BY <1>1, <2>1 DEF NothingSaid
  <2> QED BY <2>4, <2>5 DEF WantedInv
<1> QED BY <1>2, <1>3

\* What a message does to the owner of an actor.
LEMMA OwnerStep ==
    ASSUME TypeOK, NEW c \in HubConnIds, ServerOnRaw(c), NEW a \in Actors,
           NEW m, m = Head(toHub[c])
    PROVE  /\ ~About(m, a) => actorOwner'[a] = actorOwner[a]
           /\ actorOwner'[a] \in {actorOwner[a], c, NoOwner}
           /\ About(m, a) /\ c \in authed /\ a \notin Rejected => (actorOwner'[a] = c <=> m.op = "reg")
<1>1. m \in UpMessages /\ c # NoOwner
  BY HubTakes DEF HubConnIds, NoOwner
<1>2. CASE actorOwner' = actorOwner /\ (About(m, a) => c \notin authed \/ (m.op = "reg" /\ m.actor \in Rejected))
  BY <1>2 DEF About
<1>3. CASE m.op \in {"reg", "unreg"} /\ onRegisterActorReq(c, Head(toHub[c]))
  <2>1. m.actor \in Actors
    BY <1>1, <1>3 DEF UpMessages, Auth
  <2>2. CASE m.op = "reg"
    <3>1. actorOwner'[a] = IF a = m.actor THEN c ELSE actorOwner[a]
      BY <1>3, <2>1, <2>2 DEF onRegisterActorReq, TypeOK
    <3> QED BY <2>2, <3>1 DEF About
  <2>3. CASE m.op # "reg"
    <3>1. IF actorOwner[m.actor] \in {c, NoOwner}
          THEN actorOwner'[a] = IF a = m.actor THEN NoOwner ELSE actorOwner[a]
          ELSE actorOwner' = actorOwner
      BY <1>3, <2>1, <2>3 DEF onRegisterActorReq, TypeOK
    <3> QED BY <1>1, <1>3, <2>3, <3>1 DEF About
  <2> QED BY <2>2, <2>3
<1>4. \/ actorOwner' = actorOwner /\ (m.op \in {"reg", "unreg"} => c \notin authed \/ (m.op = "reg" /\ m.actor \in Rejected))
      \/ m.op \in {"reg", "unreg"} /\ onRegisterActorReq(c, Head(toHub[c]))
  BY DEF ServerOnRaw
<1> QED BY <1>2, <1>3, <1>4 DEF About

LEMMA HubTakesWanted ==
    ASSUME TypeOK, SessionsInv, WantedInv, NEW c \in HubConnIds, ServerOnRaw(c)
    PROVE  WantedInv'
<1> DEFINE m == Head(toHub[c])
<1>1. /\ UNCHANGED <<hubConn, alive, isAuthed, appAt, ownedActors, resending, overlapped>>
      /\ overtaken' = IF m.op \in {"reg", "unreg"} /\ Spoken(c, m.actor) THEN overtaken \union {m.actor} ELSE overtaken
  BY DEF ServerOnRaw, actorNodeVars
<1>2. /\ toHub[c] \in Seq(UpMessages) /\ toHub[c] # <<>> /\ toHub'[c] = Tail(toHub[c])
      /\ \A d \in HubConnIds \ {c} : toHub'[d] = toHub[d]
  BY HubTakes
<1>3. /\ m = toHub[c][1] /\ 1 \in DOMAIN toHub[c]
      /\ \A i \in DOMAIN toHub'[c] : i + 1 \in DOMAIN toHub[c] /\ toHub'[c][i] = toHub[c][i + 1]
  BY <1>2, TakeFacts
<1>4. c \in Nat /\ hubConn \in Nat /\ c # NoOwner /\ c <= hubConn
  <2>1. c \in Nat /\ c # NoOwner /\ hubConn \in Nat
    BY DEF HubConnIds, NoOwner, TypeOK
  <2>2. ~(c > hubConn)
    BY <1>2 DEF SessionsInv
  <2> QED BY <2>1, <2>2
<1> HIDE DEF m
<1>5. NothingSaid'
  <2> SUFFICES ASSUME hubConn \in alive, ~isAuthed
               PROVE  /\ \A a \in Actors : actorOwner'[a] # hubConn
                      /\ \A i \in DOMAIN toHub'[hubConn] : Auth(toHub'[hubConn][i])
    BY <1>1 DEF NothingSaid, Auth
  <2>1. /\ \A a \in Actors : actorOwner[a] # hubConn
        /\ \A i \in DOMAIN toHub[hubConn] : Auth(toHub[hubConn][i])
    BY DEF WantedInv, NothingSaid
  <2>2. hubConn \in HubConnIds /\ hubConn # NoOwner
    BY AliveFacts DEF HubConnIds, NoOwner
  <2>3. CASE c = hubConn
    <3>1. Auth(m)
      BY <1>3, <2>1, <2>3
    <3>2. \A a \in Actors : ~About(m, a)
      BY <3>1 DEF Auth, About
    <3> QED BY <1>3, <2>1, <2>3, <3>2, OwnerStep DEF m
  <2>4. CASE c # hubConn
    BY <1>2, <2>1, <2>2, <2>4, OwnerStep
  <2> QED BY <2>3, <2>4
<1>6. ASSUME NEW a \in Good' PROVE WillKnow(a)'
  <2>1. a \in Good /\ WillKnow(a) /\ a \in Actors /\ a \notin Rejected /\ a \notin overtaken'
    BY <1>1, <1>6 DEF Good, WantedInv
  <2>2. Wanted(a)' <=> Wanted(a)
    BY <1>1 DEF Wanted, Telling
  <2>3. a \in resending' => Wanted(a)'
    BY <1>1, <2>1, <2>2 DEF WillKnow
  <2>4. ASSUME hubConn \in alive, isAuthed, a \notin resending
        PROVE  Settles(toHub'[hubConn], a, Owns(a)', Wanted(a)')
    <3>1. hubConn \in authed /\ hubConn \in HubConnIds
      BY <2>4, AliveFacts
    <3>2. Settles(toHub[hubConn], a, Owns(a), Wanted(a))
      BY <2>1, <2>4 DEF WillKnow
    <3>3. CASE c = hubConn
      <4>1. IF About(m, a) THEN Owns(a)' <=> m.op = "reg" ELSE Owns(a)' <=> Owns(a)
        BY <1>1, <2>1, <3>1, <3>3, OwnerStep DEF Owns, m
      <4>2. Settles(Tail(toHub[c]), a, Owns(a)', Wanted(a))
        <5>1. /\ Owns(a) \in BOOLEAN /\ Owns(a)' \in BOOLEAN /\ Wanted(a) \in BOOLEAN
              /\ IF About(Head(toHub[c]), a) THEN Owns(a)' <=> Head(toHub[c]).op = "reg" ELSE Owns(a)' <=> Owns(a)
          BY <4>1, WantedBoolean DEF m, Owns
        <5> QED BY <1>2, <3>2, <3>3, <5>1, SettlesTail
      <4> QED BY <1>2, <2>2, <3>3, <4>2 DEF Settles
    <3>4. CASE c # hubConn
      <4>1. ~About(m, a)
        <5>1. hubConn > c
          BY <1>4, <3>4
        <5>2. Spoken(c, a)
          BY <3>1, <5>1 DEF Spoken
        <5> QED BY <1>1, <2>1, <5>2 DEF About
      <4>2. Owns(a)' <=> Owns(a)
        BY <1>1, <2>1, <4>1, OwnerStep DEF Owns, m
      <4> QED BY <1>2, <2>2, <3>1, <3>2, <3>4, <4>2 DEF Settles
    <3> QED BY <3>3, <3>4
  <2> QED BY <1>1, <2>3, <2>4 DEF WillKnow
<1> QED BY <1>5, <1>6 DEF WantedInv

LEMMA ForgetWanted ==
    ASSUME TypeOK, SessionsInv, HubInv, WantedInv, NEW c \in HubConnIds, ServerOnClose(c)
    PROVE  WantedInv'
<1>1. /\ UNCHANGED <<hubConn, alive, isAuthed, appAt, ownedActors, resending, overlapped, overtaken>>
      /\ c \notin alive
      /\ \A d \in HubConnIds \ {c} : toHub'[d] = toHub[d]
      /\ \A a \in Actors : actorOwner'[a] \in {actorOwner[a], NoOwner} /\ (actorOwner'[a] # actorOwner[a] => actorOwner[a] = c)
  BY DEF ServerOnClose, actorNodeVars, TypeOK
<1>2. CASE hubConn \in alive
  <2>1. hubConn \in HubConnIds /\ hubConn # c /\ hubConn # NoOwner /\ toHub'[hubConn] = toHub[hubConn]
    BY <1>1, <1>2, AliveFacts DEF HubConnIds, NoOwner
  <2>2. \A a \in Actors : Owns(a)' <=> Owns(a)
    BY <1>1, <2>1 DEF Owns
  <2>3. \A a \in Actors : Wanted(a)' <=> Wanted(a)
    BY <1>1 DEF Wanted, Telling
  <2>4. Good' = Good /\ Good \subseteq Actors
    BY <1>1 DEF Good
  <2>5. NothingSaid'
    BY <1>1, <2>1, <2>2 DEF WantedInv, NothingSaid, Owns, Auth
  <2>6. ASSUME NEW a \in Good PROVE WillKnow(a)'
    BY <1>1, <2>1, <2>2, <2>3, <2>4 DEF WantedInv, WillKnow, Settles, About
  <2> QED BY <2>4, <2>5, <2>6 DEF WantedInv
<1>3. CASE hubConn \notin alive
  BY <1>1, <1>3 DEF WantedInv, NothingSaid, WillKnow, Good, Wanted, Telling
<1> QED BY <1>2, <1>3

LEMMA NextWanted ==
    ASSUME TypeOK, SessionsInv, SessionsInv', HubInv, NumbersInv, WantedInv, HubNext
    PROVE  WantedInv'
BY ConnectWanted, BreaksWanted, CloseWanted, ReqSendWanted, ResendWanted, CallWanted, NodeTakesWanted,
   RetryWanted, HubTakesWanted, ForgetWanted DEF HubNext

---------------------------------------------------------------------------
\* The invariant is inductive, for any constants.
THEOREM HubInductive == HubSpec => []HubIndInv
<1>1. HubInit => HubIndInv
  BY InitType, InitSessions, InitHub, InitNumbers, InitWanted DEF HubIndInv
<1>2. HubIndInv /\ [HubNext]_hubAll => HubIndInv'
  <2> SUFFICES ASSUME HubIndInv, [HubNext]_hubAll PROVE HubIndInv'
    OBVIOUS
  <2> USE DEF HubIndInv
  <2>1. CASE HubNext
    BY <2>1, NextType, NextSessions, NextHub, NextNumbers, NextWanted
  <2>2. CASE UNCHANGED hubAll
    <3> USE <2>2 DEF hubAll, actorNodeVars, hubVars
    <3>1. TypeOK' /\ HubInv'
      BY DEF TypeOK, HubInv
    <3>2. SessionsInv'
      BY DEF SessionsInv, OnlyAuth, NoAuth
    <3>3. NumbersInv'
      BY DEF NumbersInv, Used, Asked, Auth, Answered, Remembered, Calling
    <3>4. WantedInv'
      BY DEF WantedInv, NothingSaid, WillKnow, Good, Wanted, Telling, Settles, About, Owns, Auth
    <3> QED BY <3>1, <3>2, <3>3, <3>4
  <2> QED BY <2>1, <2>2
<1> QED BY <1>1, <1>2, PTL DEF HubSpec

\* The directory agrees with the owners and the registrations of connections whose close the
\* hub has not run; and when the node is connected and nothing is under way, it holds the
\* actors the node has registered and not unregistered, whichever connections were lost before,
\* but for those a call or an old connection raced with, and those the hub refuses.
THEOREM HubKnowsActorsHolds == HubSpec => []HubKnowsActors
<1>1. HubIndInv => HubKnowsActors
  <2> SUFFICES ASSUME HubIndInv PROVE HubKnowsActors
    OBVIOUS
  <2> USE DEF HubIndInv
  <2>1. \A a \in Actors : /\ a \in directory <=> actorOwner[a] # NoOwner
                          /\ \A c \in HubConnIds : a \in connRegs[c] <=> actorOwner[a] = c
    BY DEF HubInv
  <2>2. ASSUME NEW c \in forgotten PROVE connRegs[c] = {} /\ c \notin authed
    <3>1. c \in HubConnIds /\ c \notin authed /\ c # NoOwner
      BY DEF TypeOK, HubInv, HubConnIds, NoOwner
    <3>2. \A a \in Actors : a \notin connRegs[c]
      BY <2>1, <3>1 DEF HubInv
    <3>3. connRegs[c] \subseteq Actors
      BY <3>1 DEF TypeOK
    <3> QED BY <3>1, <3>2, <3>3
  <2>3. ASSUME HubQuiet, NEW a \in Actors \ (overlapped \union overtaken \union Rejected)
        PROVE  a \in directory <=> a \in ownedActors
    <3>1. /\ hubConn \in alive /\ isAuthed /\ resending = {} /\ hubConn \in HubConnIds
          /\ toHub[hubConn] = <<>> /\ appAt[a].at = "idle"
      BY <2>3, AliveFacts DEF HubQuiet
    <3>2. WillKnow(a)
      BY <2>3 DEF WantedInv, Good
    <3>3. Owns(a) <=> Wanted(a)
      <4>1. Settles(<<>>, a, Owns(a), Wanted(a))
        BY <3>1, <3>2 DEF WillKnow
      <4> QED BY <4>1 DEF Settles
    <3>4. Wanted(a) <=> a \in ownedActors
      BY <3>1 DEF Wanted, Telling
    <3>5. actorOwner[a] \in {hubConn, NoOwner}
      <4>1. actorOwner[a] \in authed \union {NoOwner} /\ authed \subseteq HubConnIds /\ authed \cap forgotten = {}
        BY DEF HubInv, TypeOK
      <4>2. \A c \in authed : ~(c > hubConn) /\ ~(c < hubConn)
        BY <2>3, <4>1 DEF SessionsInv, HubQuiet
      <4>3. \A c \in authed : c = hubConn
        BY <4>1, <4>2 DEF HubConnIds, TypeOK
      <4> QED BY <4>1, <4>3
    <3>6. hubConn # NoOwner
      BY <3>1 DEF HubConnIds, NoOwner
    <3> QED BY <2>1, <3>3, <3>4, <3>5, <3>6 DEF Owns
  <2> QED BY <2>1, <2>2, <2>3 DEF HubKnowsActors
<1> QED BY <1>1, HubInductive, PTL

---------------------------------------------------------------------------
(* Sessions.  LinksOK is what a run of GateSessions may be given: sessions *)
(* and connections that can be counted, "none" values that are not         *)
(* members, a gate for each session, and the three kinds of transport.     *)

LinksOK ==
    /\ IsFiniteSet(Sids) /\ NoSid \notin Sids /\ Hook \notin Sids
    /\ Chans \subseteq Nat \ {0} /\ IsFiniteSet(Chans) /\ 1 \in Chans
    /\ Objs \subseteq Nat \ {0}
    /\ Home \in [Sids -> Chans] /\ LinkKinds \subseteq {"rpc", "shard", "nats"}

-----------------------------------------------------------------------------
\* Types

Upward == [t : {"reg", "s2c", "login", "close"}, to : SUBSET Sids, n : Nat]
Downward == [t : {"c2s", "gone"}, s : Sids]

DownTypes == downLink \in [Chans -> Seq(Downward)]
UpTypes ==
    /\ upLink \in [Chans -> Seq(Upward)]
    /\ \A c \in Chans : \A i \in DOMAIN upLink[c] : upLink[c][i].t = "close" => upLink[c][i].to # {}
ChanTypes == linkKind \in LinkKinds /\ latest \in Chans /\ registered \in Chans \cup {NoChan}
GateTypes ==
    /\ conns \in [Sids -> {"none", "open", "told", "gone"}]
    /\ boundTo \subseteq Sids /\ notes \subseteq Sids
    /\ forwarding \in [Sids -> [at : {"no", "conn", "send"}, c : Chans \cup {NoChan}]]
    /\ \A s \in Sids : forwarding[s].at # "no" => forwarding[s].c \in Chans
NodeTypes ==
    /\ sessionOf \in [Sids -> Objs \cup {NoObj}] /\ owner \in [Objs -> Sids \cup {NoSid}]
    /\ online \in Int
    /\ gpc \in [Chans -> [at : {"no", "add", "store", "use"}, s : Sids \cup {NoSid}, o : Objs \cup {NoObj}]]
    /\ \A c \in Chans : /\ gpc[c].at # "no" => gpc[c].s \in Sids
                        /\ gpc[c].at \in {"store", "use"} => gpc[c].o \in Objs
HistTypes ==
    /\ calls \in Nat /\ doubled \in Nat
    /\ sentTo \subseteq Nat \X (Sids \cup {Hook})
    /\ untold \subseteq Sids /\ overlap \subseteq Sids /\ misled \subseteq Sids
LinkTypes == DownTypes /\ UpTypes /\ ChanTypes /\ GateTypes /\ NodeTypes /\ HistTypes

-----------------------------------------------------------------------------
\* The invariant

Busy(c, s) == gpc[c].at # "no" /\ gpc[c].s = s
Adds(c) == gpc[c].at \in {"add", "store"}
Stores(c) == gpc[c].at = "store"

\* Two handlers are at one session only if their channels crossed.
Alone ==
    /\ \A c, d \in Chans, s \in Sids : c # d /\ Busy(c, s) /\ Busy(d, s) => s \in overlap
    /\ \A c \in Chans : Adds(c) /\ sessionOf[gpc[c].s] # NoObj => gpc[c].s \in overlap

\* An object belongs to the session it is stored at, or about to be, and to no other.
Owned ==
    /\ \A s \in Sids : sessionOf[s] # NoObj => owner[sessionOf[s]] = s
    /\ \A c \in Chans : Stores(c) =>
         /\ owner[gpc[c].o] = gpc[c].s
         /\ \A s \in Sids : sessionOf[s] # gpc[c].o
         /\ \A d \in Chans \ {c} : Stores(d) => gpc[d].o # gpc[c].o
    /\ \A c \in Chans : gpc[c].at = "use" =>
         gpc[c].s \in overlap \/ owner[gpc[c].o] = gpc[c].s

\* The logic node has, or is about to have, something of a session.
News(c, s) == \E i \in DOMAIN downLink[c] : downLink[c][i].t = "c2s" /\ downLink[c][i].s = s
Present(s) == sessionOf[s] # NoObj \/ \E c \in Chans : Busy(c, s) \/ News(c, s)

\* The news that the client is gone, behind which nothing of it comes.
LastWord(c, i, s) ==
    /\ downLink[c][i].t = "gone" /\ downLink[c][i].s = s
    /\ \A j \in DOMAIN downLink[c] : j > i => ~(downLink[c][j].t = "c2s" /\ downLink[c][j].s = s)
TellsLast(c, s) == \E i \in DOMAIN downLink[c] : LastWord(c, i, s)

\* A client that is gone and known is one whose news is on the way.
IsGone(s) == conns[s] \in {"told", "gone"}
Told(s) ==
    Present(s) /\ IsGone(s) /\ s \notin untold \cup overlap =>
        s \in notes \/ \E c \in Chans : TellsLast(c, s)
ToldInv ==
    /\ \A s \in Sids : Present(s) \/ forwarding[s].at # "no" => s \in boundTo
    /\ \A s \in Sids : Told(s)

\* What a client was sent and has not is in a message that waits.
Carries(m, o) ==
    m.n = o[1] /\ ((m.t = "s2c" /\ o[2] \in m.to) \/ (m.t = "login" /\ o[2] = Hook))
OnWay(c, o) == \E i \in DOMAIN upLink[c] : Carries(upLink[c][i], o)
InSight(o) ==
    \/ o \in gotTo
    \/ o[2] \in Sids /\ IsGone(o[2])
    \/ \E c \in Chans : OnWay(c, o)
SentInv ==
    \A o \in sentTo : (o[2] \in Sids => conns[o[2]] # "none") /\ InSight(o)

LinkInv ==
    LinkTypes /\ Alone /\ Owned /\ CountsSessions /\ ToldInv /\ SentInv


-----------------------------------------------------------------------------
\* Sequences

LEMMA TailFacts ==
    ASSUME NEW M, NEW q \in Seq(M), q # <<>>
    PROVE  /\ Len(q) \in Nat \ {0} /\ Tail(q) \in Seq(M) /\ Head(q) = q[1] /\ Head(q) \in M
           /\ DOMAIN q = 1..Len(q) /\ DOMAIN Tail(q) = 1..(Len(q) - 1)
           /\ \A i \in 1..(Len(q) - 1) : Tail(q)[i] = q[i + 1]
<1>1. /\ Len(q) \in Nat \ {0} /\ Tail(q) \in Seq(M) /\ Head(q) = q[1] /\ Head(q) \in M
      /\ Len(Tail(q)) = Len(q) - 1 /\ \A i \in 1..Len(Tail(q)) : Tail(q)[i] = q[i + 1]
  BY HeadTailProperties, LenProperties, EmptySeq
<1> QED BY <1>1, LenProperties

LEMMA PutFacts ==
    ASSUME NEW M, NEW q \in Seq(M), NEW m \in M
    PROVE  /\ Len(q) \in Nat /\ Append(q, m) \in Seq(M)
           /\ DOMAIN q = 1..Len(q) /\ DOMAIN Append(q, m) = 1..(Len(q) + 1)
           /\ \A i \in 1..Len(q) : Append(q, m)[i] = q[i]
           /\ Append(q, m)[Len(q) + 1] = m
BY AppendProperties, LenProperties

LEMMA PrefixFacts ==
    ASSUME NEW M, NEW q \in Seq(M), NEW p \in Prefixes(q)
    PROVE  /\ p \in Seq(M) /\ Len(p) \in Nat /\ Len(q) \in Nat /\ Len(p) <= Len(q)
           /\ DOMAIN p = 1..Len(p) /\ DOMAIN q = 1..Len(q)
           /\ \A i \in 1..Len(p) : p[i] = q[i]
<1>1. PICK l \in 0..Len(q) : p = SubSeq(q, 1, l)
  BY DEF Prefixes
<1>2. Len(q) \in Nat /\ DOMAIN q = 1..Len(q) /\ \A i \in 1..Len(q) : q[i] \in M
  BY LenProperties, ElementOfSeq
<1>3. \A i \in 1..l : q[i] \in M
  BY <1>1, <1>2
<1>4. SubSeq(q, 1, l) \in Seq(M) /\ Len(SubSeq(q, 1, l)) = l /\ \A i \in 1..l : SubSeq(q, 1, l)[i] = q[i]
  BY <1>2, <1>3, SubSeqProperties
<1> QED BY <1>1, <1>2, <1>4, LenProperties

\* Every element of a finite set is in the sequence made of it.
LEMMA SequenceHasAll ==
    ASSUME NEW M, IsFiniteSet(M)
    PROVE  SetToSeq(M) \in Seq(M) /\ \A m \in M : \E i \in DOMAIN SetToSeq(M) : SetToSeq(M)[i] = m
<1>1. Cardinality(M) \in Nat /\ ExistsBijection(1..Cardinality(M), M)
  BY FS_CardinalityType
<1>2. \E f \in [1..Cardinality(M) -> M] : IsInjective(f)
  BY <1>1 DEF ExistsBijection, Bijection, Injection
<1>3. SetToSeq(M) \in [1..Cardinality(M) -> M] /\ IsInjective(SetToSeq(M))
  BY <1>2 DEF SetToSeq
<1>4. SetToSeq(M) \in Injection(1..Cardinality(M), M)
  BY <1>3 DEF Injection
<1>5. Cardinality(1..Cardinality(M)) = Cardinality(M)
  BY <1>1, FS_Interval
<1>6. SetToSeq(M) \in Surjection(1..Cardinality(M), M)
  BY <1>4, <1>5, FS_Injection
<1>7. SetToSeq(M) \in Seq(M)
  BY <1>1, <1>3, IsASeq
<1> QED BY <1>3, <1>6, <1>7 DEF Surjection

-----------------------------------------------------------------------------
\* What a step does to the messages on their way to the logic node

LEMMA WaySame ==
    ASSUME NEW c, NEW s, downLink'[c] = downLink[c]
    PROVE  (News(c, s)' <=> News(c, s)) /\ (TellsLast(c, s)' <=> TellsLast(c, s))
BY DEF News, TellsLast, LastWord

LEMMA WayAppends ==
    ASSUME DownTypes, NEW c \in Chans, NEW m \in Downward, downLink' = Put(downLink, c, m)
    PROVE  /\ downLink' \in [Chans -> Seq(Downward)]
           /\ \A d \in Chans, s \in Sids : News(d, s)' => News(d, s) \/ (m.t = "c2s" /\ m.s = s)
           /\ \A d \in Chans, s \in Sids :
                TellsLast(d, s) /\ ~(m.t = "c2s" /\ m.s = s) => TellsLast(d, s)'
           /\ m.t = "gone" => TellsLast(c, m.s)'
<1>1. downLink \in [Chans -> Seq(Downward)]
  BY DEF DownTypes
<1>2. downLink' = [downLink EXCEPT ![c] = Append(@, m)]
  BY DEF Put
<1> DEFINE q == downLink[c]
<1>3. /\ Len(q) \in Nat /\ Append(q, m) \in Seq(Downward)
      /\ DOMAIN q = 1..Len(q) /\ DOMAIN Append(q, m) = 1..(Len(q) + 1)
      /\ \A i \in 1..Len(q) : Append(q, m)[i] = q[i]
      /\ Append(q, m)[Len(q) + 1] = m
  BY <1>1, PutFacts
<1>4. downLink'[c] = Append(q, m) /\ downLink' \in [Chans -> Seq(Downward)] /\ \A d \in Chans : d # c => downLink'[d] = downLink[d]
  BY <1>1, <1>2, <1>3
<1>5. ASSUME NEW s \in Sids PROVE News(c, s)' => News(c, s) \/ (m.t = "c2s" /\ m.s = s)
  BY <1>3, <1>4 DEF News
<1>6. ASSUME NEW s \in Sids, TellsLast(c, s), ~(m.t = "c2s" /\ m.s = s) PROVE TellsLast(c, s)'
  <2>1. PICK i \in DOMAIN downLink[c] : LastWord(c, i, s)
    BY <1>6 DEF TellsLast
  <2>2. LastWord(c, i, s)'
    BY <1>3, <1>4, <1>6, <2>1 DEF LastWord
  <2> QED BY <1>3, <1>4, <2>1, <2>2 DEF TellsLast
<1>7. ASSUME m.t = "gone" PROVE TellsLast(c, m.s)'
  <2>1. PICK n \in DOMAIN downLink'[c] : n = Len(q) + 1
    BY <1>3, <1>4
  <2>2. downLink'[c][n] = m /\ \A j \in DOMAIN downLink'[c] : ~(j > n)
    BY <1>3, <1>4, <2>1
  <2>3. LastWord(c, n, m.s)'
    BY <1>7, <2>2 DEF LastWord
  <2> QED BY <2>1, <2>3 DEF TellsLast
<1> QED BY <1>4, <1>5, <1>6, <1>7, WaySame

LEMMA WayTakes ==
    ASSUME DownTypes, NEW c \in Chans, downLink[c] # <<>>, downLink' = [downLink EXCEPT ![c] = Tail(@)]
    PROVE  /\ downLink' \in [Chans -> Seq(Downward)] /\ Head(downLink[c]) \in Downward
           /\ \A d \in Chans, s \in Sids : News(d, s)' => News(d, s)
           /\ \A d \in Chans, s \in Sids :
                TellsLast(d, s) /\ ~(d = c /\ Head(downLink[c]).t = "gone" /\ Head(downLink[c]).s = s) => TellsLast(d, s)'
           /\ \A s \in Sids : TellsLast(c, s) /\ Head(downLink[c]).s = s /\ Head(downLink[c]).t = "gone" =>
                TellsLast(c, s)' \/ ~News(c, s)'
           /\ \A s \in Sids : Head(downLink[c]).s = s /\ Head(downLink[c]).t = "c2s" => News(c, s)
<1>1. downLink \in [Chans -> Seq(Downward)]
  BY DEF DownTypes
<1> DEFINE q == downLink[c]
<1>3. /\ Len(q) \in Nat \ {0} /\ Tail(q) \in Seq(Downward) /\ Head(q) = q[1] /\ Head(q) \in Downward
      /\ DOMAIN q = 1..Len(q) /\ DOMAIN Tail(q) = 1..(Len(q) - 1)
      /\ \A i \in 1..(Len(q) - 1) : Tail(q)[i] = q[i + 1]
  BY <1>1, TailFacts
<1>4. downLink'[c] = Tail(q) /\ downLink' \in [Chans -> Seq(Downward)] /\ \A d \in Chans : d # c => downLink'[d] = downLink[d]
  BY <1>1, <1>3
<1>5. ASSUME NEW s \in Sids PROVE News(c, s)' => News(c, s)
  <2>1. \A i \in DOMAIN Tail(q) : i + 1 \in DOMAIN q
    BY <1>3
  <2> QED BY <1>3, <1>4, <2>1 DEF News
<1>6. ASSUME NEW s \in Sids, NEW i \in DOMAIN downLink[c], LastWord(c, i, s), i # 1 PROVE TellsLast(c, s)'
  <2>1. i \in Nat /\ i - 1 \in 1..(Len(q) - 1) /\ (i - 1) + 1 = i
    BY <1>3, <1>6
  <2>2. downLink'[c][i - 1] = downLink[c][i]
    BY <1>3, <1>4, <2>1
  <2>3. ASSUME NEW j \in DOMAIN downLink'[c], j > i - 1 PROVE ~(downLink'[c][j].t = "c2s" /\ downLink'[c][j].s = s)
    <3>1. j \in 1..(Len(q) - 1) /\ j + 1 \in DOMAIN q /\ j + 1 > i /\ downLink'[c][j] = q[j + 1]
      BY <1>3, <1>4, <2>1, <2>3
    <3> QED BY <1>6, <3>1 DEF LastWord
  <2>4. LastWord(c, i - 1, s)'
    BY <1>6, <2>2, <2>3 DEF LastWord
  <2> QED BY <1>3, <1>4, <2>1, <2>4 DEF TellsLast
<1>7. ASSUME NEW s \in Sids, LastWord(c, 1, s) PROVE ~News(c, s)' /\ Head(q).t = "gone" /\ Head(q).s = s
  <2>1. \A i \in DOMAIN Tail(q) : i + 1 \in DOMAIN q /\ i + 1 > 1
    BY <1>3
  <2> QED BY <1>3, <1>4, <1>7, <2>1 DEF News, LastWord
<1>8. \A s \in Sids : Head(q).s = s /\ Head(q).t = "c2s" => News(c, s)
  BY <1>3 DEF News
<1> HIDE DEF q
<1>9. \A s \in Sids : TellsLast(c, s) => TellsLast(c, s)' \/ (~News(c, s)' /\ Head(q).t = "gone" /\ Head(q).s = s)
  BY <1>6, <1>7 DEF TellsLast
<1> QED BY <1>3, <1>4, <1>5, <1>8, <1>9, WaySame DEF q

LEMMA WayBreaks ==
    ASSUME DownTypes, NEW c \in Chans, NEW pd \in Prefixes(downLink[c]), downLink' = [downLink EXCEPT ![c] = pd]
    PROVE  /\ downLink' \in [Chans -> Seq(Downward)] /\ MissedDown(downLink[c], pd) \subseteq Sids
           /\ \A d \in Chans, s \in Sids : News(d, s)' => News(d, s)
           /\ \A d \in Chans, s \in Sids :
                TellsLast(d, s) => TellsLast(d, s)' \/ s \in MissedDown(downLink[c], pd)
<1>1. downLink \in [Chans -> Seq(Downward)]
  BY DEF DownTypes
<1> DEFINE q == downLink[c]
<1>3. /\ pd \in Seq(Downward) /\ Len(pd) \in Nat /\ Len(q) \in Nat /\ Len(pd) <= Len(q)
      /\ DOMAIN pd = 1..Len(pd) /\ DOMAIN q = 1..Len(q)
      /\ \A i \in 1..Len(pd) : pd[i] = q[i]
  BY <1>1, PrefixFacts
<1>4. downLink'[c] = pd /\ downLink' \in [Chans -> Seq(Downward)] /\ \A d \in Chans : d # c => downLink'[d] = downLink[d]
  BY <1>1, <1>3
<1>5. ASSUME NEW s \in Sids PROVE News(c, s)' => News(c, s)
  BY <1>3, <1>4 DEF News
<1>6. ASSUME NEW s \in Sids, TellsLast(c, s) PROVE TellsLast(c, s)' \/ s \in MissedDown(q, pd)
  <2>1. PICK i \in DOMAIN downLink[c] : LastWord(c, i, s)
    BY <1>6 DEF TellsLast
  <2>2. CASE i <= Len(pd)
    <3>1. LastWord(c, i, s)' /\ i \in DOMAIN downLink'[c]
      BY <1>3, <1>4, <2>1, <2>2 DEF LastWord
    <3> QED BY <3>1 DEF TellsLast
  <2>3. CASE i > Len(pd)
    <3>1. i \in (Len(pd) + 1)..Len(q) /\ q[i].t = "gone" /\ q[i].s = s
      BY <1>3, <2>1, <2>3 DEF LastWord
    <3> QED BY <3>1 DEF MissedDown
  <2> QED BY <1>3, <2>1, <2>2, <2>3
<1>7. MissedDown(q, pd) \subseteq Sids
  <2>1. \A i \in DOMAIN q : q[i] \in Downward
    BY <1>1, ElementOfSeq, <1>3
  <2>2. \A i \in (Len(pd) + 1)..Len(q) : i \in DOMAIN q
    BY <1>3
  <2> QED BY <2>1, <2>2 DEF MissedDown, Downward
<1> QED BY <1>4, <1>5, <1>6, <1>7, WaySame


-----------------------------------------------------------------------------
\* What a step does to the messages on their way to the gate

LEMMA UpSame ==
    ASSUME NEW c, NEW o, upLink'[c] = upLink[c]
    PROVE  OnWay(c, o)' <=> OnWay(c, o)
BY DEF OnWay, Carries

LEMMA UpOther ==
    ASSUME UpTypes, NEW c \in Chans, NEW q \in Seq(Upward), upLink' = [upLink EXCEPT ![c] = q],
           \A i \in DOMAIN q : q[i].t = "close" => q[i].to # {}
    PROVE  UpTypes' /\ upLink'[c] = q /\ \A d \in Chans \ {c} : upLink'[d] = upLink[d]
<1>1. upLink' \in [Chans -> Seq(Upward)] /\ upLink'[c] = q /\ \A d \in Chans \ {c} : upLink'[d] = upLink[d]
  BY DEF UpTypes
<1>2. ASSUME NEW d \in Chans, NEW i \in DOMAIN upLink'[d] PROVE upLink'[d][i].t = "close" => upLink'[d][i].to # {}
  <2>1. CASE d = c
    BY <1>1, <1>2, <2>1
  <2>2. CASE d # c
    BY <1>1, <1>2, <2>2 DEF UpTypes
  <2> QED BY <2>1, <2>2
<1> QED BY <1>1, <1>2 DEF UpTypes

LEMMA UpAppends ==
    ASSUME UpTypes, NEW c \in Chans, NEW m \in Upward, m.t = "close" => m.to # {}, upLink' = Put(upLink, c, m)
    PROVE  /\ UpTypes'
           /\ \A d \in Chans : \A o : OnWay(d, o) => OnWay(d, o)'
           /\ \A o : Carries(m, o) => OnWay(c, o)'
<1> DEFINE q == upLink[c]
<1>1. q \in Seq(Upward)
  BY DEF UpTypes
<1>2. /\ Len(q) \in Nat /\ Append(q, m) \in Seq(Upward)
      /\ DOMAIN q = 1..Len(q) /\ DOMAIN Append(q, m) = 1..(Len(q) + 1)
      /\ \A i \in 1..Len(q) : Append(q, m)[i] = q[i]
      /\ Append(q, m)[Len(q) + 1] = m
  BY <1>1, PutFacts
<1>3. upLink' = [upLink EXCEPT ![c] = Append(q, m)]
  BY DEF Put
<1>4. \A i \in DOMAIN Append(q, m) : Append(q, m)[i].t = "close" => Append(q, m)[i].to # {}
  <2> TAKE i \in DOMAIN Append(q, m)
  <2>1. CASE i \in 1..Len(q)
    BY <1>2, <2>1 DEF UpTypes
  <2>2. CASE i = Len(q) + 1
    BY <1>2, <2>2
  <2> QED BY <1>2, <2>1, <2>2
<1>5. UpTypes' /\ upLink'[c] = Append(q, m) /\ \A d \in Chans \ {c} : upLink'[d] = upLink[d]
  BY <1>2, <1>3, <1>4, UpOther
<1>6. \A o : OnWay(c, o) => OnWay(c, o)'
  BY <1>2, <1>5 DEF OnWay, Carries
<1>7. \A o : Carries(m, o) => OnWay(c, o)'
  <2>0. Len(q) + 1 \in DOMAIN upLink'[c]
    BY <1>2, <1>5
  <2>1. PICK n \in DOMAIN upLink'[c] : n = Len(q) + 1
    BY <2>0
  <2>2. upLink'[c][n] = m
    BY <1>2, <1>5, <2>1
  <2> QED BY <2>1, <2>2 DEF OnWay, Carries
<1> QED BY <1>5, <1>6, <1>7, UpSame

LEMMA UpTakes ==
    ASSUME UpTypes, NEW c \in Chans, LinkHandled(c)
    PROVE  /\ UpTypes' /\ Head(upLink[c]) \in Upward
           /\ Head(upLink[c]).t = "close" => Head(upLink[c]).to # {}
           /\ \A d \in Chans : \A o : OnWay(d, o) => OnWay(d, o)' \/ Carries(Head(upLink[c]), o)
<1> DEFINE q == upLink[c]
<1>1. q \in Seq(Upward) /\ q # <<>> /\ upLink' = [upLink EXCEPT ![c] = Tail(q)]
  BY DEF UpTypes, LinkHandled
<1>2. /\ Len(q) \in Nat \ {0} /\ Tail(q) \in Seq(Upward) /\ Head(q) = q[1] /\ Head(q) \in Upward
      /\ DOMAIN q = 1..Len(q) /\ DOMAIN Tail(q) = 1..(Len(q) - 1)
      /\ \A i \in 1..(Len(q) - 1) : Tail(q)[i] = q[i + 1]
  BY <1>1, TailFacts
<1>3. 1 \in DOMAIN q /\ \A i \in DOMAIN Tail(q) : i + 1 \in DOMAIN q
  BY <1>2
<1>4. \A i \in DOMAIN Tail(q) : Tail(q)[i].t = "close" => Tail(q)[i].to # {}
  BY <1>2, <1>3 DEF UpTypes
<1>5. UpTypes' /\ upLink'[c] = Tail(q) /\ \A d \in Chans \ {c} : upLink'[d] = upLink[d]
  BY <1>1, <1>2, <1>4, UpOther
<1>6. ASSUME NEW o, OnWay(c, o) PROVE OnWay(c, o)' \/ Carries(Head(q), o)
  <2>1. PICK i \in DOMAIN q : Carries(q[i], o)
    BY <1>6 DEF OnWay
  <2>2. CASE i = 1
    BY <1>2, <2>1, <2>2
  <2>3. CASE i # 1
    <3>1. i - 1 \in DOMAIN upLink'[c] /\ upLink'[c][i - 1] = q[i]
      BY <1>2, <1>5, <2>3
    <3>2. PICK j \in DOMAIN upLink'[c] : upLink'[c][j] = q[i]
      BY <3>1
    <3>3. Carries(upLink[c][i], o)
      BY <2>1
    <3>4. Carries(upLink'[c][j], o)
      BY <3>2, <3>3
    <3> QED BY <3>2, <3>4 DEF OnWay, Carries
  <2> QED BY <2>2, <2>3
<1>7. Head(q).t = "close" => Head(q).to # {}
  BY <1>2, <1>3 DEF UpTypes
<1> QED BY <1>2, <1>5, <1>6, <1>7, UpSame

LEMMA UpBreaks ==
    ASSUME UpTypes, NEW c \in Chans, NEW pu \in Prefixes(upLink[c]), upLink' = [upLink EXCEPT ![c] = pu]
    PROVE  /\ UpTypes'
           /\ \A d \in Chans, o \in Nat \X (Sids \cup {Hook}) :
                OnWay(d, o) => OnWay(d, o)' \/ o \in MissedUp(upLink[c], pu)
<1> DEFINE q == upLink[c]
<1>1. q \in Seq(Upward)
  BY DEF UpTypes
<1>2. /\ pu \in Seq(Upward) /\ Len(pu) \in Nat /\ Len(q) \in Nat /\ Len(pu) <= Len(q)
      /\ DOMAIN pu = 1..Len(pu) /\ DOMAIN q = 1..Len(q)
      /\ \A i \in 1..Len(pu) : pu[i] = q[i]
  BY <1>1, PrefixFacts
<1>3. \A i \in DOMAIN pu : i \in DOMAIN q
  BY <1>2
<1>4. \A i \in DOMAIN pu : pu[i].t = "close" => pu[i].to # {}
  BY <1>2, <1>3 DEF UpTypes
<1>5. UpTypes' /\ upLink'[c] = pu /\ \A d \in Chans \ {c} : upLink'[d] = upLink[d]
  BY <1>2, <1>4, UpOther
<1>6. ASSUME NEW o \in Nat \X (Sids \cup {Hook}), OnWay(c, o)
      PROVE  OnWay(c, o)' \/ o \in MissedUp(upLink[c], pu)
  <2>1. PICK i \in DOMAIN q : Carries(q[i], o)
    BY <1>6 DEF OnWay
  <2>2. CASE i <= Len(pu)
    <3>1. i \in DOMAIN upLink'[c] /\ upLink'[c][i] = upLink[c][i]
      BY <1>2, <1>5, <2>2
    <3>2. Carries(upLink'[c][i], o)
      BY <3>1, <2>1
    <3> QED BY <3>1, <3>2 DEF OnWay, Carries
  <2>3. CASE i > Len(pu)
    <3>1. i \in (Len(pu) + 1)..Len(q)
      BY <1>2, <2>3
    <3>2. o = <<q[i].n, o[2]>> /\ o[2] \in q[i].to \cup {Hook}
      BY <2>1 DEF Carries
    <3>3. o \in {<<q[i].n, s>> : s \in q[i].to \cup {Hook}}
      BY <3>2
    <3> QED BY <3>1, <3>3 DEF MissedUp
  <2> QED BY <1>2, <2>2, <2>3
<1> QED BY <1>5, <1>6, UpSame


Joined(q, r) == q \o r

LEMMA ConcatFacts ==
    ASSUME NEW M, NEW q \in Seq(M), NEW r \in Seq(M)
    PROVE  /\ Joined(q, r) \in Seq(M)
           /\ \A i \in DOMAIN q : i \in DOMAIN Joined(q, r) /\ Joined(q, r)[i] = q[i]
           /\ \A i \in DOMAIN r : \E j \in DOMAIN Joined(q, r) : Joined(q, r)[j] = r[i]
           /\ \A j \in DOMAIN Joined(q, r) :
                \/ \E i \in DOMAIN q : Joined(q, r)[j] = q[i]
                \/ \E i \in DOMAIN r : Joined(q, r)[j] = r[i]
<1> DEFINE x == q \o r
<1>1. /\ x \in Seq(M) /\ Len(x) = Len(q) + Len(r) /\ Len(q) \in Nat /\ Len(r) \in Nat
      /\ DOMAIN q = 1..Len(q) /\ DOMAIN r = 1..Len(r)
      /\ \A i \in 1..Len(q) + Len(r) : x[i] = IF i <= Len(q) THEN q[i] ELSE r[i - Len(q)]
  BY ConcatProperties, LenProperties
<1>2. DOMAIN x = 1..(Len(q) + Len(r))
  BY <1>1, LenProperties
<1> HIDE DEF x
<1>3. \A i \in DOMAIN q : i \in DOMAIN x /\ x[i] = q[i]
  BY <1>1, <1>2
<1>4. ASSUME NEW i \in DOMAIN r PROVE \E j \in DOMAIN x : x[j] = r[i]
  <2>1. i + Len(q) \in DOMAIN x /\ ~(i + Len(q) <= Len(q)) /\ (i + Len(q)) - Len(q) = i
    BY <1>1, <1>2
  <2>2. x[i + Len(q)] = r[i]
    BY <1>1, <1>2, <2>1
  <2> QED BY <2>1, <2>2
<1>5. ASSUME NEW j \in DOMAIN x
      PROVE  (\E i \in DOMAIN q : x[j] = q[i]) \/ (\E i \in DOMAIN r : x[j] = r[i])
  <2>1. CASE j <= Len(q)
    <3>1. j \in DOMAIN q
      BY <1>1, <1>2, <2>1
    <3> QED BY <1>3, <3>1
  <2>2. CASE j > Len(q)
    <3>1. j - Len(q) \in DOMAIN r /\ x[j] = r[j - Len(q)]
      BY <1>1, <1>2, <2>2
    <3> QED BY <3>1
  <2> QED BY <1>1, <1>2, <2>1, <2>2
<1>6. x = Joined(q, r)
  BY DEF x, Joined
<1> QED BY <1>1, <1>3, <1>4, <1>5, <1>6

\* Messages a call of the logic node sends: each to a channel, for some sessions.
Batches == Chans \X SUBSET Sids
Written(msgs, n, c) == {[t |-> "s2c", to |-> m[2], n |-> n] : m \in {p \in msgs : p[1] = c}}

LEMMA BatchesFinite ==
    ASSUME LinksOK
    PROVE  IsFiniteSet(Batches) /\ \A B \in SUBSET Batches : IsFiniteSet(B)
<1>1. IsFiniteSet(Chans) /\ IsFiniteSet(SUBSET Sids)
  BY FS_SUBSET DEF LinksOK
<1>2. IsFiniteSet(Chans \X SUBSET Sids)
  BY <1>1, FS_Product
<1> QED BY <1>2, FS_Subset DEF Batches

LEMMA WrittenFinite ==
    ASSUME LinksOK, NEW msgs \in SUBSET Batches, NEW n \in Nat, NEW c \in Chans
    PROVE  /\ IsFiniteSet(Written(msgs, n, c)) /\ Written(msgs, n, c) \subseteq Upward
           /\ \A w \in Written(msgs, n, c) : w.t = "s2c"
           /\ \A m \in msgs : m[1] = c => [t |-> "s2c", to |-> m[2], n |-> n] \in Written(msgs, n, c)
<1> DEFINE Of(m) == [t |-> "s2c", to |-> m[2], n |-> n]
           T == {p \in msgs : p[1] = c}
<1>1. IsFiniteSet(T)
  BY BatchesFinite
<1>2. IsFiniteSet({Of(m) : m \in T})
  <2> DEFINE f == [m \in T |-> Of(m)]
             I == {Of(m) : m \in T}
  <2>1. f \in Surjection(T, I)
    BY DEF Surjection
  <2> HIDE DEF f, I
  <2>2. IsFiniteSet(I)
    BY <1>1, <2>1, FS_Surjection
  <2> QED BY <2>2 DEF I
<1>3. \A m \in T : Of(m) \in Upward
  BY DEF Batches, Upward
<1> QED BY <1>2, <1>3 DEF Written

LEMMA UpSends ==
    ASSUME LinksOK, UpTypes, calls \in Nat, NEW msgs \in SUBSET Batches, SendsAll(msgs)
    PROVE  /\ UpTypes' /\ calls' \in Nat
           /\ \A d \in Chans : \A o : OnWay(d, o) => OnWay(d, o)'
           /\ \A n \in Nat : n = calls' =>
                \A m \in msgs : \A s \in m[2] : OnWay(m[1], <<n, s>>)'
<1>0. calls' \in Nat /\ upLink' = [c \in Chans |-> upLink[c] \o SetToSeq(Written(msgs, calls', c))]
  BY DEF SendsAll, Written
<1>1. PICK n \in Nat : n = calls'
  BY <1>0
<1>2. upLink' = [c \in Chans |-> upLink[c] \o SetToSeq(Written(msgs, n, c))]
  BY <1>0, <1>1
<1>3. ASSUME NEW c \in Chans
      PROVE  /\ upLink'[c] \in Seq(Upward)
             /\ \A i \in DOMAIN upLink'[c] : upLink'[c][i].t = "close" => upLink'[c][i].to # {}
             /\ \A o : OnWay(c, o) => OnWay(c, o)'
             /\ \A m \in msgs : \A s \in m[2] : m[1] = c => OnWay(c, <<n, s>>)'
  <2> DEFINE W == Written(msgs, n, c)
  <2>1. /\ IsFiniteSet(W) /\ W \subseteq Upward /\ \A w \in W : w.t = "s2c"
        /\ \A m \in msgs : m[1] = c => [t |-> "s2c", to |-> m[2], n |-> n] \in W
    BY WrittenFinite
  <2> HIDE DEF W
  <2>2. PICK r : r = SetToSeq(W)
    OBVIOUS
  <2>3. r \in Seq(W) /\ \A w \in W : \E i \in DOMAIN r : r[i] = w
    BY <2>1, <2>2, SequenceHasAll
  <2>4. r \in Seq(Upward) /\ \A i \in DOMAIN r : r[i] \in W
    <3>1. Len(r) \in Nat /\ DOMAIN r = 1..Len(r) /\ \A i \in 1..Len(r) : r[i] \in W
      BY <2>3, LenProperties, ElementOfSeq
    <3>2. r \in [1..Len(r) -> Upward]
      BY <2>1, <2>3, <3>1, LenProperties
    <3> QED BY <3>1, <3>2, IsASeq
  <2>5. upLink'[c] = upLink[c] \o r /\ upLink[c] \in Seq(Upward)
    BY <1>2, <2>2 DEF W, UpTypes
  <2>6. PICK q : q = upLink[c]
    OBVIOUS
  <2>7. q \in Seq(Upward)
    BY <2>5, <2>6
  <2>8. PICK x : x = Joined(q, r)
    OBVIOUS
  <2>9. /\ x \in Seq(Upward)
        /\ \A i \in DOMAIN q : i \in DOMAIN x /\ x[i] = q[i]
        /\ \A i \in DOMAIN r : \E j \in DOMAIN x : x[j] = r[i]
        /\ \A j \in DOMAIN x : (\E i \in DOMAIN q : x[j] = q[i]) \/ (\E i \in DOMAIN r : x[j] = r[i])
    BY <2>4, <2>7, <2>8, ConcatFacts
  <2>10. upLink'[c] = x
    BY <2>5, <2>6, <2>8 DEF Joined
  <2>11. \A i \in DOMAIN q : q[i].t = "close" => q[i].to # {}
    BY <2>6 DEF UpTypes
  <2>12. \A j \in DOMAIN x : x[j].t = "close" => x[j].to # {}
    BY <2>1, <2>4, <2>9, <2>11
  <2>13. \A o : OnWay(c, o) => OnWay(c, o)'
    BY <2>6, <2>9, <2>10 DEF OnWay, Carries
  <2>14. ASSUME NEW m \in msgs, NEW s \in m[2], m[1] = c PROVE OnWay(c, <<n, s>>)'
    <3>1. PICK i \in DOMAIN r : r[i] = [t |-> "s2c", to |-> m[2], n |-> n]
      BY <2>1, <2>3, <2>14
    <3>2. PICK j \in DOMAIN x : x[j] = r[i]
      BY <2>9
    <3>3. Carries(x[j], <<n, s>>)
      BY <3>1, <3>2, <2>14 DEF Carries
    <3> QED BY <2>10, <3>3 DEF OnWay, Carries
  <2> QED BY <2>9, <2>10, <2>12, <2>13, <2>14
<1>4. UpTypes'
  BY <1>2, <1>3 DEF UpTypes
<1>5. \A m \in msgs : m[1] \in Chans
  BY DEF Batches
<1>6. \A m \in msgs : \A s \in m[2] : OnWay(m[1], <<n, s>>)'
  BY <1>3, <1>5
<1> QED BY <1>0, <1>1, <1>3, <1>4, <1>6

\* Every call sends batches; what it owes is for sessions of the batches.
LEMMA CallsSend ==
    ASSUME LinksOK, ChanTypes
    PROVE  /\ \A s \in Sids : ToOne(s) \in SUBSET Batches
           /\ \A S \in SUBSET Sids \ {{}} : ToMany(S) \in SUBSET Batches /\ {<<latest, S>>} \in SUBSET Batches
<1>1. \A s \in Sids : Back(s) \in Chans
  BY DEF LinksOK, ChanTypes, Back
<1>2. \A s \in Sids : ToOne(s) \in SUBSET Batches
  BY <1>1 DEF ToOne, Known, Batches
<1>3. ASSUME NEW S \in SUBSET Sids PROVE ToMany(S) \in SUBSET Batches /\ {<<latest, S>>} \in SUBSET Batches
  <2>1. {<<latest, S>>} \in SUBSET Batches
    BY DEF Batches, ChanTypes
  <2>2. UNION {ToOne(s) : s \in S} \in SUBSET Batches
    BY <1>2
  <2>3. NatsToMany(S) \in SUBSET Batches
    BY <1>1 DEF NatsToMany, Known, Batches
  <2>4. linkKind \in {"rpc", "shard", "nats"}
    BY DEF LinksOK, ChanTypes
  <2> QED BY <2>1, <2>2, <2>3, <2>4 DEF ToMany, RpcToMany, ShardToMany
<1> QED BY <1>2, <1>3


-----------------------------------------------------------------------------
\* Every step keeps the types

LEMMA TypesInit ==
    ASSUME LinksOK, LinkInit
    PROVE  LinkTypes
<1>1. DownTypes /\ UpTypes
  BY DEF LinkInit, DownTypes, UpTypes
<1>2. ChanTypes
  BY DEF LinksOK, LinkInit, ChanTypes, NoChan
<1>3. GateTypes
  BY DEF LinkInit, GateTypes
<1>4. NodeTypes
  BY DEF LinkInit, NodeTypes, HandlerRests
<1>5. HistTypes
  BY DEF LinkInit, HistTypes
<1> QED BY <1>1, <1>2, <1>3, <1>4, <1>5 DEF LinkTypes

\* The way a step may disturb what is read about the messages.
LEMMA DownStep ==
    ASSUME LinksOK, LinkTypes, LinkNext
    PROVE  DownTypes'
<1>0. DownTypes /\ GateTypes
  BY DEF LinkTypes
<1> USE DEF linkVars, gateVars, sessVars, histVars
<1>1. ASSUME NEW s \in Sids, ForwardToLogic(s) PROVE DownTypes'
  <2>1. [t |-> "c2s", s |-> s] \in Downward
    BY DEF Downward
  <2>2. forwarding[s].c \in Chans
    BY <1>0, <1>1 DEF ForwardToLogic, GateTypes
  <2>3. downLink' = Put(downLink, forwarding[s].c, [t |-> "c2s", s |-> s]) => DownTypes'
    BY <1>0, <2>1, <2>2, WayAppends DEF DownTypes
  <2> QED BY <1>0, <1>1, <2>3 DEF ForwardToLogic, DownTypes
<1>2. ASSUME NEW s \in Sids, NotifyClientDisconnect(s) PROVE DownTypes'
  <2>1. [t |-> "gone", s |-> s] \in Downward
    BY DEF Downward
  <2>2. Towards(s) # NoChan => Towards(s) \in Chans
    BY DEF LinkTypes, ChanTypes, LinksOK, Towards, getLogicNode, sendToLogicShard
  <2>3. Towards(s) \in Chans /\ downLink' = Put(downLink, Towards(s), [t |-> "gone", s |-> s]) => DownTypes'
    BY <1>0, <2>1, WayAppends DEF DownTypes
  <2> QED BY <1>0, <1>2, <2>2, <2>3 DEF NotifyClientDisconnect, DownTypes
<1>3. ASSUME NEW c \in Chans, OnC2S(c) \/ RemoveSession(c) PROVE DownTypes'
  <2>1. downLink[c] # <<>> /\ downLink' = [downLink EXCEPT ![c] = Tail(@)]
    BY <1>3 DEF OnC2S, RemoveSession, MayRun
  <2> QED BY <1>0, <2>1, WayTakes DEF DownTypes
<1>4. CASE LinkBreaks
  <2>1. PICK c \in Chans : Loses(c)
    BY <1>4 DEF LinkBreaks, LinkTypes, ChanTypes
  <2>2. PICK pd \in Prefixes(downLink[c]) : downLink' = [downLink EXCEPT ![c] = pd]
    BY <2>1 DEF Loses
  <2> QED BY <1>0, <2>2, WayBreaks DEF DownTypes
<1>5. CASE NodeProcessRestarts
  BY <1>5 DEF NodeProcessRestarts, DownTypes
<1>6. ASSUME UNCHANGED downLink PROVE DownTypes'
  BY <1>0, <1>6 DEF DownTypes
<1>7. ASSUME NEW s \in Sids, \/ AddClientConn(s) \/ ForwardBegins(s) \/ ForwardChecks(s) \/ ClientCloses(s)
                             \/ RemoveClientConn(s) \/ NotifyClientLoginLogout(s) \/ CloseClient(s)
      PROVE  UNCHANGED downLink
  BY <1>7 DEF AddClientConn, ForwardBegins, ForwardChecks, ClientCloses, RemoveClientConn, NotifyClientLoginLogout, CloseClient
<1>8. ASSUME NEW msgs, SendsAll(msgs) PROVE UNCHANGED downLink
  BY <1>8 DEF SendsAll
<1>9. ASSUME NEW c \in Chans, \/ AddLooks(c) \/ AddSessionWithShard(c) \/ OnSession(c) \/ OnRegister(c)
                              \/ OnS2Clients(c) \/ OnClientLoginLogout(c) \/ OnCloseClient(c)
      PROVE  UNCHANGED downLink
  BY <1>9 DEF AddLooks, AddSessionWithShard, OnSession, OnRegister, OnS2Clients, OnClientLoginLogout, OnCloseClient
<1>10. CASE registerToGatewayRpc
  BY <1>6, <1>10 DEF registerToGatewayRpc
<1> QED BY <1>1, <1>2, <1>3, <1>4, <1>5, <1>6, <1>7, <1>8, <1>9, <1>10
        DEF LinkNext, ForwardToClient, ForwardToClients, SendToClients

\* A call of the logic node is one to SendsAll with batches.
LEMMA CallsAre ==
    ASSUME LinksOK, LinkTypes
    PROVE  /\ \A s \in Sids : ForwardToClient(s) => \E B \in SUBSET Batches : SendsAll(B)
           /\ \A S \in SUBSET Sids \ {{}} :
                ForwardToClients(S) \/ SendToClients(S) => \E B \in SUBSET Batches : SendsAll(B)
BY CallsSend DEF LinkTypes, ForwardToClient, ForwardToClients, SendToClients

LEMMA UpStep ==
    ASSUME LinksOK, LinkTypes, LinkNext
    PROVE  UpTypes'
<1>0. UpTypes /\ calls \in Nat /\ latest \in Chans
  BY DEF LinkTypes, HistTypes, ChanTypes
<1> USE DEF linkVars, gateVars, sessVars, histVars
<1>1. ASSUME NEW B \in SUBSET Batches, SendsAll(B) PROVE UpTypes'
  BY <1>0, <1>1, UpSends
<1>2. ASSUME NEW c \in Chans, NEW m \in Upward, m.t = "close" => m.to # {}, NodeSays(c, m) PROVE UpTypes'
  <2>1. upLink' = Put(upLink, c, m) => UpTypes'
    BY <1>0, <1>2, UpAppends
  <2> QED BY <1>0, <1>2, <2>1 DEF NodeSays, UpTypes
<1>3. CASE registerToGatewayRpc
  <2>1. [t |-> "reg", to |-> {}, n |-> 0] \in Upward
    BY DEF Upward
  <2> QED BY <1>0, <1>2, <1>3, <2>1 DEF registerToGatewayRpc
<1>4. \A s \in Sids : Back(s) \in Chans
  BY DEF LinksOK, LinkTypes, ChanTypes, Back
<1>5. ASSUME NEW s \in Sids, NotifyClientLoginLogout(s) PROVE UpTypes'
  <2>1. calls' \in Nat /\ NodeSays(Back(s), [t |-> "login", to |-> {s}, n |-> calls'])
    BY <1>0, <1>5 DEF NotifyClientLoginLogout
  <2>2. [t |-> "login", to |-> {s}, n |-> calls'] \in Upward
    BY <2>1 DEF Upward
  <2> QED BY <1>2, <1>4, <2>1, <2>2
<1>6. ASSUME NEW s \in Sids, CloseClient(s) PROVE UpTypes'
  <2>1. calls' \in Nat /\ NodeSays(Back(s), [t |-> "close", to |-> {s}, n |-> calls'])
    BY <1>0, <1>6 DEF CloseClient
  <2>2. [t |-> "close", to |-> {s}, n |-> calls'] \in Upward
    BY <2>1 DEF Upward
  <2> QED BY <1>2, <1>4, <2>1, <2>2
<1>7. ASSUME NEW c \in Chans, LinkHandled(c) PROVE UpTypes'
  BY <1>0, <1>7, UpTakes
<1>8. ASSUME NEW c \in Chans, NEW pu \in Prefixes(upLink[c]), upLink' = [upLink EXCEPT ![c] = pu] PROVE UpTypes'
  BY <1>0, <1>8, UpBreaks
<1>9. CASE LinkBreaks
  BY <1>0, <1>8, <1>9 DEF LinkBreaks, Loses
<1>10. CASE NodeProcessRestarts
  BY <1>0, <1>8, <1>10 DEF NodeProcessRestarts
<1>11. ASSUME UNCHANGED upLink PROVE UpTypes'
  BY <1>0, <1>11 DEF UpTypes
<1>12. ASSUME NEW s \in Sids, \/ AddClientConn(s) \/ ForwardBegins(s) \/ ForwardChecks(s) \/ ClientCloses(s)
                              \/ RemoveClientConn(s) \/ ForwardToLogic(s) \/ NotifyClientDisconnect(s)
       PROVE  UNCHANGED upLink
  BY <1>12 DEF AddClientConn, ForwardBegins, ForwardChecks, ClientCloses, RemoveClientConn, ForwardToLogic,
               NotifyClientDisconnect
<1>13. ASSUME NEW c \in Chans, \/ OnC2S(c) \/ AddLooks(c) \/ AddSessionWithShard(c) \/ OnSession(c)
                               \/ RemoveSession(c)
       PROVE  UNCHANGED upLink
  BY <1>13 DEF OnC2S, AddLooks, AddSessionWithShard, OnSession, RemoveSession
<1>14. ASSUME NEW c \in Chans, \/ OnRegister(c) \/ OnS2Clients(c) \/ OnClientLoginLogout(c) \/ OnCloseClient(c)
       PROVE  LinkHandled(c)
  BY <1>14 DEF OnRegister, OnS2Clients, OnClientLoginLogout, OnCloseClient
<1> HIDE DEF linkVars, gateVars, sessVars, histVars
<1> QED BY <1>1, <1>3, <1>5, <1>6, <1>7, <1>9, <1>10, <1>11, <1>12, <1>13, <1>14, CallsAre DEF LinkNext


\* Who writes what.
NodeKept == UNCHANGED <<sessionOf, owner, online, gpc, overlap, doubled, misled>>
AtNode(c) == OnC2S(c) \/ AddLooks(c) \/ AddSessionWithShard(c) \/ OnSession(c) \/ RemoveSession(c)
LEMMA NodeSteps ==
    ASSUME LinkNext
    PROVE  NodeKept \/ (\E c \in Chans : AtNode(c)) \/ NodeProcessRestarts
<1> USE DEF sessVars, histVars, NodeKept
<1>1. ASSUME NEW s \in Sids, \/ AddClientConn(s) \/ ForwardBegins(s) \/ ForwardChecks(s) \/ ForwardToLogic(s)
                             \/ ClientCloses(s) \/ RemoveClientConn(s) \/ NotifyClientDisconnect(s)
                             \/ NotifyClientLoginLogout(s) \/ CloseClient(s)
      PROVE  NodeKept
  BY <1>1 DEF AddClientConn, ForwardBegins, ForwardChecks, ForwardToLogic, ClientCloses, RemoveClientConn,
              NotifyClientDisconnect, NotifyClientLoginLogout, CloseClient
<1>2. ASSUME NEW msgs, SendsAll(msgs) PROVE NodeKept
  BY <1>2 DEF SendsAll
<1>3. ASSUME NEW c \in Chans, OnRegister(c) \/ OnS2Clients(c) \/ OnClientLoginLogout(c) \/ OnCloseClient(c)
      PROVE  NodeKept
  BY <1>3 DEF OnRegister, OnS2Clients, OnClientLoginLogout, OnCloseClient
<1>4. registerToGatewayRpc \/ LinkBreaks => NodeKept
  BY DEF registerToGatewayRpc, LinkBreaks
<1> HIDE DEF sessVars, histVars, NodeKept
<1> QED BY <1>1, <1>2, <1>3, <1>4 DEF LinkNext, AtNode, ForwardToClient, ForwardToClients, SendToClients

GateKept == UNCHANGED <<conns, boundTo, notes, forwarding>>
AtGate(s) == \/ AddClientConn(s) \/ ForwardBegins(s) \/ ForwardChecks(s) \/ ForwardToLogic(s)
             \/ ClientCloses(s) \/ RemoveClientConn(s) \/ NotifyClientDisconnect(s)
Closes(c, s) == OnCloseClient(c) /\ CloseConn(s)
LEMMA GateSteps ==
    ASSUME LinkTypes, LinkNext
    PROVE  GateKept \/ (\E s \in Sids : AtGate(s)) \/ \E c \in Chans, s \in Sids : Closes(c, s)
<1> USE DEF gateVars, GateKept
<1>1. ASSUME NEW s \in Sids, NotifyClientLoginLogout(s) \/ CloseClient(s) PROVE GateKept
  BY <1>1 DEF NotifyClientLoginLogout, CloseClient
<1>2. ASSUME NEW msgs, SendsAll(msgs) PROVE GateKept
  BY <1>2 DEF SendsAll
<1>3. ASSUME NEW c \in Chans, \/ AtNode(c) \/ OnRegister(c) \/ OnS2Clients(c) \/ OnClientLoginLogout(c)
      PROVE  GateKept
  BY <1>3 DEF OnRegister, OnS2Clients, OnClientLoginLogout, AtNode, OnC2S, AddLooks, AddSessionWithShard,
              OnSession, RemoveSession
<1>4. registerToGatewayRpc \/ LinkBreaks \/ NodeProcessRestarts => GateKept
  BY DEF registerToGatewayRpc, LinkBreaks, NodeProcessRestarts
<1>5. ASSUME NEW c \in Chans, OnCloseClient(c) PROVE \E s \in Sids : Closes(c, s)
  <2>1. UpTypes /\ LinkHandled(c) /\ Head(upLink[c]).t = "close"
    BY <1>5 DEF LinkTypes, OnCloseClient
  <2>2. Head(upLink[c]) \in Upward /\ Head(upLink[c]).to # {}
    BY <2>1, UpTakes
  <2>3. PICK s \in Sids : s \in Head(upLink[c]).to
    BY <2>2 DEF Upward
  <2> QED BY <1>5, <2>3 DEF OnCloseClient, Closes
<1> HIDE DEF gateVars, GateKept
<1> QED BY <1>1, <1>2, <1>3, <1>4, <1>5
        DEF LinkNext, AtGate, AtNode, ForwardToClient, ForwardToClients, SendToClients

LEMMA TowardsChans ==
    ASSUME LinksOK, ChanTypes, NEW s \in Sids, Towards(s) # NoChan
    PROVE  Towards(s) \in Chans
BY DEF LinksOK, ChanTypes, Towards, getLogicNode, sendToLogicShard

LEMMA ChanStep ==
    ASSUME LinksOK, LinkTypes, LinkNext
    PROVE  ChanTypes'
<1>0. ChanTypes
  BY DEF LinkTypes
<1>1. ASSUME UNCHANGED <<linkKind, latest, registered>> PROVE ChanTypes'
  BY <1>0, <1>1 DEF ChanTypes
<1>2. ASSUME NEW c \in Chans, OnRegister(c) PROVE ChanTypes'
  BY <1>0, <1>2 DEF ChanTypes, OnRegister
<1>3. CASE LinkBreaks
  BY <1>0, <1>3 DEF ChanTypes, LinkBreaks
<1>4. CASE NodeProcessRestarts
  BY <1>0, <1>4 DEF ChanTypes, NodeProcessRestarts
<1>5. ASSUME NEW s \in Sids, AtGate(s) \/ NotifyClientLoginLogout(s) \/ CloseClient(s)
      PROVE  UNCHANGED <<linkKind, latest, registered>>
  BY <1>5 DEF AtGate, AddClientConn, ForwardBegins, ForwardChecks, ForwardToLogic, ClientCloses, RemoveClientConn,
              NotifyClientDisconnect, NotifyClientLoginLogout, CloseClient
<1>6. ASSUME NEW msgs, SendsAll(msgs) PROVE UNCHANGED <<linkKind, latest, registered>>
  BY <1>6 DEF SendsAll
<1>7. ASSUME NEW c \in Chans, AtNode(c) \/ OnS2Clients(c) \/ OnClientLoginLogout(c) \/ OnCloseClient(c)
      PROVE  UNCHANGED <<linkKind, latest, registered>>
  BY <1>7 DEF AtNode, OnC2S, AddLooks, AddSessionWithShard, OnSession, RemoveSession, OnS2Clients,
              OnClientLoginLogout, OnCloseClient
<1>8. registerToGatewayRpc => UNCHANGED <<linkKind, latest, registered>>
  BY DEF registerToGatewayRpc
<1> QED BY <1>1, <1>2, <1>3, <1>4, <1>5, <1>6, <1>7, <1>8
        DEF LinkNext, AtGate, AtNode, ForwardToClient, ForwardToClients, SendToClients

LEMMA GateStep ==
    ASSUME LinksOK, LinkTypes, LinkNext
    PROVE  GateTypes'
<1>0. GateTypes /\ ChanTypes
  BY DEF LinkTypes
<1>1. ASSUME NEW s \in Sids, AddClientConn(s) \/ RemoveClientConn(s) PROVE GateTypes'
  BY <1>0, <1>1 DEF GateTypes, AddClientConn, RemoveClientConn
<1>2. ASSUME NEW s \in Sids, ForwardBegins(s) PROVE GateTypes'
  BY <1>0, <1>2, TowardsChans DEF GateTypes, ForwardBegins
<1>3. ASSUME NEW s \in Sids, ForwardChecks(s) PROVE GateTypes'
  <2>1. PICK a \in {"no", "send"} : forwarding' = [forwarding EXCEPT ![s].at = a]
    BY <1>3 DEF ForwardChecks
  <2>2. UNCHANGED <<conns, boundTo, notes>> /\ forwarding[s].at # "no"
    BY <1>3 DEF ForwardChecks
  <2> QED BY <1>0, <2>1, <2>2 DEF GateTypes
<1>4. ASSUME NEW s \in Sids, ForwardToLogic(s) PROVE GateTypes'
  BY <1>0, <1>4 DEF GateTypes, ForwardToLogic
<1>5. ASSUME NEW s \in Sids, ClientCloses(s) \/ NotifyClientDisconnect(s) PROVE GateTypes'
  BY <1>0, <1>5 DEF GateTypes, ClientCloses, NotifyClientDisconnect
<1>6. ASSUME NEW c \in Chans, NEW s \in Sids, Closes(c, s) PROVE GateTypes'
  BY <1>0, <1>6 DEF GateTypes, Closes, CloseConn, OnCloseClient
<1>7. GateKept => GateTypes'
  BY <1>0 DEF GateKept, GateTypes
<1> QED BY <1>1, <1>2, <1>3, <1>4, <1>5, <1>6, <1>7, GateSteps DEF AtGate

LEMMA NodeStep ==
    ASSUME LinksOK, LinkTypes, LinkNext
    PROVE  NodeTypes'
<1>0. NodeTypes /\ DownTypes
  BY DEF LinkTypes
<1>1. ASSUME NEW c \in Chans, OnC2S(c) PROVE NodeTypes'
  <2>1. Head(downLink[c]) \in Downward
    BY <1>0, <1>1, WayTakes DEF OnC2S, MayRun
  <2>2. Head(downLink[c]).s \in Sids
    BY <2>1 DEF Downward
  <2> QED BY <1>0, <1>1, <2>2 DEF NodeTypes, OnC2S, Handling, NoObj
<1>2. ASSUME NEW c \in Chans, AddLooks(c) PROVE NodeTypes'
  BY <1>0, <1>2 DEF NodeTypes, AddLooks, Handling, NoObj
<1>3. ASSUME NEW c \in Chans, AddSessionWithShard(c) PROVE NodeTypes'
  BY <1>0, <1>3 DEF NodeTypes, AddSessionWithShard, Handling
<1>4. ASSUME NEW c \in Chans, OnSession(c) PROVE NodeTypes'
  BY <1>0, <1>4 DEF NodeTypes, OnSession, HandlerRests
<1>5. ASSUME NEW c \in Chans, RemoveSession(c) PROVE NodeTypes'
  <2>1. Head(downLink[c]) \in Downward
    BY <1>0, <1>5, WayTakes DEF RemoveSession, MayRun
  <2>2. Head(downLink[c]).s \in Sids
    BY <2>1 DEF Downward
  <2> QED BY <1>0, <1>5, <2>2 DEF NodeTypes, RemoveSession
<1>6. CASE NodeProcessRestarts
  BY <1>6 DEF NodeTypes, NodeProcessRestarts, HandlerRests
<1>7. NodeKept => NodeTypes'
  BY <1>0 DEF NodeKept, NodeTypes
<1> QED BY <1>1, <1>2, <1>3, <1>4, <1>5, <1>6, <1>7, NodeSteps DEF AtNode

LEMMA HistStep ==
    ASSUME LinksOK, LinkTypes, LinkNext
    PROVE  HistTypes'
<1>0. HistTypes /\ NodeTypes /\ DownTypes
  BY DEF LinkTypes
<1> USE DEF histVars
<1>1. ASSUME NEW s \in Sids, AtGate(s) PROVE HistTypes'
  BY <1>0, <1>1 DEF HistTypes, AtGate, AddClientConn, ForwardBegins, ForwardChecks, ForwardToLogic, ClientCloses,
                    RemoveClientConn, NotifyClientDisconnect
<1>2. ASSUME NEW B \in SUBSET Batches, SendsAll(B) PROVE HistTypes'
  <2>1. UNION {m[2] : m \in B} \subseteq Sids
    BY DEF Batches
  <2> QED BY <1>0, <1>2, <2>1 DEF HistTypes, SendsAll
<1>3. ASSUME NEW s \in Sids, NotifyClientLoginLogout(s) \/ CloseClient(s) PROVE HistTypes'
  BY <1>0, <1>3 DEF HistTypes, NotifyClientLoginLogout, CloseClient
<1>4. ASSUME NEW c \in Chans, OnC2S(c) \/ RemoveSession(c) PROVE HistTypes'
  <2>1. Head(downLink[c]) \in Downward
    BY <1>0, <1>4, WayTakes DEF OnC2S, RemoveSession, MayRun
  <2>2. Head(downLink[c]).s \in Sids
    BY <2>1 DEF Downward
  <2> QED BY <1>0, <1>4, <2>2 DEF HistTypes, OnC2S, RemoveSession, Crossed
<1>5. ASSUME NEW c \in Chans, AddLooks(c) PROVE HistTypes'
  BY <1>0, <1>5 DEF HistTypes, AddLooks
<1>6. ASSUME NEW c \in Chans, AddSessionWithShard(c) PROVE HistTypes'
  BY <1>0, <1>6 DEF HistTypes, AddSessionWithShard
<1>7. ASSUME NEW c \in Chans, OnSession(c) PROVE HistTypes'
  BY <1>0, <1>7 DEF HistTypes, OnSession, NodeTypes
<1>8. ASSUME NEW c \in Chans, OnRegister(c) \/ OnS2Clients(c) \/ OnClientLoginLogout(c) \/ OnCloseClient(c)
      PROVE  HistTypes'
  BY <1>0, <1>8 DEF HistTypes, OnRegister, OnS2Clients, OnClientLoginLogout, OnCloseClient
<1>9. registerToGatewayRpc => HistTypes'
  BY <1>0 DEF HistTypes, registerToGatewayRpc
<1>10. CASE LinkBreaks
  <2>1. PICK c \in Chans : Loses(c)
    BY <1>10 DEF LinkBreaks, LinkTypes, ChanTypes
  <2>2. PICK pu \in Prefixes(upLink[c]), pd \in Prefixes(downLink[c]) :
          /\ downLink' = [downLink EXCEPT ![c] = pd]
          /\ sentTo' = sentTo \ MissedUp(upLink[c], pu) /\ untold' = untold \cup MissedDown(downLink[c], pd)
    BY <2>1 DEF Loses
  <2>3. MissedDown(downLink[c], pd) \subseteq Sids
    BY <1>0, <2>2, WayBreaks
  <2>4. UNCHANGED <<calls, doubled, overlap, misled>>
    BY <1>10 DEF LinkBreaks
  <2> QED BY <1>0, <2>2, <2>3, <2>4 DEF HistTypes
<1>11. CASE NodeProcessRestarts
  <2>1. sentTo' \subseteq sentTo
    BY <1>11 DEF NodeProcessRestarts
  <2> QED BY <1>0, <1>11, <2>1 DEF HistTypes, NodeProcessRestarts
<1> HIDE DEF histVars
<1> QED BY <1>1, <1>2, <1>3, <1>4, <1>5, <1>6, <1>7, <1>8, <1>9, <1>10, <1>11, CallsAre DEF LinkNext, AtGate

LEMMA TypesStep ==
    ASSUME LinksOK, LinkTypes, LinkNext
    PROVE  LinkTypes'
BY DownStep, UpStep, ChanStep, GateStep, NodeStep, HistStep DEF LinkTypes


-----------------------------------------------------------------------------
\* The handlers of one session, its object, and the count of sessions

\* A message that is handled while another channel has news of its session is overlap.
LEMMA CrossedFacts ==
    ASSUME DownTypes, NEW c \in Chans, NEW s
    PROVE  /\ overlap \subseteq Crossed(c, s)
           /\ \A d \in Chans : d # c /\ (Busy(d, s) \/ TellsLast(d, s)) => s \in Crossed(c, s)
<1>1. \A d \in Chans : DOMAIN downLink[d] = 1..Len(downLink[d])
  BY LenProperties DEF DownTypes
<1>2. ASSUME NEW d \in Chans, d # c, Busy(d, s) \/ TellsLast(d, s) PROVE Crosses(c, s)
  BY <1>1, <1>2 DEF Crosses, Busy, TellsLast, LastWord
<1> QED BY <1>2 DEF Crossed

LEMMA AloneStep ==
    ASSUME LinksOK, LinkTypes, Alone, LinkNext
    PROVE  Alone'
<1>0. NodeTypes /\ DownTypes /\ NodeTypes'
  BY NodeStep DEF LinkTypes
<1>1. ASSUME NEW c \in Chans, OnC2S(c) PROVE Alone'
  <2> DEFINE s == Head(downLink[c]).s
  <2>1. gpc[c].at = "no" /\ sessionOf' = sessionOf /\ overlap' = Crossed(c, s)
    BY <1>1 DEF OnC2S, MayRun
  <2>2. /\ gpc'[c].s = s /\ gpc'[c].at # "no"
        /\ gpc'[c].at \in {"add", "store"} => sessionOf[s] = NoObj
    BY <1>0, <1>1 DEF OnC2S, Handling, NodeTypes
  <2>3. overlap \subseteq overlap' /\ \A d \in Chans : d # c /\ Busy(d, s) => s \in overlap'
    BY <1>0, <2>1, CrossedFacts
  <2>4. \A d \in Chans : d # c => gpc'[d] = gpc[d]
    BY <1>0, <1>1 DEF OnC2S, Handling, NodeTypes
  <2> HIDE DEF s
  <2>5. \A d, e \in Chans, t \in Sids : d # e /\ Busy(d, t)' /\ Busy(e, t)' => t \in overlap'
    BY <2>2, <2>3, <2>4 DEF Alone, Busy
  <2>6. \A d \in Chans : Adds(d)' /\ sessionOf'[gpc'[d].s] # NoObj => gpc'[d].s \in overlap'
    BY <2>1, <2>2, <2>3, <2>4 DEF Alone, Adds
  <2> QED BY <2>5, <2>6 DEF Alone
<1>2. ASSUME NEW c \in Chans, AddLooks(c) PROVE Alone'
  <2>1. gpc[c].at = "add" /\ sessionOf' = sessionOf /\ overlap' = overlap
    BY <1>2 DEF AddLooks, histVars
  <2>2. /\ gpc'[c].s = gpc[c].s /\ gpc'[c].at # "no"
        /\ gpc'[c].at \in {"add", "store"} => sessionOf[gpc[c].s] = NoObj
    BY <1>0, <1>2 DEF AddLooks, Handling, NodeTypes
  <2>3. \A d \in Chans : d # c => gpc'[d] = gpc[d]
    BY <1>0, <1>2 DEF AddLooks, Handling, NodeTypes
  <2>4. \A d, e \in Chans, t \in Sids : d # e /\ Busy(d, t)' /\ Busy(e, t)' => t \in overlap'
    BY <2>1, <2>2, <2>3 DEF Alone, Busy
  <2>5. \A d \in Chans : Adds(d)' /\ sessionOf'[gpc'[d].s] # NoObj => gpc'[d].s \in overlap'
    BY <2>1, <2>2, <2>3 DEF Alone, Adds
  <2> QED BY <2>4, <2>5 DEF Alone
<1>3. ASSUME NEW c \in Chans, AddSessionWithShard(c) PROVE Alone'
  <2> DEFINE s == gpc[c].s
  <2>1. gpc[c].at = "store" /\ overlap' = overlap /\ sessionOf' = [sessionOf EXCEPT ![s] = gpc[c].o]
    BY <1>3 DEF AddSessionWithShard
  <2>2. gpc'[c].s = s /\ gpc'[c].at = "use"
    BY <1>0, <1>3 DEF AddSessionWithShard, Handling, NodeTypes
  <2>3. \A d \in Chans : d # c => gpc'[d] = gpc[d]
    BY <1>0, <1>3 DEF AddSessionWithShard, Handling, NodeTypes
  <2>4. s \in Sids /\ \A t \in Sids : t # s => sessionOf'[t] = sessionOf[t]
    BY <1>0, <2>1 DEF NodeTypes
  <2>5. \A d, e \in Chans, t \in Sids : d # e /\ Busy(d, t)' /\ Busy(e, t)' => t \in overlap'
    BY <2>1, <2>2, <2>3 DEF Alone, Busy
  <2>6. ASSUME NEW d \in Chans, Adds(d)', sessionOf'[gpc'[d].s] # NoObj PROVE gpc'[d].s \in overlap'
    <3>1. d # c /\ gpc'[d] = gpc[d] /\ Adds(d) /\ gpc[d].s \in Sids
      BY <1>0, <2>2, <2>3, <2>6 DEF Adds, NodeTypes
    <3>2. CASE gpc[d].s = s
      BY <2>1, <2>4, <3>1, <3>2 DEF Alone, Busy, Adds
    <3>3. CASE gpc[d].s # s
      BY <2>1, <2>4, <2>6, <3>1, <3>3 DEF Alone
    <3> QED BY <3>2, <3>3
  <2> QED BY <2>5, <2>6 DEF Alone
<1>4. ASSUME NEW c \in Chans, OnSession(c) PROVE Alone'
  <2>1. sessionOf' = sessionOf /\ overlap' = overlap /\ gpc' = [gpc EXCEPT ![c] = HandlerRests]
    BY <1>4 DEF OnSession
  <2>2. gpc'[c].at = "no" /\ \A d \in Chans : d # c => gpc'[d] = gpc[d]
    BY <1>0, <2>1 DEF NodeTypes, HandlerRests
  <2>3. \A d, e \in Chans, t \in Sids : d # e /\ Busy(d, t)' /\ Busy(e, t)' => t \in overlap'
    BY <2>1, <2>2 DEF Alone, Busy
  <2>4. \A d \in Chans : Adds(d)' /\ sessionOf'[gpc'[d].s] # NoObj => gpc'[d].s \in overlap'
    BY <2>1, <2>2 DEF Alone, Adds
  <2> QED BY <2>3, <2>4 DEF Alone
<1>5. ASSUME NEW c \in Chans, RemoveSession(c) PROVE Alone'
  <2>1. gpc' = gpc /\ overlap \subseteq overlap'
    BY <1>0, <1>5, CrossedFacts DEF RemoveSession
  <2>2. \A t \in Sids : sessionOf'[t] # NoObj => sessionOf[t] # NoObj
    BY <1>0, <1>5 DEF RemoveSession, NodeTypes
  <2>3. \A d \in Chans : Adds(d) => gpc[d].s \in Sids
    BY <1>0 DEF NodeTypes, Adds
  <2>4. \A d, e \in Chans, t \in Sids : d # e /\ Busy(d, t)' /\ Busy(e, t)' => t \in overlap'
    BY <2>1 DEF Alone, Busy
  <2>5. \A d \in Chans : Adds(d)' /\ sessionOf'[gpc'[d].s] # NoObj => gpc'[d].s \in overlap'
    BY <2>1, <2>2, <2>3 DEF Alone, Adds
  <2> QED BY <2>4, <2>5 DEF Alone
<1>6. CASE NodeProcessRestarts
  BY <1>6 DEF NodeProcessRestarts, HandlerRests, Alone, Busy, Adds
<1>7. NodeKept => Alone'
  BY DEF NodeKept, Alone, Busy, Adds
<1> QED BY <1>1, <1>2, <1>3, <1>4, <1>5, <1>6, <1>7, NodeSteps DEF AtNode

\* What is said of the objects, apart.
OwnedIn == \A s \in Sids : sessionOf[s] # NoObj => owner[sessionOf[s]] = s
OwnedStore == \A c \in Chans : Stores(c) =>
    /\ owner[gpc[c].o] = gpc[c].s
    /\ \A s \in Sids : sessionOf[s] # gpc[c].o
    /\ \A d \in Chans \ {c} : Stores(d) => gpc[d].o # gpc[c].o
OwnedUse == \A c \in Chans : gpc[c].at = "use" => gpc[c].s \in overlap \/ owner[gpc[c].o] = gpc[c].s
LEMMA OwnedIs == /\ Owned <=> OwnedIn /\ OwnedStore /\ OwnedUse
                 /\ Owned' <=> OwnedIn' /\ OwnedStore' /\ OwnedUse'
BY DEF Owned, OwnedIn, OwnedStore, OwnedUse

LEMMA OwnedStep ==
    ASSUME LinksOK, LinkTypes, Alone, Owned, LinkNext
    PROVE  Owned'
<1>0. NodeTypes /\ DownTypes /\ NodeTypes' /\ NoSid \notin Sids /\ 0 \notin Objs
  BY NodeStep DEF LinkTypes, LinksOK
<1>00. OwnedIn /\ OwnedStore /\ OwnedUse
  BY OwnedIs
<1>1. ASSUME NEW c \in Chans, OnC2S(c) PROVE Owned'
  <2> DEFINE s == Head(downLink[c]).s
  <2>1. sessionOf' = sessionOf /\ owner' = owner /\ overlap' = Crossed(c, s)
    BY <1>1 DEF OnC2S
  <2>2. /\ gpc'[c].s = s
        /\ (gpc'[c].at = "use" /\ sessionOf[s] # NoObj /\ gpc'[c].o = sessionOf[s]) \/ gpc'[c].at = "add"
    BY <1>0, <1>1 DEF OnC2S, Handling, NodeTypes
  <2>3. overlap \subseteq overlap'
    BY <1>0, <2>1, CrossedFacts
  <2>4. \A d \in Chans : d # c => gpc'[d] = gpc[d]
    BY <1>0, <1>1 DEF OnC2S, Handling, NodeTypes
  <2>5. s \in Sids
    BY <1>0, <2>2 DEF NodeTypes
  <2> HIDE DEF s
  <2>6. OwnedIn'
    BY <1>00, <2>1 DEF OwnedIn
  <2>7. OwnedStore'
    BY <1>00, <2>1, <2>2, <2>4 DEF OwnedStore, Stores
  <2>8. OwnedUse'
    BY <1>00, <2>1, <2>2, <2>3, <2>4, <2>5 DEF OwnedUse, OwnedIn
  <2> QED BY <2>6, <2>7, <2>8, OwnedIs
<1>2. ASSUME NEW c \in Chans, AddLooks(c) PROVE Owned'
  <2> DEFINE s == gpc[c].s
  <2>0. s \in Sids /\ sessionOf' = sessionOf /\ overlap' = overlap /\ gpc[c].at = "add"
    BY <1>0, <1>2 DEF AddLooks, histVars, NodeTypes
  <2>1. CASE sessionOf[s] # NoObj
    <3>1. owner' = owner /\ gpc' = [gpc EXCEPT ![c] = [at |-> "use", s |-> s, o |-> sessionOf[s]]]
      BY <1>2, <2>1 DEF AddLooks, Handling
    <3>2. gpc'[c] = [at |-> "use", s |-> s, o |-> sessionOf[s]] /\ \A d \in Chans : d # c => gpc'[d] = gpc[d]
      BY <1>0, <3>1 DEF NodeTypes
    <3>3. OwnedIn'
      BY <1>00, <2>0, <3>1 DEF OwnedIn
    <3>4. OwnedStore'
      BY <1>00, <2>0, <3>1, <3>2 DEF OwnedStore, Stores
    <3>5. OwnedUse'
      BY <1>00, <2>0, <2>1, <3>1, <3>2 DEF OwnedUse, OwnedIn
    <3> QED BY <3>3, <3>4, <3>5, OwnedIs
  <2>2. CASE sessionOf[s] = NoObj
    <3>1. PICK o \in Objs : /\ owner[o] = NoSid /\ owner' = [owner EXCEPT ![o] = s]
                            /\ gpc' = [gpc EXCEPT ![c] = [at |-> "store", s |-> s, o |-> o]]
      BY <1>2, <2>2 DEF AddLooks, Handling
    <3>2. gpc'[c] = [at |-> "store", s |-> s, o |-> o] /\ \A d \in Chans : d # c => gpc'[d] = gpc[d]
      BY <1>0, <3>1 DEF NodeTypes
    <3>3. owner'[o] = s /\ \A p \in Objs : p # o => owner'[p] = owner[p]
      BY <1>0, <3>1 DEF NodeTypes
    <3>4. \A t \in Sids : sessionOf[t] # NoObj => sessionOf[t] \in Objs
      BY <1>0 DEF NodeTypes
    <3>5. \A d \in Chans : gpc[d].at \in {"store", "use"} => gpc[d].o \in Objs /\ gpc[d].s \in Sids
      BY <1>0 DEF NodeTypes
    <3>6. \A t \in Sids : sessionOf[t] # o
      BY <1>0, <1>00, <3>1 DEF OwnedIn, NoObj
    <3>7. \A d \in Chans : Stores(d) => gpc[d].o # o
      BY <1>0, <1>00, <3>1, <3>5 DEF OwnedStore, Stores
    <3>8. OwnedIn'
      BY <1>00, <2>0, <3>3, <3>4, <3>6 DEF OwnedIn
    <3>9. OwnedStore'
      <4> SUFFICES ASSUME NEW d \in Chans, Stores(d)'
                   PROVE  /\ owner'[gpc'[d].o] = gpc'[d].s
                          /\ \A t \in Sids : sessionOf'[t] # gpc'[d].o
                          /\ \A e \in Chans \ {d} : Stores(e)' => gpc'[e].o # gpc'[d].o
        BY DEF OwnedStore
      <4>1. CASE d = c
        BY <2>0, <3>2, <3>3, <3>6, <3>7, <4>1 DEF Stores
      <4>2. CASE d # c
        BY <1>00, <2>0, <3>2, <3>3, <3>5, <3>7, <4>2 DEF OwnedStore, Stores
      <4> QED BY <4>1, <4>2
    <3>10. OwnedUse'
      BY <1>0, <1>00, <2>0, <3>1, <3>2, <3>3, <3>5 DEF OwnedUse
    <3> QED BY <3>8, <3>9, <3>10, OwnedIs
  <2> QED BY <2>1, <2>2
<1>3. ASSUME NEW c \in Chans, AddSessionWithShard(c) PROVE Owned'
  <2> DEFINE s == gpc[c].s
  <2>1. /\ gpc[c].at = "store" /\ overlap' = overlap /\ sessionOf' = [sessionOf EXCEPT ![s] = gpc[c].o]
        /\ owner' = owner /\ gpc' = [gpc EXCEPT ![c] = [at |-> "use", s |-> s, o |-> gpc[c].o]]
    BY <1>3 DEF AddSessionWithShard, Handling
  <2>2. gpc'[c] = [at |-> "use", s |-> s, o |-> gpc[c].o] /\ \A d \in Chans : d # c => gpc'[d] = gpc[d]
    BY <1>0, <2>1 DEF NodeTypes
  <2>3. s \in Sids /\ sessionOf'[s] = gpc[c].o /\ \A t \in Sids : t # s => sessionOf'[t] = sessionOf[t]
    BY <1>0, <2>1 DEF NodeTypes
  <2>4. owner[gpc[c].o] = s /\ \A d \in Chans \ {c} : Stores(d) => gpc[d].o # gpc[c].o
    BY <1>00, <2>1 DEF OwnedStore, Stores
  <2>5. OwnedIn'
    BY <1>00, <2>1, <2>3, <2>4 DEF OwnedIn
  <2>6. OwnedStore'
    BY <1>00, <2>1, <2>2, <2>3, <2>4 DEF OwnedStore, Stores
  <2>7. OwnedUse'
    BY <1>00, <2>1, <2>2, <2>4 DEF OwnedUse
  <2> QED BY <2>5, <2>6, <2>7, OwnedIs
<1>4. ASSUME NEW c \in Chans, OnSession(c) PROVE Owned'
  <2>1. sessionOf' = sessionOf /\ owner' = owner /\ overlap' = overlap /\ gpc' = [gpc EXCEPT ![c] = HandlerRests]
    BY <1>4 DEF OnSession
  <2>2. gpc'[c].at = "no" /\ \A d \in Chans : d # c => gpc'[d] = gpc[d]
    BY <1>0, <2>1 DEF NodeTypes, HandlerRests
  <2>3. OwnedIn'
    BY <1>00, <2>1 DEF OwnedIn
  <2>4. OwnedStore'
    BY <1>00, <2>1, <2>2 DEF OwnedStore, Stores
  <2>5. OwnedUse'
    BY <1>00, <2>1, <2>2 DEF OwnedUse
  <2> QED BY <2>3, <2>4, <2>5, OwnedIs
<1>5. ASSUME NEW c \in Chans, RemoveSession(c) PROVE Owned'
  <2> DEFINE s == Head(downLink[c]).s
  <2>1. gpc' = gpc /\ gpc[c].at = "no" /\ overlap' = Crossed(c, s)
    BY <1>5 DEF RemoveSession, MayRun
  <2>2. overlap \subseteq overlap' /\ \A d \in Chans : d # c /\ Busy(d, s) => s \in overlap'
    BY <1>0, <2>1, CrossedFacts
  <2>3. Head(downLink[c]) \in Downward
    BY <1>0, <1>5, WayTakes DEF RemoveSession, MayRun
  <2>4. s \in Sids
    BY <2>3 DEF Downward
  <2>5. CASE sessionOf[s] = NoObj
    <3>1. sessionOf' = sessionOf /\ owner' = owner
      BY <1>5, <2>5 DEF RemoveSession
    <3>2. OwnedIn' /\ OwnedStore' /\ OwnedUse'
      BY <1>00, <2>1, <2>2, <3>1 DEF OwnedIn, OwnedStore, Stores, OwnedUse
    <3> QED BY <3>2, OwnedIs
  <2>6. CASE sessionOf[s] # NoObj
    <3>1. sessionOf' = [sessionOf EXCEPT ![s] = NoObj] /\ owner' = [owner EXCEPT ![sessionOf[s]] = NoSid]
      BY <1>5, <2>6 DEF RemoveSession
    <3>2. PICK o \in Objs : o = sessionOf[s]
      BY <1>0, <2>4, <2>6 DEF NodeTypes
    <3>3. sessionOf'[s] = NoObj /\ \A t \in Sids : t # s => sessionOf'[t] = sessionOf[t]
      BY <1>0, <2>4, <3>1 DEF NodeTypes
    <3>4. owner'[o] = NoSid /\ \A p \in Objs : p # o => owner'[p] = owner[p]
      BY <1>0, <3>1, <3>2 DEF NodeTypes
    <3>5. owner[o] = s
      BY <1>00, <2>4, <2>6, <3>2 DEF OwnedIn
    <3>6. \A t \in Sids : sessionOf[t] # NoObj => sessionOf[t] \in Objs
      BY <1>0 DEF NodeTypes
    <3>7. \A d \in Chans : gpc[d].at \in {"store", "use"} => gpc[d].o \in Objs
      BY <1>0 DEF NodeTypes
    <3> HIDE DEF s
    <3>8. OwnedIn'
      BY <1>00, <3>3, <3>4, <3>5, <3>6 DEF OwnedIn
    <3>9. OwnedStore'
      <4>1. \A d \in Chans : Stores(d) => gpc[d].o # o /\ gpc[d].o # NoObj
        BY <1>0, <1>00, <2>4, <3>2, <3>7 DEF OwnedStore, Stores, NoObj
      <4> QED BY <1>00, <2>1, <3>3, <3>4, <3>7, <4>1 DEF OwnedStore, Stores
    <3>10. OwnedUse'
      <4> SUFFICES ASSUME NEW d \in Chans, gpc[d].at = "use"
                   PROVE  gpc[d].s \in overlap' \/ owner'[gpc[d].o] = gpc[d].s
        BY <2>1 DEF OwnedUse
      <4>1. CASE gpc[d].o = o
        <5>1. gpc[d].s \in overlap \/ gpc[d].s = s
          BY <1>00, <3>5, <4>1 DEF OwnedUse
        <5>2. d # c /\ Busy(d, gpc[d].s)
          BY <2>1 DEF Busy
        <5> QED BY <2>2, <5>1, <5>2
      <4>2. CASE gpc[d].o # o
        BY <1>00, <2>2, <3>4, <3>7, <4>2 DEF OwnedUse
      <4> QED BY <4>1, <4>2
    <3> QED BY <3>8, <3>9, <3>10, OwnedIs
  <2> QED BY <2>5, <2>6
<1>6. CASE NodeProcessRestarts
  BY <1>6 DEF NodeProcessRestarts, HandlerRests, Owned, Stores
<1>7. NodeKept => Owned'
  BY DEF NodeKept, Owned, Stores
<1> QED BY <1>1, <1>2, <1>3, <1>4, <1>5, <1>6, <1>7, NodeSteps DEF AtNode


InTable == {s \in Sids : sessionOf[s] # NoObj}
Storing == {c \in Chans : gpc[c].at = "store"}

LEMMA CountsFinite ==
    ASSUME LinksOK
    PROVE  /\ IsFiniteSet(InTable) /\ Cardinality(InTable) \in Nat
           /\ IsFiniteSet(Storing) /\ Cardinality(Storing) \in Nat
BY FS_Subset, FS_CardinalityType DEF LinksOK, InTable, Storing

LEMMA CountsStep ==
    ASSUME LinksOK, LinkTypes, Alone, Owned, CountsSessions, LinkNext
    PROVE  CountsSessions'
<1>0. NodeTypes /\ DownTypes /\ HistTypes
  BY DEF LinkTypes
<1>00. /\ online = Cardinality(InTable) + Cardinality(Storing) + doubled
       /\ doubled > 0 => overlap # {}
       /\ misled \subseteq overlap
       /\ IsFiniteSet(InTable) /\ Cardinality(InTable) \in Nat
       /\ IsFiniteSet(Storing) /\ Cardinality(Storing) \in Nat
       /\ doubled \in Nat /\ online \in Int
  BY <1>0, CountsFinite DEF CountsSessions, InTable, Storing, HistTypes, NodeTypes
<1>01. CountsSessions' <=> /\ online' = Cardinality(InTable') + Cardinality(Storing') + doubled'
                           /\ doubled' > 0 => overlap' # {}
                           /\ misled' \subseteq overlap'
  BY DEF CountsSessions, InTable, Storing
<1>1. ASSUME NEW c \in Chans, OnC2S(c) PROVE CountsSessions'
  <2>1. sessionOf' = sessionOf /\ online' = online /\ doubled' = doubled /\ misled' = misled /\ overlap \subseteq overlap'
    BY <1>0, <1>1, CrossedFacts DEF OnC2S
  <2>2. gpc[c].at = "no" /\ gpc'[c].at # "store" /\ \A d \in Chans : d # c => gpc'[d] = gpc[d]
    BY <1>0, <1>1 DEF OnC2S, MayRun, Handling, NodeTypes
  <2>3. InTable' = InTable /\ Storing' = Storing
    BY <2>1, <2>2 DEF InTable, Storing
  <2> QED BY <1>00, <1>01, <2>1, <2>3
<1>2. ASSUME NEW c \in Chans, AddLooks(c) PROVE CountsSessions'
  <2>1. sessionOf' = sessionOf /\ doubled' = doubled /\ misled' = misled /\ overlap' = overlap /\ gpc[c].at = "add"
    BY <1>2 DEF AddLooks, histVars
  <2>2. \A d \in Chans : d # c => gpc'[d] = gpc[d]
    BY <1>0, <1>2 DEF AddLooks, Handling, NodeTypes
  <2>3. \/ online' = online /\ gpc'[c].at = "use"
        \/ online' = online + 1 /\ gpc'[c].at = "store"
    BY <1>0, <1>2 DEF AddLooks, Handling, NodeTypes
  <2>4. InTable' = InTable
    BY <2>1 DEF InTable
  <2>5. CASE online' = online /\ gpc'[c].at = "use"
    <3>1. Storing' = Storing
      BY <2>1, <2>2, <2>5 DEF Storing
    <3> QED BY <1>00, <1>01, <2>1, <2>4, <2>5, <3>1
  <2>6. CASE online' = online + 1 /\ gpc'[c].at = "store"
    <3>1. Storing' = Storing \cup {c} /\ c \notin Storing
      BY <2>1, <2>2, <2>6 DEF Storing
    <3>2. Cardinality(Storing') = Cardinality(Storing) + 1
      BY <1>00, <3>1, FS_AddElement
    <3> QED BY <1>00, <1>01, <2>1, <2>4, <2>6, <3>2
  <2> QED BY <2>3, <2>5, <2>6
<1>3. ASSUME NEW c \in Chans, AddSessionWithShard(c) PROVE CountsSessions'
  <2> DEFINE s == gpc[c].s
  <2>1. /\ gpc[c].at = "store" /\ overlap' = overlap /\ misled' = misled /\ online' = online
        /\ sessionOf' = [sessionOf EXCEPT ![s] = gpc[c].o]
        /\ doubled' = IF sessionOf[s] # NoObj THEN doubled + 1 ELSE doubled
    BY <1>3 DEF AddSessionWithShard
  <2>2. gpc'[c].at = "use" /\ \A d \in Chans : d # c => gpc'[d] = gpc[d]
    BY <1>0, <1>3 DEF AddSessionWithShard, Handling, NodeTypes
  <2>3. s \in Sids /\ gpc[c].o \in Objs /\ gpc[c].o # NoObj
    BY <1>0, <2>1 DEF NodeTypes, LinksOK, NoObj
  <2>4. Storing' = Storing \ {c} /\ c \in Storing
    BY <2>1, <2>2 DEF Storing
  <2>5. Cardinality(Storing') = Cardinality(Storing) - 1
    BY <1>00, <2>4, FS_RemoveElement
  <2>6. InTable' = InTable \cup {s}
    BY <1>0, <2>1, <2>3 DEF InTable, NodeTypes
  <2>7. CASE sessionOf[s] # NoObj
    <3>1. s \in InTable
      BY <2>3, <2>7 DEF InTable
    <3>2. InTable' = InTable /\ doubled' = doubled + 1 /\ s \in overlap
      BY <2>1, <2>6, <2>7, <3>1 DEF Alone, Adds
    <3> QED BY <1>00, <1>01, <2>1, <2>5, <3>2
  <2>8. CASE sessionOf[s] = NoObj
    <3>1. s \notin InTable /\ doubled' = doubled
      BY <2>1, <2>8 DEF InTable
    <3>2. Cardinality(InTable') = Cardinality(InTable) + 1
      BY <1>00, <2>6, <3>1, FS_AddElement
    <3> QED BY <1>00, <1>01, <2>1, <2>5, <3>1, <3>2
  <2> QED BY <2>7, <2>8
<1>4. ASSUME NEW c \in Chans, OnSession(c) PROVE CountsSessions'
  <2>1. /\ sessionOf' = sessionOf /\ online' = online /\ doubled' = doubled /\ overlap' = overlap
        /\ misled' = misled \/ (owner[gpc[c].o] # gpc[c].s /\ misled' = misled \cup {gpc[c].s})
        /\ gpc[c].at = "use"
    BY <1>4 DEF OnSession
  <2>2. gpc'[c].at = "no" /\ \A d \in Chans : d # c => gpc'[d] = gpc[d]
    BY <1>0, <1>4 DEF OnSession, NodeTypes, HandlerRests
  <2>3. InTable' = InTable /\ Storing' = Storing
    BY <2>1, <2>2 DEF InTable, Storing
  <2>4. misled' \subseteq overlap'
    BY <1>00, <2>1 DEF Owned
  <2> QED BY <1>00, <1>01, <2>1, <2>3, <2>4
<1>5. ASSUME NEW c \in Chans, RemoveSession(c) PROVE CountsSessions'
  <2> DEFINE s == Head(downLink[c]).s
  <2>1. gpc' = gpc /\ doubled' = doubled /\ misled' = misled /\ overlap \subseteq overlap'
    BY <1>0, <1>5, CrossedFacts DEF RemoveSession
  <2>2. Head(downLink[c]) \in Downward
    BY <1>0, <1>5, WayTakes DEF RemoveSession, MayRun
  <2>3. s \in Sids
    BY <2>2 DEF Downward
  <2>4. Storing' = Storing
    BY <2>1 DEF Storing
  <2>5. CASE sessionOf[s] = NoObj
    <3>1. sessionOf' = sessionOf /\ online' = online
      BY <1>5, <2>5 DEF RemoveSession
    <3>2. InTable' = InTable
      BY <3>1 DEF InTable
    <3> QED BY <1>00, <1>01, <2>1, <2>4, <3>1, <3>2
  <2>6. CASE sessionOf[s] # NoObj
    <3>1. sessionOf' = [sessionOf EXCEPT ![s] = NoObj] /\ online' = online - 1
      BY <1>5, <2>6 DEF RemoveSession
    <3>2. InTable' = InTable \ {s} /\ s \in InTable
      BY <1>0, <2>3, <2>6, <3>1 DEF InTable, NodeTypes
    <3>3. Cardinality(InTable') = Cardinality(InTable) - 1
      BY <1>00, <3>2, FS_RemoveElement
    <3> QED BY <1>00, <1>01, <2>1, <2>4, <3>1, <3>3
  <2> QED BY <2>5, <2>6
<1>6. CASE NodeProcessRestarts
  <2>1. InTable' = {} /\ Storing' = {} /\ online' = 0 /\ doubled' = 0 /\ misled' = misled /\ overlap' = overlap
    BY <1>6 DEF NodeProcessRestarts, InTable, Storing, HandlerRests
  <2>2. Cardinality({}) = 0
    BY FS_EmptySet
  <2> QED BY <1>00, <1>01, <2>1, <2>2
<1>7. CASE NodeKept
  <2>1. InTable' = InTable /\ Storing' = Storing
    BY <1>7 DEF NodeKept, InTable, Storing
  <2> QED BY <1>00, <1>01, <1>7, <2>1 DEF NodeKept
<1> QED BY <1>1, <1>2, <1>3, <1>4, <1>5, <1>6, <1>7, NodeSteps DEF AtNode


-----------------------------------------------------------------------------
\* The news of clients that are gone

\* A step leaves the news of a session alone, or writes down why it was lost.
LEMMA ToldAt ==
    ASSUME NEW s, Told(s),
           Present(s)' => Present(s), IsGone(s)' => IsGone(s) \/ s \in notes',
           s \in untold \cup overlap => s \in untold' \cup overlap',
           s \in notes => s \in notes' \/ (\E c \in Chans : TellsLast(c, s)') \/ s \in untold' \cup overlap',
           \A c \in Chans : TellsLast(c, s) => TellsLast(c, s)' \/ s \in untold' \cup overlap' \/ ~Present(s)'
    PROVE  Told(s)'
<1>1. SUFFICES ASSUME Present(s)', IsGone(s)', s \notin untold' \cup overlap'
               PROVE  s \in notes' \/ \E c \in Chans : TellsLast(c, s)'
  BY DEF Told
<1> QED BY <1>1 DEF Told

\* What is known of a session when the node is left alone.
LEMMA PresentSame ==
    ASSUME UNCHANGED <<downLink, sessionOf, gpc>>
    PROVE  \A s : /\ Present(s)' <=> Present(s)
                  /\ \A c : TellsLast(c, s)' <=> TellsLast(c, s)
BY DEF Present, Busy, News, TellsLast, LastWord

LEMMA PresentDown ==
    ASSUME NEW s, UNCHANGED <<sessionOf, gpc>>, \A d \in Chans : News(d, s)' => News(d, s)
    PROVE  Present(s)' => Present(s)
BY DEF Present, Busy

\* A client of whom the node may have something is bound to it.
BoundInv == \A s \in Sids : Present(s) \/ forwarding[s].at # "no" => s \in boundTo
GoneInv == \A s \in Sids : Told(s)
LEMMA ToldIs == /\ ToldInv <=> BoundInv /\ GoneInv
                /\ ToldInv' <=> BoundInv' /\ GoneInv'
BY DEF ToldInv, BoundInv, GoneInv

\* The steps of the gate and of the clients.
LEMMA ToldGate ==
    ASSUME LinksOK, LinkTypes, ToldInv, NEW s \in Sids, AtGate(s)
    PROVE  ToldInv'
<1>0. DownTypes /\ ChanTypes /\ GateTypes /\ BoundInv /\ GoneInv
  BY ToldIs DEF LinkTypes
<1>1. UNCHANGED <<sessionOf, gpc, overlap>>
  BY DEF AtGate, AddClientConn, ForwardBegins, ForwardChecks, ForwardToLogic, ClientCloses, RemoveClientConn,
         NotifyClientDisconnect, sessVars, histVars
<1>2. CASE AddClientConn(s) \/ ForwardBegins(s) \/ ForwardChecks(s) \/ RemoveClientConn(s)
  <2>1. UNCHANGED <<downLink, notes, untold>>
    BY <1>2 DEF AddClientConn, ForwardBegins, ForwardChecks, RemoveClientConn, histVars
  <2>2. \A t \in Sids : IsGone(t)' => IsGone(t)
    BY <1>0, <1>2 DEF GateTypes, IsGone, AddClientConn, ForwardBegins, ForwardChecks, RemoveClientConn
  <2>3. boundTo \subseteq boundTo' /\ \A t \in Sids : forwarding'[t].at # "no" => forwarding[t].at # "no" \/ t \in boundTo'
    BY <1>0, <1>2 DEF GateTypes, AddClientConn, ForwardBegins, ForwardChecks, RemoveClientConn
  <2>4. \A t : Present(t)' <=> Present(t)
    BY <1>1, <2>1, PresentSame
  <2>5. \A t, c : TellsLast(c, t)' <=> TellsLast(c, t)
    BY <1>1, <2>1, PresentSame
  <2>6. BoundInv'
    BY <1>0, <2>3, <2>4 DEF BoundInv
  <2>7. GoneInv'
    BY <1>0, <1>1, <2>1, <2>2, <2>4, <2>5, ToldAt DEF GoneInv
  <2> QED BY <2>6, <2>7, ToldIs
<1>3. CASE ClientCloses(s)
  <2>1. UNCHANGED <<downLink, untold, boundTo, forwarding>>
    BY <1>3 DEF ClientCloses, histVars
  <2>2. notes \subseteq notes' /\ (s \in boundTo => s \in notes')
    BY <1>3 DEF ClientCloses
  <2>3. \A t \in Sids : t # s => (IsGone(t)' => IsGone(t))
    BY <1>0, <1>3 DEF GateTypes, IsGone, ClientCloses
  <2>4. \A t : Present(t)' <=> Present(t)
    BY <1>1, <2>1, PresentSame
  <2>5. \A t, c : TellsLast(c, t)' <=> TellsLast(c, t)
    BY <1>1, <2>1, PresentSame
  <2>6. BoundInv'
    BY <1>0, <2>1, <2>4 DEF BoundInv
  <2>7. ASSUME NEW t \in Sids PROVE Told(t)'
    <3>1. CASE t = s
      BY <1>0, <2>2, <2>4, <3>1 DEF BoundInv, Told
    <3>2. CASE t # s
      BY <1>0, <1>1, <2>1, <2>2, <2>3, <2>4, <2>5, <3>2, ToldAt DEF GoneInv
    <3> QED BY <3>1, <3>2
  <2> QED BY <2>6, <2>7, ToldIs DEF GoneInv
<1>4. CASE ForwardToLogic(s)
  <2>1. UNCHANGED <<conns, notes, boundTo>> /\ forwarding[s].at = "send" /\ untold \subseteq untold'
    BY <1>4 DEF ForwardToLogic
  <2>2. \A t \in Sids : forwarding'[t].at # "no" => forwarding[t].at # "no"
    BY <1>0, <1>4 DEF ForwardToLogic, GateTypes
  <2>3. CASE UNCHANGED downLink
    <3>1. \A t : Present(t)' <=> Present(t)
      BY <1>1, <2>3, PresentSame
    <3>2. \A t, c : TellsLast(c, t)' <=> TellsLast(c, t)
      BY <1>1, <2>3, PresentSame
    <3>3. BoundInv'
      BY <1>0, <2>1, <2>2, <3>1 DEF BoundInv
    <3>4. GoneInv'
      BY <1>0, <1>1, <2>1, <3>1, <3>2, ToldAt DEF GoneInv, IsGone
    <3> QED BY <3>3, <3>4, ToldIs
  <2>4. CASE ~UNCHANGED downLink
    <3> DEFINE m == [t |-> "c2s", s |-> s]
    <3>1. forwarding[s].c \in Chans /\ m \in Downward
      BY <1>0, <2>1 DEF GateTypes, Downward
    <3>2. downLink' = Put(downLink, forwarding[s].c, m) /\ (conns[s] # "open" /\ s \notin notes => s \in untold')
      BY <1>4, <2>4 DEF ForwardToLogic
    <3>3. /\ \A d \in Chans, t \in Sids : News(d, t)' => News(d, t) \/ t = s
          /\ \A d \in Chans, t \in Sids : TellsLast(d, t) /\ t # s => TellsLast(d, t)'
      BY <1>0, <3>1, <3>2, WayAppends
    <3>4. \A t \in Sids : t # s => (Present(t)' => Present(t))
      BY <1>1, <3>3, PresentDown
    <3>5. BoundInv'
      BY <1>0, <2>1, <2>2, <3>4 DEF BoundInv
    <3>6. ASSUME NEW t \in Sids PROVE Told(t)'
      <4>1. CASE t = s
        BY <2>1, <3>2, <4>1 DEF Told, IsGone
      <4>2. CASE t # s
        BY <1>0, <1>1, <2>1, <3>3, <3>4, <4>2, ToldAt DEF GoneInv, IsGone
      <4> QED BY <4>1, <4>2
    <3> QED BY <3>5, <3>6, ToldIs DEF GoneInv
  <2> QED BY <2>3, <2>4
<1>5. CASE NotifyClientDisconnect(s)
  <2>1. UNCHANGED <<conns, boundTo, forwarding>> /\ notes' = notes \ {s}
    BY <1>5 DEF NotifyClientDisconnect
  <2>2. CASE s \in untold' /\ UNCHANGED downLink
    <3>1. untold \subseteq untold'
      BY <1>5 DEF NotifyClientDisconnect
    <3>2. \A t : Present(t)' <=> Present(t)
      BY <1>1, <2>2, PresentSame
    <3>3. \A t, c : TellsLast(c, t)' <=> TellsLast(c, t)
      BY <1>1, <2>2, PresentSame
    <3>4. BoundInv'
      BY <1>0, <2>1, <3>2 DEF BoundInv
    <3>5. GoneInv'
      BY <1>0, <1>1, <2>1, <2>2, <3>1, <3>2, <3>3, ToldAt DEF GoneInv, IsGone
    <3> QED BY <3>4, <3>5, ToldIs
  <2>3. CASE ~(s \in untold' /\ UNCHANGED downLink)
    <3> DEFINE m == [t |-> "gone", s |-> s]
    <3>1. Towards(s) # NoChan /\ untold' = untold /\ downLink' = Put(downLink, Towards(s), m)
      BY <1>5, <2>3 DEF NotifyClientDisconnect
    <3>2. PICK c \in Chans : c = Towards(s)
      BY <1>0, <3>1, TowardsChans
    <3>3. m \in Downward /\ downLink' = Put(downLink, c, m)
      BY <3>1, <3>2 DEF Downward
    <3>4. /\ \A d \in Chans, t \in Sids : News(d, t)' => News(d, t)
          /\ \A d \in Chans, t \in Sids : TellsLast(d, t) => TellsLast(d, t)'
          /\ TellsLast(c, s)'
      BY <1>0, <3>3, WayAppends
    <3>5. \A t \in Sids : Present(t)' => Present(t)
      BY <1>1, <3>4, PresentDown
    <3>6. BoundInv'
      BY <1>0, <2>1, <3>5 DEF BoundInv
    <3>7. GoneInv'
      BY <1>0, <1>1, <2>1, <3>1, <3>4, <3>5, ToldAt DEF GoneInv, IsGone
    <3> QED BY <3>6, <3>7, ToldIs
  <2> QED BY <2>2, <2>3
<1> QED BY <1>2, <1>3, <1>4, <1>5 DEF AtGate


\* The steps of the logic node.
LEMMA ToldNode ==
    ASSUME LinksOK, LinkTypes, ToldInv, NEW c \in Chans, AtNode(c)
    PROVE  ToldInv'
<1>0. DownTypes /\ NodeTypes /\ BoundInv /\ GoneInv
  BY ToldIs DEF LinkTypes
<1>1. UNCHANGED <<conns, notes, boundTo, forwarding, untold>>
  BY DEF AtNode, OnC2S, AddLooks, AddSessionWithShard, OnSession, RemoveSession, gateVars, histVars
<1>2. ASSUME \A t \in Sids : Present(t)' => Present(t), overlap \subseteq overlap',
             \A t \in Sids : \A d \in Chans :
               TellsLast(d, t) => TellsLast(d, t)' \/ t \in overlap' \/ ~Present(t)'
      PROVE  ToldInv'
  <2>1. BoundInv'
    BY <1>0, <1>1, <1>2 DEF BoundInv
  <2>2. GoneInv'
    BY <1>0, <1>1, <1>2, ToldAt DEF GoneInv, IsGone
  <2> QED BY <2>1, <2>2, ToldIs
<1>3. CASE OnC2S(c)
  <2> DEFINE s == Head(downLink[c]).s
  <2>1. /\ sessionOf' = sessionOf /\ overlap' = Crossed(c, s) /\ downLink[c] # <<>> /\ Head(downLink[c]).t = "c2s"
        /\ downLink' = [downLink EXCEPT ![c] = Tail(@)]
    BY <1>3 DEF OnC2S, MayRun
  <2>2. gpc'[c].s = s /\ \A d \in Chans : d # c => gpc'[d] = gpc[d]
    BY <1>0, <1>3 DEF OnC2S, Handling, NodeTypes
  <2>3. /\ Head(downLink[c]) \in Downward
        /\ \A d \in Chans, t \in Sids : News(d, t)' => News(d, t)
        /\ \A d \in Chans, t \in Sids : TellsLast(d, t) => TellsLast(d, t)'
        /\ \A t \in Sids : s = t => News(c, t)
    BY <1>0, <2>1, WayTakes
  <2>4. overlap \subseteq overlap'
    BY <1>0, <2>1, CrossedFacts
  <2> HIDE DEF s
  <2>5. \A t \in Sids : Present(t)' => Present(t)
    BY <2>1, <2>2, <2>3 DEF Present, Busy
  <2> QED BY <1>2, <2>3, <2>4, <2>5
<1>4. CASE AddLooks(c)
  <2>1. sessionOf' = sessionOf /\ overlap' = overlap /\ downLink' = downLink /\ gpc[c].at = "add"
    BY <1>4 DEF AddLooks, histVars
  <2>2. gpc'[c].s = gpc[c].s /\ \A d \in Chans : d # c => gpc'[d] = gpc[d]
    BY <1>0, <1>4 DEF AddLooks, Handling, NodeTypes
  <2>3. \A t \in Sids : Present(t)' => Present(t)
    BY <2>1, <2>2 DEF Present, Busy, News
  <2> QED BY <1>2, <2>1, <2>3, WaySame
<1>5. CASE AddSessionWithShard(c)
  <2>1. /\ sessionOf' = [sessionOf EXCEPT ![gpc[c].s] = gpc[c].o] /\ overlap' = overlap /\ downLink' = downLink
        /\ gpc[c].at = "store"
    BY <1>5 DEF AddSessionWithShard
  <2>2. gpc'[c].s = gpc[c].s /\ \A d \in Chans : d # c => gpc'[d] = gpc[d]
    BY <1>0, <1>5 DEF AddSessionWithShard, Handling, NodeTypes
  <2>3. \A t \in Sids : sessionOf'[t] = sessionOf[t] \/ Busy(c, t)
    BY <1>0, <2>1 DEF Busy, NodeTypes
  <2>4. \A t \in Sids : Present(t)' => Present(t)
    BY <2>1, <2>2, <2>3 DEF Present, Busy, News
  <2> QED BY <1>2, <2>1, <2>4, WaySame
<1>6. CASE OnSession(c)
  <2>1. sessionOf' = sessionOf /\ overlap' = overlap /\ downLink' = downLink
    BY <1>6 DEF OnSession
  <2>2. gpc'[c].at = "no" /\ \A d \in Chans : d # c => gpc'[d] = gpc[d]
    BY <1>0, <1>6 DEF OnSession, NodeTypes, HandlerRests
  <2>3. \A t \in Sids : Present(t)' => Present(t)
    BY <2>1, <2>2 DEF Present, Busy, News
  <2> QED BY <1>2, <2>1, <2>3, WaySame
<1>7. CASE RemoveSession(c)
  <2>0. /\ downLink[c] # <<>> /\ Head(downLink[c]).t = "gone"
        /\ downLink' = [downLink EXCEPT ![c] = Tail(@)]
    BY <1>7 DEF RemoveSession, MayRun
  <2>1. Head(downLink[c]) \in Downward
    BY <1>0, <2>0, WayTakes
  <2>3. PICK s \in Sids : s = Head(downLink[c]).s
    BY <2>1 DEF Downward
  <2>2. /\ \A d \in Chans, t \in Sids : News(d, t)' => News(d, t)
        /\ \A d \in Chans, t \in Sids : TellsLast(d, t) /\ ~(d = c /\ s = t) => TellsLast(d, t)'
        /\ TellsLast(c, s) => TellsLast(c, s)' \/ ~News(c, s)'
        /\ gpc' = gpc /\ gpc[c].at = "no" /\ overlap' = Crossed(c, s)
    <3>1. gpc' = gpc /\ gpc[c].at = "no" /\ overlap' = Crossed(c, s)
      BY <1>7, <2>3 DEF RemoveSession, MayRun
    <3> QED BY <1>0, <2>0, <2>3, <3>1, WayTakes
  <2>4. overlap \subseteq overlap' /\ \A d \in Chans : d # c /\ (Busy(d, s) \/ TellsLast(d, s)) => s \in overlap'
    BY <1>0, <2>2, CrossedFacts
  <2>5. sessionOf'[s] = NoObj /\ \A t \in Sids : sessionOf'[t] # NoObj => sessionOf[t] # NoObj
    <3>1. CASE sessionOf[s] = NoObj
      BY <1>7, <2>3, <3>1 DEF RemoveSession
    <3>2. CASE sessionOf[s] # NoObj
      <4>1. sessionOf' = [sessionOf EXCEPT ![s] = NoObj]
        BY <1>7, <2>3, <3>2 DEF RemoveSession
      <4> QED BY <1>0, <2>3, <4>1 DEF NodeTypes
    <3> QED BY <3>1, <3>2
  <2>6. \A t \in Sids : Present(t)' => Present(t)
    BY <2>2, <2>5 DEF Present, Busy
  \* Another channel that still has something of the session crosses this one.
  <2>7. \A d \in Chans : d # c /\ News(d, s) => s \in overlap'
    <3>1. \A d \in Chans : DOMAIN downLink[d] = 1..Len(downLink[d])
      BY <1>0, LenProperties DEF DownTypes
    <3> QED BY <2>2, <3>1 DEF Crossed, Crosses, News
  <2>8. TellsLast(c, s) => TellsLast(c, s)' \/ s \in overlap' \/ ~Present(s)'
    <3>1. SUFFICES ASSUME TellsLast(c, s), s \notin overlap', ~News(c, s)'
                   PROVE  ~Present(s)'
      BY <2>2, <2>3
    <3>2. \A d \in Chans : ~News(d, s)'
      BY <2>2, <2>3, <2>7, <3>1
    <3>3. \A d \in Chans : ~Busy(d, s)'
      BY <2>2, <2>4, <3>1 DEF Busy
    <3> QED BY <2>5, <3>2, <3>3 DEF Present
  <2>9. \A t \in Sids : \A d \in Chans :
          TellsLast(d, t) => TellsLast(d, t)' \/ t \in overlap' \/ ~Present(t)'
    BY <2>2, <2>8
  <2> QED BY <1>2, <2>4, <2>6, <2>9
<1> QED BY <1>3, <1>4, <1>5, <1>6, <1>7 DEF AtNode

LEMMA ToldStep ==
    ASSUME LinksOK, LinkTypes, ToldInv, LinkNext
    PROVE  ToldInv'
<1>0. DownTypes /\ GateTypes /\ BoundInv /\ GoneInv
  BY ToldIs DEF LinkTypes
<1>1. ASSUME UNCHANGED <<downLink, sessionOf, gpc, overlap, untold, conns, notes, boundTo, forwarding>> PROVE ToldInv'
  <2>1. \A t : Present(t)' <=> Present(t)
    BY <1>1, PresentSame
  <2>2. \A t, c : TellsLast(c, t)' <=> TellsLast(c, t)
    BY <1>1, PresentSame
  <2> QED BY <1>1, <2>1, <2>2 DEF ToldInv, Told, IsGone
<1>2. ASSUME NEW s \in Sids, NotifyClientLoginLogout(s) \/ CloseClient(s)
      PROVE  UNCHANGED <<downLink, sessionOf, gpc, overlap, untold, conns, notes, boundTo, forwarding>>
  BY <1>2 DEF NotifyClientLoginLogout, CloseClient, gateVars, sessVars, histVars
<1>3. ASSUME NEW msgs, SendsAll(msgs)
      PROVE  UNCHANGED <<downLink, sessionOf, gpc, overlap, untold, conns, notes, boundTo, forwarding>>
  BY <1>3 DEF SendsAll, gateVars, sessVars
<1>4. ASSUME NEW c \in Chans, OnRegister(c) \/ OnS2Clients(c) \/ OnClientLoginLogout(c)
      PROVE  UNCHANGED <<downLink, sessionOf, gpc, overlap, untold, conns, notes, boundTo, forwarding>>
  BY <1>4 DEF OnRegister, OnS2Clients, OnClientLoginLogout, gateVars, sessVars, histVars
<1>5. registerToGatewayRpc => UNCHANGED <<downLink, sessionOf, gpc, overlap, untold, conns, notes, boundTo, forwarding>>
  BY DEF registerToGatewayRpc, gateVars, sessVars, histVars
<1>6. ASSUME NEW c \in Chans, OnCloseClient(c) PROVE ToldInv'
  <2>1. UNCHANGED <<downLink, sessionOf, gpc, overlap, untold, boundTo, forwarding>>
    BY <1>6 DEF OnCloseClient, sessVars, histVars
  <2>2. UpTypes /\ LinkHandled(c) /\ Head(upLink[c]).t = "close"
    BY <1>6 DEF LinkTypes, OnCloseClient
  <2>3. Head(upLink[c]) \in Upward /\ Head(upLink[c]).to # {}
    BY <2>2, UpTakes
  <2>4. PICK s \in Sids : s \in Head(upLink[c]).to
    BY <2>3 DEF Upward
  <2>5. CloseConn(s)
    BY <1>6, <2>4 DEF OnCloseClient
  <2>6. /\ notes \subseteq notes' /\ \A t \in Sids : t # s => (IsGone(t)' => IsGone(t))
        /\ IsGone(s)' => IsGone(s) \/ (s \in boundTo => s \in notes')
    BY <1>0, <2>5 DEF CloseConn, IsGone, GateTypes
  <2>7. \A t : Present(t)' <=> Present(t)
    BY <2>1, PresentSame
  <2>8. \A t, d : TellsLast(d, t)' <=> TellsLast(d, t)
    BY <2>1, PresentSame
  <2>9. BoundInv'
    BY <1>0, <2>1, <2>7 DEF BoundInv
  <2>10. ASSUME NEW t \in Sids PROVE Told(t)'
    <3>1. CASE Present(t)
      <4>1. t \in boundTo
        BY <1>0, <3>1 DEF BoundInv
      <4>2. IsGone(t)' => IsGone(t) \/ t \in notes'
        BY <2>6, <4>1
      <4> QED BY <1>0, <2>1, <2>6, <2>7, <2>8, <4>2, ToldAt DEF GoneInv
    <3>2. CASE ~Present(t)
      BY <2>7, <3>2 DEF Told
    <3> QED BY <3>1, <3>2
  <2> QED BY <2>9, <2>10, ToldIs DEF GoneInv
<1>7. CASE LinkBreaks
  <2>1. PICK c \in Chans : Loses(c)
    BY <1>7 DEF LinkBreaks, LinkTypes, ChanTypes
  <2>2. PICK pd \in Prefixes(downLink[c]) :
          downLink' = [downLink EXCEPT ![c] = pd] /\ untold' = untold \cup MissedDown(downLink[c], pd)
    BY <2>1 DEF Loses
  <2>3. UNCHANGED <<sessionOf, gpc, overlap, conns, notes, boundTo, forwarding>>
    BY <1>7 DEF LinkBreaks, gateVars, sessVars
  <2>4. /\ \A d \in Chans, s \in Sids : News(d, s)' => News(d, s)
        /\ \A d \in Chans, s \in Sids : TellsLast(d, s) => TellsLast(d, s)' \/ s \in untold'
    BY <1>0, <2>2, WayBreaks
  <2>5. \A t \in Sids : Present(t)' => Present(t)
    BY <2>3, <2>4, PresentDown
  <2>6. BoundInv'
    BY <1>0, <2>3, <2>5 DEF BoundInv
  <2>7. GoneInv'
    BY <1>0, <2>2, <2>3, <2>4, <2>5, ToldAt DEF GoneInv, IsGone
  <2> QED BY <2>6, <2>7, ToldIs
<1>8. CASE NodeProcessRestarts
  <2>1. UNCHANGED <<boundTo, forwarding>>
    BY <1>8 DEF NodeProcessRestarts, gateVars
  <2>2. /\ \A s \in Sids : sessionOf'[s] = NoObj
        /\ \A c \in Chans : gpc'[c].at = "no" /\ DOMAIN downLink'[c] = {}
    BY <1>8 DEF NodeProcessRestarts, HandlerRests
  <2>3. \A s \in Sids : ~Present(s)'
    BY <2>2 DEF Present, Busy, News
  <2>4. BoundInv'
    BY <1>0, <2>1, <2>3 DEF BoundInv
  <2>5. GoneInv'
    BY <2>3 DEF GoneInv, Told
  <2> QED BY <2>4, <2>5, ToldIs
<1> QED BY <1>1, <1>2, <1>3, <1>4, <1>5, <1>6, <1>7, <1>8, ToldGate, ToldNode
        DEF LinkNext, AtGate, AtNode, ForwardToClient, ForwardToClients, SendToClients


-----------------------------------------------------------------------------
\* What clients were sent

LEMMA ConnsGrow ==
    ASSUME LinkTypes, LinkNext
    PROVE  \A s \in Sids : (conns[s] # "none" => conns'[s] # "none") /\ (IsGone(s) => IsGone(s)')
<1>0. GateTypes
  BY DEF LinkTypes
<1>1. ASSUME NEW s \in Sids, AtGate(s) PROVE conns' = conns \/ \E a \in {"open", "told", "gone"} :
        conns' = [conns EXCEPT ![s] = a] /\ (a = "open" => conns[s] = "none")
  BY <1>1 DEF AtGate, AddClientConn, ForwardBegins, ForwardChecks, ForwardToLogic, ClientCloses, RemoveClientConn,
              NotifyClientDisconnect
<1>2. ASSUME NEW c \in Chans, NEW s \in Sids, Closes(c, s)
      PROVE  conns' = conns \/ conns' = [conns EXCEPT ![s] = "told"]
  BY <1>2 DEF Closes, CloseConn
<1>3. GateKept => conns' = conns
  BY DEF GateKept
<1> QED BY <1>0, <1>1, <1>2, <1>3, GateSteps DEF GateTypes, IsGone

\* What was owed before a step is still in sight if its message is.
LEMMA SentKept ==
    ASSUME LinkTypes, LinkNext, SentInv, NEW o \in sentTo, gotTo \subseteq gotTo',
           \A c \in Chans : OnWay(c, o) => OnWay(c, o)' \/ o \in gotTo' \/ (o[2] \in Sids /\ IsGone(o[2])')
    PROVE  (o[2] \in Sids => conns'[o[2]] # "none") /\ InSight(o)'
BY ConnsGrow DEF SentInv, InSight

LEMMA SentSame ==
    ASSUME LinkTypes, LinkNext, SentInv, sentTo' \subseteq sentTo, gotTo \subseteq gotTo',
           \A o \in sentTo' : \A c \in Chans :
             OnWay(c, o) => OnWay(c, o)' \/ o \in gotTo' \/ (o[2] \in Sids /\ IsGone(o[2])')
    PROVE  SentInv'
<1>1. ASSUME NEW o \in sentTo' PROVE (o[2] \in Sids => conns'[o[2]] # "none") /\ InSight(o)'
  BY <1>1, SentKept
<1> QED BY <1>1 DEF SentInv

LEMMA SentStep ==
    ASSUME LinksOK, LinkTypes, SentInv, LinkNext
    PROVE  SentInv'
<1>0. /\ UpTypes /\ calls \in Nat /\ latest \in Chans /\ GateTypes
      /\ sentTo \subseteq Nat \X (Sids \cup {Hook})
      /\ \A s \in Sids : Back(s) \in Chans
  BY DEF LinksOK, LinkTypes, HistTypes, ChanTypes, Back
<1>1. ASSUME UNCHANGED <<upLink, sentTo, gotTo>> PROVE SentInv'
  <2>1. \A c, o : OnWay(c, o)' <=> OnWay(c, o)
    BY <1>1, UpSame
  <2> QED BY <1>1, <2>1, SentSame
<1>2. ASSUME NEW s \in Sids, AtGate(s) PROVE UNCHANGED <<upLink, sentTo, gotTo>>
  BY <1>2 DEF AtGate, AddClientConn, ForwardBegins, ForwardChecks, ForwardToLogic, ClientCloses, RemoveClientConn,
              NotifyClientDisconnect, histVars
<1>3. ASSUME NEW c \in Chans, AtNode(c) PROVE UNCHANGED <<upLink, sentTo, gotTo>>
  BY <1>3 DEF AtNode, OnC2S, AddLooks, AddSessionWithShard, OnSession, RemoveSession, histVars
<1>4. ASSUME NEW B \in SUBSET Batches, SendsAll(B) PROVE SentInv'
  <2>1. PICK n \in Nat : n = calls'
    BY <1>0, <1>4 DEF SendsAll
  <2>2. /\ \A d \in Chans : \A o : OnWay(d, o) => OnWay(d, o)'
        /\ \A m \in B : \A s \in m[2] : OnWay(m[1], <<n, s>>)'
    BY <1>0, <1>4, <2>1, UpSends
  <2>3. /\ sentTo' = sentTo \cup {<<n, s>> : s \in {r \in UNION {m[2] : m \in B} : conns[r] = "open"}}
        /\ gotTo' = gotTo /\ conns' = conns
    BY <1>4, <2>1 DEF SendsAll, gateVars
  <2>4. ASSUME NEW o \in sentTo PROVE (o[2] \in Sids => conns'[o[2]] # "none") /\ InSight(o)'
    BY <2>2, <2>3, SentKept
  <2>5. ASSUME NEW m \in B, NEW s \in m[2], conns[s] = "open", NEW o, o = <<n, s>>
        PROVE  (o[2] \in Sids => conns'[o[2]] # "none") /\ InSight(o)'
    <3>1. m[1] \in Chans /\ OnWay(m[1], o)'
      BY <2>2, <2>5 DEF Batches
    <3> QED BY <2>3, <2>5, <3>1 DEF InSight
  <2>6. \A o \in sentTo' : o \in sentTo \/ \E m \in B : \E s \in m[2] : conns[s] = "open" /\ o = <<n, s>>
    BY <2>3
  <2> QED BY <2>4, <2>5, <2>6 DEF SentInv
<1>5. ASSUME NEW c \in Chans, NEW m \in Upward, m.t = "close" => m.to # {}, NodeSays(c, m),
             sentTo' = sentTo, gotTo' = gotTo
      PROVE  SentInv'
  <2>1. \A d \in Chans : \A o : OnWay(d, o) => OnWay(d, o)'
    <3>1. CASE upLink' = upLink
      BY <3>1, UpSame
    <3>2. CASE upLink' = Put(upLink, c, m)
      BY <1>0, <1>5, <3>2, UpAppends
    <3> QED BY <1>5, <3>1, <3>2 DEF NodeSays
  <2> QED BY <1>5, <2>1, SentSame
<1>6. CASE registerToGatewayRpc
  <2>1. [t |-> "reg", to |-> {}, n |-> 0] \in Upward
    BY DEF Upward
  <2> QED BY <1>0, <1>5, <1>6, <2>1 DEF registerToGatewayRpc, histVars
<1>7. ASSUME NEW s \in Sids, CloseClient(s) PROVE SentInv'
  <2>1. calls' \in Nat /\ NodeSays(Back(s), [t |-> "close", to |-> {s}, n |-> calls']) /\ sentTo' = sentTo /\ gotTo' = gotTo
    BY <1>0, <1>7 DEF CloseClient, histVars
  <2>2. [t |-> "close", to |-> {s}, n |-> calls'] \in Upward
    BY <2>1 DEF Upward
  <2>3. PICK c \in Chans, m \in Upward : c = Back(s) /\ m = [t |-> "close", to |-> {s}, n |-> calls']
    BY <1>0, <2>2
  <2>4. NodeSays(c, m) /\ m.to # {}
    BY <2>1, <2>3
  <2> QED BY <1>5, <2>1, <2>4
<1>8. ASSUME NEW s \in Sids, NotifyClientLoginLogout(s) PROVE SentInv'
  <2>1. PICK c \in Chans, n \in Nat : c = Back(s) /\ n = calls'
    BY <1>0, <1>8 DEF NotifyClientLoginLogout
  <2> DEFINE m == [t |-> "login", to |-> {s}, n |-> n]
  <2>2. upLink' = Put(upLink, c, m) /\ sentTo' = sentTo \cup {<<n, Hook>>} /\ gotTo' = gotTo
    BY <1>8, <2>1 DEF NotifyClientLoginLogout, NodeSays
  <2>3. m \in Upward /\ m.t # "close"
    BY DEF Upward
  <2>4. PICK p : p = <<n, Hook>>
    OBVIOUS
  <2>5. Carries(m, p)
    BY <2>4 DEF Carries
  <2>6. (\A d \in Chans : \A o : OnWay(d, o) => OnWay(d, o)') /\ OnWay(c, p)'
    BY <1>0, <2>2, <2>3, <2>5, UpAppends
  <2>7. ASSUME NEW o \in sentTo PROVE (o[2] \in Sids => conns'[o[2]] # "none") /\ InSight(o)'
    BY <2>2, <2>6, SentKept
  <2>8. InSight(p)' /\ p[2] \notin Sids
    BY <2>4, <2>6 DEF InSight, LinksOK
  <2> QED BY <2>2, <2>4, <2>7, <2>8 DEF SentInv
<1>9. ASSUME NEW c \in Chans, OnRegister(c) \/ OnS2Clients(c) \/ OnClientLoginLogout(c) \/ OnCloseClient(c)
      PROVE  SentInv'
  <2> DEFINE m == Head(upLink[c])
  <2>1. LinkHandled(c) /\ sentTo' = sentTo /\ gotTo \subseteq gotTo'
    BY <1>9 DEF OnRegister, OnS2Clients, OnClientLoginLogout, OnCloseClient, histVars
  <2>2. \A d \in Chans : \A o : OnWay(d, o) => OnWay(d, o)' \/ Carries(m, o)
    BY <1>0, <2>1, UpTakes
  <2>3. ASSUME NEW o \in sentTo, Carries(m, o) PROVE o \in gotTo' \/ (o[2] \in Sids /\ IsGone(o[2])')
    <3>1. o = <<o[1], o[2]>> /\ o[2] \in Sids \cup {Hook}
      BY <1>0
    <3>2. CASE OnRegister(c) \/ OnCloseClient(c)
      BY <2>3, <3>2 DEF OnRegister, OnCloseClient, Carries
    <3>3. CASE OnClientLoginLogout(c)
      BY <2>3, <3>1, <3>3 DEF OnClientLoginLogout, Carries
    <3>4. CASE OnS2Clients(c)
      <4>1. m.t = "s2c" /\ o[2] \in m.to /\ m.n = o[1]
        BY <2>3, <3>4 DEF OnS2Clients, Carries
      <4>2. m \in Upward
        BY <1>0, <2>1, UpTakes
      <4>3. o[2] \in Sids /\ conns[o[2]] # "none" /\ conns'[o[2]] = conns[o[2]]
        BY <3>4, <4>1, <4>2 DEF Upward, SentInv, OnS2Clients, gateVars
      <4>4. CASE GetConn(o[2])
        BY <3>1, <3>4, <4>1, <4>4 DEF OnS2Clients, Delivers
      <4>5. CASE ~GetConn(o[2])
        BY <1>0, <4>3, <4>5 DEF GetConn, GateTypes, IsGone
      <4> QED BY <4>4, <4>5
    <3> QED BY <1>9, <3>2, <3>3, <3>4
  <2> QED BY <2>1, <2>2, <2>3, SentSame
<1>10. ASSUME NEW c \in Chans, NEW pu \in Prefixes(upLink[c]), upLink' = [upLink EXCEPT ![c] = pu],
              sentTo' = sentTo \ MissedUp(upLink[c], pu), gotTo' = gotTo
       PROVE  SentInv'
  <2>1. \A d \in Chans, o \in Nat \X (Sids \cup {Hook}) :
          OnWay(d, o) => OnWay(d, o)' \/ o \in MissedUp(upLink[c], pu)
    BY <1>0, <1>10, UpBreaks
  <2>2. \A o \in sentTo' : o \in sentTo /\ o \in Nat \X (Sids \cup {Hook}) /\ o \notin MissedUp(upLink[c], pu)
    BY <1>0, <1>10
  <2> QED BY <1>10, <2>1, <2>2, SentSame
<1>11. CASE LinkBreaks
  BY <1>0, <1>10, <1>11 DEF LinkBreaks, Loses
<1>12. CASE NodeProcessRestarts
  BY <1>0, <1>10, <1>12 DEF NodeProcessRestarts
<1> QED BY <1>1, <1>2, <1>3, <1>4, <1>6, <1>7, <1>8, <1>9, <1>11, <1>12, CallsAre DEF LinkNext, AtGate, AtNode

-----------------------------------------------------------------------------
\* The theorem

LEMMA LinkInvInit ==
    ASSUME LinksOK, LinkInit
    PROVE  LinkInv
<1>1. LinkTypes
  BY TypesInit
<1>2. Alone /\ Owned
  BY DEF LinkInit, Alone, Owned, Busy, Adds, Stores, HandlerRests
<1>3. CountsSessions
  <2>1. {s \in Sids : sessionOf[s] # NoObj} = {} /\ {c \in Chans : gpc[c].at = "store"} = {}
    BY DEF LinkInit, HandlerRests
  <2>2. Cardinality({}) = 0
    BY FS_EmptySet
  <2>3. online = 0 /\ doubled = 0 /\ misled = {}
    BY DEF LinkInit
  <2>4. Cardinality({s \in Sids : sessionOf[s] # NoObj}) = 0 /\ Cardinality({c \in Chans : gpc[c].at = "store"}) = 0
    BY <2>1, <2>2, Zenon
  <2>5. misled \subseteq overlap /\ ~(doubled > 0)
    BY <2>3
  <2> QED BY <2>3, <2>4, <2>5 DEF CountsSessions
<1>4. ToldInv
  <2>1. \A s \in Sids : ~Present(s) /\ forwarding[s].at = "no"
    BY DEF LinkInit, Present, Busy, News, HandlerRests
  <2> QED BY <2>1 DEF ToldInv, Told
<1>5. SentInv
  BY DEF LinkInit, SentInv
<1> QED BY <1>1, <1>2, <1>3, <1>4, <1>5 DEF LinkInv

LEMMA LinkInvStep ==
    ASSUME LinksOK, LinkInv, LinkNext
    PROVE  LinkInv'
BY TypesStep, AloneStep, OwnedStep, CountsStep, ToldStep, SentStep DEF LinkInv

LEMMA LinkInvStutter ==
    ASSUME LinkInv, UNCHANGED linkVars
    PROVE  LinkInv'
<1>1. UNCHANGED <<linkKind, upLink, downLink, linkOpen, registered, asks, latest, calls, breaks>>
      /\ UNCHANGED <<conns, sends, boundTo, forwarding, notes>> /\ UNCHANGED <<sessionOf, owner, online, gpc>>
      /\ UNCHANGED <<sentTo, gotTo, untold, overlap, doubled, misled>>
  BY DEF linkVars, gateVars, sessVars, histVars
<1>2. LinkTypes'
  BY <1>1 DEF LinkInv, LinkTypes, DownTypes, UpTypes, ChanTypes, GateTypes, NodeTypes, HistTypes
<1>3. Alone' /\ Owned'
  BY <1>1 DEF LinkInv, Alone, Owned, Busy, Adds, Stores
<1>4. CountsSessions'
  BY <1>1 DEF LinkInv, CountsSessions
<1>5. ToldInv'
  BY <1>1 DEF LinkInv, ToldInv, Told, Present, Busy, News, IsGone, TellsLast, LastWord
<1>6. SentInv'
  BY <1>1 DEF LinkInv, SentInv, InSight, OnWay, Carries, IsGone
<1> QED BY <1>2, <1>3, <1>4, <1>5, <1>6 DEF LinkInv

LEMMA InvHolds ==
    ASSUME LinksOK, LinkInv
    PROVE  SessionsHold
<1>0. NodeTypes /\ GateTypes
  BY DEF LinkInv, LinkTypes
<1>1. SessionsGo
  <2>1. SUFFICES ASSUME LinkSettled, NEW s \in Sids, conns[s] = "gone", sessionOf[s] # NoObj, s \notin untold \cup overlap
                 PROVE  FALSE
    BY DEF SessionsGo
  <2>2. Present(s) /\ IsGone(s)
    BY <2>1 DEF Present, IsGone
  <2>3. s \in notes \/ \E c \in Chans : TellsLast(c, s)
    BY <2>1, <2>2 DEF LinkInv, ToldInv, Told
  <2>4. notes = {} /\ \A c \in Chans : DOMAIN downLink[c] = {}
    BY <2>1 DEF LinkSettled
  <2> QED BY <2>3, <2>4 DEF TellsLast
<1>2. SentArrives
  <2>1. SUFFICES ASSUME LinkSettled, NEW o \in sentTo, o \notin gotTo
                 PROVE  o[2] \in Sids /\ conns[o[2]] # "open"
    BY DEF SentArrives
  <2>2. \A c \in Chans : ~OnWay(c, o)
    BY <2>1 DEF LinkSettled, OnWay
  <2> QED BY <2>1, <2>2 DEF LinkInv, SentInv, InSight, IsGone
<1> QED BY <1>1, <1>2 DEF SessionsHold, LinkInv

\* Over every transport: the logic node's counter is the number of its sessions, but for those
\* added twice, which takes two channels with news of one session (gametrans/session.go); once
\* everything is handled it keeps no session of a client that is gone, unless the news was lost
\* or overtaken; and clients that stayed have what they were sent on channels that stayed.
THEOREM SessionsHoldAlways ==
  ASSUME LinksOK
  PROVE  LinkSpec => []SessionsHold
<1>1. LinkInit => LinkInv
  BY LinkInvInit
<1>2. LinkInv /\ [LinkNext]_linkVars => LinkInv'
  BY LinkInvStep, LinkInvStutter
<1>3. LinkInv => SessionsHold
  BY InvHolds
<1> QED
  BY <1>1, <1>2, <1>3, PTL DEF LinkSpec
=============================================================================
