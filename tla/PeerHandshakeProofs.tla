-------------------------- MODULE PeerHandshakeProofs --------------------------
(***************************************************************************)
(* The roles two clients take fit together, for any numbers and any count  *)
(* of connections.  Over NMDC each side decides with what it knows when    *)
(* the other's $Direction arrives; the invariant relates that message to   *)
(* what its sender has become meanwhile.  Over ADC the side that asked     *)
(* never uploads.                                                          *)
(***************************************************************************)
EXTENDS PeerHandshake, SequenceTheorems, TLAPS

Spoken == IF protocol = "NMDC" THEN {"MyNick", "Lock", "Direction", "Key", "EOF"}
                               ELSE {"SUP", "INF", "EOF"}

Phases == IF protocol = "NMDC"
          THEN {"none", "SUPNICK", "LOCK", "DIRECTION", "KEY", "added", "gone"}
          ELSE {"none", "SUPNICK", "INF", "unassigned", "added", "gone"}

Roles == {"none", "DOWNLOAD", "UPLOAD"}

Messages == [kind : Spoken, dir : Roles \cup {"-"}, num : Nat]

TypeInv ==
    /\ protocol \in {"NMDC", "ADC"} /\ asker \in Sides
    /\ item \in [Sides -> {"none", "WAITING", "CONNECTING", "ACTIVE"}]
    /\ phase \in [Sides -> Phases] /\ role \in [Sides -> Roles]
    /\ number \in [Sides -> Nat]
    /\ chan \in [Sides -> Seq(Messages)]
    /\ rounds \in Nat

Late == {"KEY", "added"}
Firm == {"DIRECTION", "KEY", "added"}

\* Where the peer's $Direction is among the messages on their way to s.
Directed(s) == {i \in 1..Len(chan[s]) : chan[s][i].kind = "Direction"}

\* What s becomes, when it wants `mine` and hears that its peer wants `theirs`.
Resolved(s, mine, theirs) ==
    IF mine = "DOWNLOAD" /\ theirs = "DOWNLOAD" /\ number[s] < number[Other(s)]
    THEN "UPLOAD" ELSE mine

\* Neither "both uploading" nor "both downloading" with the same number.
Compatible(s, mine, theirs) ==
    /\ ~ (mine = "UPLOAD" /\ theirs = "UPLOAD")
    /\ ~ (mine = "DOWNLOAD" /\ theirs = "DOWNLOAD" /\ number[s] = number[Other(s)])

\* The peer's $Direction: sent once and not yet heard; it is what the peer
\* still wants, or has settled with s since then.
Told(s, i) ==
    LET t == Other(s)
        m == chan[s][i]
    IN
    /\ \A j \in Directed(s) : j = i
    /\ phase[s] \notin Late /\ phase[t] \in Firm
    /\ m.num = number[t] /\ m.dir \in {"DOWNLOAD", "UPLOAD"}
    /\ phase[t] = "DIRECTION" => role[t] = m.dir
    /\ phase[t] \in Late => /\ phase[s] = "DIRECTION"
                            /\ Compatible(t, m.dir, role[s])
                            /\ role[t] = Resolved(t, m.dir, role[s])

Nmdc(s) ==
    /\ phase[s] # "SUPNICK" => role[s] \in {"DOWNLOAD", "UPLOAD"}
    /\ phase[s] \in Late => phase[Other(s)] \in Firm
    /\ phase[s] \in Late /\ phase[Other(s)] \in Late => role[s] # role[Other(s)]
    /\ \A i \in Directed(s) : Told(s, i)

Talking == \A s \in Sides : phase[s] \notin {"none", "gone"}

NmdcInv == protocol = "NMDC" /\ Talking => \A s \in Sides : Nmdc(s)

\* The item of the side that asked is there, or its token is remembered.
AdcInv ==
    protocol = "ADC" =>
        /\ rounds # 0 /\ item[asker] = "none" => delayed
        /\ role[asker] # "UPLOAD"
        /\ rounds = 0 => \A s \in Sides : phase[s] \in {"none", "gone"}

Inv == TypeInv /\ NmdcInv /\ AdcInv

-----------------------------------------------------------------------------
(* Messages.                                                               *)

LEMMA OtherSide ==
    \A s \in Sides : /\ Other(s) \in Sides /\ Other(s) # s /\ Other(Other(s)) = s
                     /\ \A r \in Sides : r = s \/ r = Other(s)
BY DEF Sides, Other

\* Handling a message: it is taken off, and the answer is under way.
LEMMA AnswerFacts ==
    ASSUME TypeInv, NEW s \in Sides, chan[s] # <<>>,
           NEW msgs \in Seq(Messages), Answer(s, msgs)
    PROVE  /\ chan' \in [Sides -> Seq(Messages)]
           /\ chan'[s] = Tail(chan[s])
           /\ chan'[Other(s)] = IF phase[Other(s)] = "gone" THEN <<>> ELSE chan[Other(s)] \o msgs
<1>1. chan \in [Sides -> Seq(Messages)] /\ Other(s) \in Sides /\ Other(s) # s
  BY OtherSide DEF TypeInv
<1>2. Tail(chan[s]) \in Seq(Messages)
  BY <1>1
<1>3. Sent(Other(s), msgs) \in Seq(Messages)
  BY <1>1 DEF Sent
<1> QED
  BY <1>1, <1>2, <1>3 DEF Answer, Sent

\* What is left in the channel of the one that handled a message.
LEMMA TailFacts ==
    ASSUME TypeInv, NEW s \in Sides, chan[s] # <<>>, chan'[s] = Tail(chan[s])
    PROVE  /\ \A i \in 1..Len(chan'[s]) : i + 1 \in 1..Len(chan[s]) /\ chan'[s][i] = chan[s][i + 1]
           /\ 1 \in 1..Len(chan[s]) /\ Head(chan[s]) = chan[s][1] /\ Head(chan[s]) \in Messages
<1>1. chan[s] \in Seq(Messages)
  BY DEF TypeInv
<1> QED
  BY <1>1

LEMMA ConcatFacts ==
    ASSUME TypeInv, NEW t \in Sides, NEW msgs \in Seq(Messages), chan'[t] = chan[t] \o msgs
    PROVE  \A i \in 1..Len(chan'[t]) :
              \/ i \in 1..Len(chan[t]) /\ chan'[t][i] = chan[t][i]
              \/ i - Len(chan[t]) \in 1..Len(msgs) /\ chan'[t][i] = msgs[i - Len(chan[t])]
<1>1. chan[t] \in Seq(Messages)
  BY DEF TypeInv
<1> QED
  BY <1>1

\* What a client says is of its protocol.
LEMMA Speech ==
    /\ protocol = "NMDC" => /\ {Bare("MyNick"), Bare("Lock"), Bare("Key")} \subseteq Messages
                            /\ \A r \in Roles, n \in Nat : Msg("Direction", r, n) \in Messages
    /\ protocol = "ADC" => {Bare("SUP"), Bare("INF")} \subseteq Messages
    /\ Bare("EOF") \in Messages
BY DEF Bare, Msg, Messages, Spoken, Roles

\* A connection that is put: the channel is closed, and its peer will know.
LEMMA PutFacts ==
    ASSUME TypeInv, NEW s \in Sides, Put(s)
    PROVE  /\ chan' \in [Sides -> Seq(Messages)]
           /\ phase' = [phase EXCEPT ![s] = "gone"] /\ role' = [role EXCEPT ![s] = "none"]
           /\ phase' \in [Sides -> Phases] /\ role' \in [Sides -> Roles]
<1>1. chan \in [Sides -> Seq(Messages)] /\ Other(s) \in Sides /\ Other(s) # s
  BY OtherSide DEF TypeInv
<1>2. Sent(Other(s), <<Bare("EOF")>>) \in Seq(Messages)
  BY <1>1, Speech DEF Sent
<1>3. chan' = [chan EXCEPT ![s] = <<>>, ![Other(s)] = Sent(Other(s), <<Bare("EOF")>>)]
  BY DEF Put
<1>4. <<>> \in Seq(Messages)
  OBVIOUS
<1>5. chan' \in [Sides -> Seq(Messages)]
  BY <1>1, <1>2, <1>3, <1>4
<1>6. phase' = [phase EXCEPT ![s] = "gone"] /\ role' = [role EXCEPT ![s] = "none"]
  BY DEF Put
<1>7. "gone" \in Phases /\ "none" \in Roles
  BY DEF Phases, Roles
<1>8. phase' \in [Sides -> Phases] /\ role' \in [Sides -> Roles]
  BY <1>6, <1>7 DEF TypeInv
<1> QED
  BY <1>5, <1>6, <1>8

-----------------------------------------------------------------------------
(* Types.                                                                  *)

LEMMA AddType ==
    ASSUME TypeInv, NEW s \in Sides, chan[s] # <<>>, NEW r \in Roles, Add(s, r)
    PROVE  /\ chan' \in [Sides -> Seq(Messages)]
           /\ phase' \in [Sides -> Phases] /\ role' \in [Sides -> Roles]
           /\ item' \in [Sides -> {"none", "WAITING", "CONNECTING", "ACTIVE"}]
<1>1. {"added", "gone"} \subseteq Phases /\ "none" \in Roles
  BY DEF Phases, Roles
<1>2. CASE r = "DOWNLOAD" /\ item[s] \notin {"WAITING", "CONNECTING"}
  <2>1. Put(s) /\ item' = item
    BY <1>2 DEF Add
  <2> QED
    BY <2>1, PutFacts DEF TypeInv
<1>3. CASE ~ (r = "DOWNLOAD" /\ item[s] \notin {"WAITING", "CONNECTING"})
  <2>1. chan' \in [Sides -> Seq(Messages)]
    BY <1>3, AnswerFacts, <<>> \in Seq(Messages) DEF Add
  <2> QED
    BY <1>1, <1>3, <2>1 DEF Add, TypeInv
<1> QED
  BY <1>2, <1>3

\* Every handler keeps the types; the kinds of message tell the protocols apart.
LEMMA ReceiveType ==
    ASSUME TypeInv, UNCHANGED protocol, NEW s \in Sides, Receive(s)
    PROVE  TypeInv'
<1>0. chan[s] # <<>> /\ Head(chan[s]) \in Messages
  <2>1. chan[s] # <<>>
    BY DEF Receive, MyNick, CLock, Direction, Key, SUP, INF, EOF, Got
  <2> QED
    BY <2>1 DEF TypeInv
<1>1. Messages' = Messages /\ Phases' = Phases
  BY DEF Messages, Spoken, Phases
<1>2. {<<>>} \subseteq Seq(Messages) /\ "gone" \in Phases /\ "none" \in Roles
  BY DEF Phases, Roles
<1>3. CASE MyNick(s)
  <2>1. protocol = "NMDC"
    BY <1>0, <1>3 DEF MyNick, Got, Messages, Spoken, TypeInv
  <2>2. (IF s = "near" THEN <<Bare("MyNick"), Bare("Lock")>> ELSE <<>>) \in Seq(Messages)
    BY <2>1, <1>2, Speech
  <2>3. chan' \in [Sides -> Seq(Messages)]
    BY <1>0, <1>3, <2>2, AnswerFacts DEF MyNick
  <2>4. role' \in [Sides -> Roles] /\ phase' \in [Sides -> Phases]
    BY <1>3, <2>1 DEF MyNick, TypeInv, Roles, Phases
  <2> QED
    BY <1>1, <1>3, <2>3, <2>4 DEF MyNick, TypeInv
<1>4. CASE CLock(s)
  <2>1. protocol = "NMDC"
    BY <1>0, <1>4 DEF CLock, Got, Messages, Spoken, TypeInv
  <2>2. <<Msg("Direction", role[s], number[s]), Bare("Key")>> \in Seq(Messages)
    BY <2>1, Speech DEF TypeInv
  <2>3. chan' \in [Sides -> Seq(Messages)]
    BY <1>0, <1>4, <2>2, AnswerFacts DEF CLock
  <2>4. phase' \in [Sides -> Phases]
    BY <1>4, <2>1 DEF CLock, TypeInv, Phases
  <2> QED
    BY <1>1, <1>4, <2>3, <2>4 DEF CLock, TypeInv
<1>5. CASE Direction(s)
  <2>1. protocol = "NMDC"
    BY <1>0, <1>5 DEF Direction, Got, Messages, Spoken, TypeInv
  <2>2. CASE Put(s)
    <3>1. /\ chan' \in [Sides -> Seq(Messages)]
          /\ phase' \in [Sides -> Phases] /\ role' \in [Sides -> Roles]
      BY <2>2, PutFacts
    <3> QED
      BY <1>1, <1>5, <3>1 DEF Direction, TypeInv
  <2>3. CASE ~Put(s)
    <3>1. chan' \in [Sides -> Seq(Messages)]
      BY <1>0, <1>2, <1>5, <2>3, AnswerFacts DEF Direction
    <3>2. role' \in [Sides -> Roles] /\ phase' \in [Sides -> Phases]
      BY <1>5, <2>1, <2>3 DEF Direction, TypeInv, Roles, Phases
    <3> QED
      BY <1>1, <1>5, <3>1, <3>2 DEF Direction, TypeInv
  <2> QED
    BY <2>2, <2>3
<1>6. CASE Key(s)
  <2>1. role[s] \in Roles /\ Add(s, role[s])
    BY <1>6 DEF Key, TypeInv
  <2> QED
    BY <1>0, <1>1, <1>6, <2>1, AddType DEF Key, TypeInv
<1>7. CASE SUP(s)
  <2>1. protocol = "ADC"
    BY <1>0, <1>7 DEF SUP, Got, Messages, Spoken, TypeInv
  <2>2. (IF s = "near" THEN <<Bare("SUP"), Bare("INF")>> ELSE <<Bare("INF")>>) \in Seq(Messages)
    BY <2>1, Speech
  <2>3. chan' \in [Sides -> Seq(Messages)]
    BY <1>0, <1>7, <2>2, AnswerFacts DEF SUP
  <2>4. phase' \in [Sides -> Phases]
    BY <1>7, <2>1 DEF SUP, TypeInv, Phases
  <2> QED
    BY <1>1, <1>7, <2>3, <2>4 DEF SUP, TypeInv
<1>8. CASE INF(s)
  <2>1. protocol = "ADC"
    BY <1>0, <1>8 DEF INF, Got, Messages, Spoken, TypeInv
  <2>2. CASE item[s] # "none" \/ ~ (s = asker /\ delayed)
    <3>1. \E r \in Roles : Add(s, r)
      BY <1>8, <2>2 DEF INF, Roles
    <3> QED
      BY <1>0, <1>1, <1>8, <3>1, AddType DEF INF, TypeInv
  <2>3. CASE item[s] = "none" /\ s = asker /\ delayed
    <3>1. Answer(s, <<>>) /\ phase' = [phase EXCEPT ![s] = "unassigned"] /\ UNCHANGED <<role, item>>
      BY <1>8, <2>3 DEF INF
    <3>2. phase' \in [Sides -> Phases]
      BY <3>1, <2>1 DEF TypeInv, Phases
    <3>3. chan' \in [Sides -> Seq(Messages)]
      BY <1>0, <1>2, <3>1, AnswerFacts
    <3> QED
      BY <1>1, <1>8, <3>1, <3>2, <3>3 DEF INF, TypeInv
  <2> QED
    BY <2>2, <2>3
<1>9. CASE EOF(s)
  <2>1. item' \in [Sides -> {"none", "WAITING", "CONNECTING", "ACTIVE"}]
    BY <1>9 DEF EOF, Release, TypeInv
  <2> QED
    <3>1. /\ chan' \in [Sides -> Seq(Messages)]
          /\ phase' \in [Sides -> Phases] /\ role' \in [Sides -> Roles]
      BY <1>9, PutFacts DEF EOF
    <3> QED
      BY <1>1, <1>9, <2>1, <3>1 DEF EOF, TypeInv
<1> QED
  BY <1>3, <1>4, <1>5, <1>6, <1>7, <1>8, <1>9 DEF Receive

LEMMA QueueType ==
    ASSUME TypeInv, UNCHANGED protocol, QueueChanges
    PROVE  TypeInv'
<1>1. Messages' = Messages /\ Phases' = Phases
  BY DEF Messages, Spoken, Phases
<1>2. item' \in [Sides -> {"none", "WAITING", "CONNECTING", "ACTIVE"}]
  <2>1. PICK s \in Sides : Queue(s)
    BY DEF QueueChanges
  <2>2. PICK k \in {"none", "WAITING", "CONNECTING"} : item' = [item EXCEPT ![s] = k]
    BY <2>1 DEF Queue
  <2> QED
    BY <2>2 DEF TypeInv
<1>3. UNCHANGED <<protocol, asker, phase, role, number, chan, rounds>>
  BY DEF QueueChanges
<1> QED
  BY <1>1, <1>2, <1>3 DEF TypeInv

LEMMA OpenType ==
    ASSUME TypeInv, UNCHANGED protocol, Open
    PROVE  TypeInv'
<1>1. Messages' = Messages /\ Phases' = Phases
  BY DEF Messages, Spoken, Phases
<1>2. number' \in [Sides -> Nat]
  BY HandshakeAssumption DEF Open
<1>3. chan' \in [Sides -> Seq(Messages)]
  <2>1. /\ (IF protocol = "NMDC" THEN <<Bare("MyNick"), Bare("Lock")>> ELSE <<Bare("SUP")>>) \in Seq(Messages)
        /\ <<>> \in Seq(Messages)
    BY Speech DEF TypeInv
  <2>2. ASSUME NEW a \in Seq(Messages), NEW b \in Seq(Messages)
        PROVE  [near |-> a, far |-> b] \in [Sides -> Seq(Messages)]
    BY DEF Sides
  <2> QED
    BY <2>1, <2>2 DEF Open
<1> QED
  BY <1>1, <1>2, <1>3 DEF Open, TypeInv, Sides, Phases, Roles

LEMMA BreakType ==
    ASSUME TypeInv, UNCHANGED protocol, NEW s \in Sides, Break(s)
    PROVE  TypeInv'
<1>1. Messages' = Messages /\ Phases' = Phases /\ "gone" \in Phases /\ "none" \in Roles
  BY DEF Messages, Spoken, Phases, Roles
<1>2. item' \in [Sides -> {"none", "WAITING", "CONNECTING", "ACTIVE"}]
  BY DEF Break, Release, TypeInv
<1>3. /\ chan' \in [Sides -> Seq(Messages)]
      /\ phase' \in [Sides -> Phases] /\ role' \in [Sides -> Roles]
  BY PutFacts DEF Break
<1> QED
  BY <1>1, <1>2, <1>3 DEF Break, TypeInv

-----------------------------------------------------------------------------
(* NMDC.                                                                   *)

LEMMA TailDirected ==
    ASSUME TypeInv, NEW s \in Sides, chan[s] # <<>>, chan'[s] = Tail(chan[s])
    PROVE  \A i \in Directed(s)' :
              i \in Nat /\ i + 1 \in Directed(s) /\ chan'[s][i] = chan[s][i + 1]
BY TailFacts DEF Directed

LEMMA ConcatDirected ==
    ASSUME TypeInv, NEW t \in Sides, NEW msgs \in Seq(Messages), chan'[t] = chan[t] \o msgs,
           \A j \in 1..Len(msgs) : msgs[j].kind # "Direction"
    PROVE  \A i \in Directed(t)' : i \in Directed(t) /\ chan'[t][i] = chan[t][i]
BY ConcatFacts DEF Directed

\* An answer of nothing.
LEMMA NothingDirected ==
    ASSUME TypeInv, NEW t \in Sides, chan'[t] = chan[t] \o <<>>
    PROVE  \A i \in Directed(t)' : i \in Directed(t) /\ chan'[t][i] = chan[t][i]
<1>1. chan[t] \in Seq(Messages)
  BY DEF TypeInv
<1>2. chan'[t] = chan[t]
  BY <1>1
<1> QED
  BY <1>2 DEF Directed

LEMMA MyNickNmdc ==
    ASSUME Inv, protocol = "NMDC", Talking, Talking', NEW s \in Sides, MyNick(s)
    PROVE  Nmdc(s)' /\ Nmdc(Other(s))'
<1> DEFINE t == Other(s)
           msgs == IF s = "near" THEN <<Bare("MyNick"), Bare("Lock")>> ELSE <<>>
<1>0. /\ t \in Sides /\ t # s /\ Other(t) = s /\ Nmdc(s) /\ Nmdc(t) /\ TypeInv
      /\ chan[s] # <<>> /\ phase[s] = "SUPNICK" /\ phase[t] # "gone"
  BY OtherSide DEF Inv, NmdcInv, MyNick, Got, Talking
<1>1. /\ phase'[s] = "LOCK" /\ phase'[t] = phase[t] /\ role'[t] = role[t]
      /\ role'[s] \in {"DOWNLOAD", "UPLOAD"} /\ number' = number
  BY <1>0 DEF MyNick, TypeInv
<1>2. msgs \in Seq(Messages) /\ \A j \in 1..Len(msgs) : msgs[j].kind # "Direction"
  BY Speech DEF Bare, Msg
<1>3. chan'[s] = Tail(chan[s]) /\ chan'[t] = chan[t] \o msgs
  BY <1>0, <1>2, AnswerFacts DEF MyNick
<1> HIDE DEF t, msgs
<1>4. phase[t] \notin Late
  BY <1>0 DEF Nmdc, Firm, Late
<1>5. Directed(t)' = {}
  <2>1. Directed(t) = {}
    BY <1>0 DEF Nmdc, Told, Firm
  <2> QED
    BY <1>0, <1>2, <1>3, <2>1, ConcatDirected
<1>6. ASSUME NEW i \in Directed(s)' PROVE Told(s, i)'
  <2>1. /\ i \in Nat /\ i + 1 \in Directed(s) /\ chan'[s][i] = chan[s][i + 1]
        /\ \A j \in Directed(s)' : j \in Nat /\ j + 1 \in Directed(s)
    BY <1>0, <1>3, <1>6, TailDirected
  <2>2. Told(s, i + 1)
    BY <1>0, <2>1 DEF Nmdc
  <2>3. \A j \in Directed(s)' : j = i
    BY <2>1, <2>2 DEF Told
  <2> QED
    BY <1>0, <1>1, <1>4, <2>1, <2>2, <2>3 DEF Told, Late, Firm, t
<1> QED
  BY <1>0, <1>1, <1>4, <1>5, <1>6 DEF Nmdc, Late, t

LEMMA CLockNmdc ==
    ASSUME Inv, protocol = "NMDC", Talking, Talking', NEW s \in Sides, CLock(s)
    PROVE  Nmdc(s)' /\ Nmdc(Other(s))'
<1> DEFINE t == Other(s)
           msgs == <<Msg("Direction", role[s], number[s]), Bare("Key")>>
<1>0. /\ t \in Sides /\ t # s /\ Other(t) = s /\ Nmdc(s) /\ Nmdc(t) /\ TypeInv
      /\ chan[s] # <<>> /\ phase[s] = "LOCK" /\ phase[t] # "gone"
  BY OtherSide DEF Inv, NmdcInv, CLock, Got, Talking
<1>1. /\ phase'[s] = "DIRECTION" /\ phase'[t] = phase[t] /\ role' = role
      /\ role[s] \in {"DOWNLOAD", "UPLOAD"} /\ number' = number
  BY <1>0 DEF CLock, TypeInv, Nmdc
<1>2. msgs \in Seq(Messages)
  BY Speech, <1>0 DEF TypeInv
<1>3. chan'[s] = Tail(chan[s]) /\ chan'[t] = chan[t] \o msgs
  BY <1>0, <1>2, AnswerFacts DEF CLock
<1>4. phase[t] \notin Late /\ Directed(t) = {}
  BY <1>0 DEF Nmdc, Told, Firm, Late
<1>5. ASSUME NEW i \in Directed(t)'
      PROVE  i = Len(chan[t]) + 1 /\ chan'[t][i] = msgs[1]
  <2>1. \/ i \in Directed(t)
        \/ i - Len(chan[t]) \in 1..Len(msgs) /\ chan'[t][i] = msgs[i - Len(chan[t])]
    BY <1>0, <1>2, <1>3, <1>5, ConcatFacts DEF Directed
  <2>2. msgs[2].kind # "Direction" /\ Len(msgs) = 2
    BY DEF Bare, Msg
  <2>3. i \in Nat /\ Len(chan[t]) \in Nat /\ chan'[t][i].kind = "Direction"
    BY <1>0, <1>5 DEF Directed, TypeInv
  <2>4. i - Len(chan[t]) = 1
    BY <1>4, <2>1, <2>2, <2>3
  <2> QED
    BY <1>4, <2>1, <2>3, <2>4
<1>6. ASSUME NEW i \in Directed(t)' PROVE Told(t, i)'
  <2>1. \A j \in Directed(t)' : j = i
    BY <1>5
  <2>2. chan'[t][i].num = number[s] /\ chan'[t][i].dir = role[s]
    BY <1>5 DEF Msg
  <2> HIDE DEF t, msgs
  <2> QED
    BY <1>0, <1>1, <1>4, <2>1, <2>2 DEF Told, Late, Firm
<1> HIDE DEF t, msgs
<1>7. ASSUME NEW i \in Directed(s)' PROVE Told(s, i)'
  <2>1. /\ i \in Nat /\ i + 1 \in Directed(s) /\ chan'[s][i] = chan[s][i + 1]
        /\ \A j \in Directed(s)' : j \in Nat /\ j + 1 \in Directed(s)
    BY <1>0, <1>3, <1>7, TailDirected
  <2>2. Told(s, i + 1)
    BY <1>0, <2>1 DEF Nmdc
  <2>3. \A j \in Directed(s)' : j = i
    BY <2>1, <2>2 DEF Told
  <2> QED
    BY <1>0, <1>1, <1>4, <2>1, <2>2, <2>3 DEF Told, Late, Firm, t
<1> QED
  BY <1>0, <1>1, <1>4, <1>6, <1>7 DEF Nmdc, Late, t

LEMMA DirectionNmdc ==
    ASSUME Inv, protocol = "NMDC", Talking, Talking', NEW s \in Sides, Direction(s)
    PROVE  Nmdc(s)' /\ Nmdc(Other(s))'
<1> DEFINE t == Other(s)
           m == Head(chan[s])
<1>0. /\ t \in Sides /\ t # s /\ Other(t) = s /\ Nmdc(s) /\ Nmdc(t) /\ TypeInv
      /\ chan[s] # <<>> /\ phase[s] = "DIRECTION" /\ phase[t] # "gone"
      /\ m.kind = "Direction"
  BY OtherSide DEF Inv, NmdcInv, Direction, Got, Talking
<1>1. ~Put(s)
  BY DEF Put, Talking, Inv, TypeInv
<1>2. m = chan[s][1] /\ 1 \in Directed(s) /\ Told(s, 1)
  <2>1. 1 \in 1..Len(chan[s]) /\ m = chan[s][1]
    BY <1>0 DEF TypeInv
  <2> QED
    BY <1>0, <2>1 DEF Nmdc, Directed
<1> HIDE DEF t, m
<1>3. m.num = number[t] /\ m.dir \in {"DOWNLOAD", "UPLOAD"} /\ phase[t] \in Firm
  BY <1>2 DEF Told, t
<1>4. /\ phase'[s] = "KEY" /\ phase'[t] = phase[t] /\ number' = number /\ Answer(s, <<>>)
      /\ Compatible(s, role[s], m.dir)
      /\ role'[t] = role[t] /\ role'[s] = Resolved(s, role[s], m.dir)
  BY <1>0, <1>1, <1>3 DEF Direction, Compatible, Resolved, TypeInv, t, m
<1>5. chan'[s] = Tail(chan[s]) /\ chan'[t] = chan[t] \o <<>>
  BY <1>0, <1>4, AnswerFacts, <<>> \in Seq(Messages) DEF t
<1>6. Directed(s)' = {}
  <2>1. ASSUME NEW i \in Directed(s)' PROVE FALSE
    <3>1. i \in Nat /\ i + 1 \in Directed(s)
      BY <1>0, <1>5, <2>1, TailDirected
    <3>2. 1 \in 1..Len(chan'[s]) /\ i \in 1..Len(chan'[s])
      BY <1>0, <1>5, <2>1 DEF Directed, TypeInv
    <3>3. i + 1 = 1
      BY <1>2, <3>1 DEF Told
    <3> QED
      BY <3>1, <3>2, <3>3
  <2> QED
    BY <2>1
<1>7. \A i \in Directed(t)' : i \in Directed(t) /\ chan'[t][i] = chan[t][i]
  BY <1>0, <1>5, NothingDirected
<1>8. role'[s] \in {"DOWNLOAD", "UPLOAD"}
  BY <1>0, <1>4 DEF Resolved, Nmdc
<1>9. CASE phase[t] = "DIRECTION"
  <2>1. role[t] = m.dir
    BY <1>2, <1>9 DEF Told, t
  <2>2. ASSUME NEW i \in Directed(t)' PROVE Told(t, i)'
    <3>1. /\ i \in Directed(t) /\ chan'[t][i] = chan[t][i] /\ Told(t, i)
          /\ \A j \in Directed(t)' : j \in Directed(t)
      BY <1>0, <1>7, <2>2 DEF Nmdc
    <3>2. chan[t][i].num = number[s] /\ chan[t][i].dir = role[s] /\ \A j \in Directed(t)' : j = i
      BY <1>0, <3>1 DEF Told
    <3>3. Compatible(s, role[s], role[t]) /\ role'[s] = Resolved(s, role[s], role[t])
      BY <1>4, <2>1
    <3>4. chan'[t][i].num = number'[s] /\ chan'[t][i].dir = role[s]
      BY <1>4, <3>1, <3>2
    <3> QED
      BY <1>0, <1>4, <1>8, <1>9, <3>1, <3>2, <3>3, <3>4
      DEF Told, Late, Firm, Compatible, Resolved
  <2> QED
    BY <1>0, <1>4, <1>6, <1>8, <1>9, <2>2 DEF Nmdc, Late, Firm, t
<1>10. CASE phase[t] \in Late
  <2>1. Directed(t)' = {}
    BY <1>0, <1>7, <1>10 DEF Nmdc, Told
  <2>2. Compatible(t, m.dir, role[s]) /\ role[t] = Resolved(t, m.dir, role[s])
    BY <1>2, <1>10 DEF Told, t
  <2>3. number[s] \in Nat /\ number[t] \in Nat /\ role[s] \in {"DOWNLOAD", "UPLOAD"}
    BY <1>0 DEF TypeInv, Nmdc
  <2>4. role'[s] # role'[t]
    BY <1>0, <1>3, <1>4, <2>2, <2>3 DEF Compatible, Resolved, t
  <2> QED
    BY <1>0, <1>4, <1>6, <1>8, <1>10, <2>1, <2>4 DEF Nmdc, Late, Firm, t
<1> QED
  BY <1>3, <1>9, <1>10 DEF Firm, Late, t

LEMMA KeyNmdc ==
    ASSUME Inv, protocol = "NMDC", Talking, Talking', NEW s \in Sides, Key(s)
    PROVE  Nmdc(s)' /\ Nmdc(Other(s))'
<1> DEFINE t == Other(s)
<1>0. /\ t \in Sides /\ t # s /\ Other(t) = s /\ Nmdc(s) /\ Nmdc(t) /\ TypeInv
      /\ chan[s] # <<>> /\ phase[s] = "KEY" /\ phase[t] # "gone"
  BY OtherSide DEF Inv, NmdcInv, Key, Got, Talking
<1>1. ~Put(s)
  BY DEF Put, Talking, Inv, TypeInv
<1>2. phase'[s] = "added" /\ phase'[t] = phase[t] /\ role' = role /\ number' = number
  BY <1>0, <1>1 DEF Key, Add, TypeInv
<1>3. chan'[s] = Tail(chan[s]) /\ chan'[t] = chan[t] \o <<>>
  BY <1>0, <1>1, AnswerFacts, <<>> \in Seq(Messages) DEF Key, Add
<1> HIDE DEF t
<1>4. Directed(s)' = {}
  BY <1>0, <1>3, TailDirected DEF Nmdc, Told, Late
<1>5. ASSUME NEW i \in Directed(t)' PROVE Told(t, i)'
  <2>1. \A j \in Directed(t)' : j \in Directed(t) /\ chan'[t][j] = chan[t][j]
    BY <1>0, <1>3, NothingDirected
  <2>2. Told(t, i)
    BY <1>0, <1>5, <2>1 DEF Nmdc
  <2> QED
    BY <1>0, <1>2, <1>5, <2>1, <2>2 DEF Told, Late, Firm, Compatible, Resolved
<1> QED
  BY <1>0, <1>2, <1>4, <1>5 DEF Nmdc, Late, Firm, t

LEMMA ReceiveNmdc ==
    ASSUME Inv, UNCHANGED protocol, NEW s \in Sides, Receive(s)
    PROVE  NmdcInv'
<1> SUFFICES ASSUME protocol = "NMDC", Talking' PROVE \A r \in Sides : Nmdc(r)'
  BY DEF NmdcInv
<1>1. chan[s] # <<>> /\ Head(chan[s]).kind \notin {"SUP", "INF"}
  <2>1. chan[s] # <<>>
    BY DEF Receive, MyNick, CLock, Direction, Key, SUP, INF, EOF, Got
  <2>2. Head(chan[s]) \in Messages
    BY <2>1, TailFacts, Tail(chan[s]) \in Seq(Messages) DEF Inv, TypeInv
  <2> QED
    BY <2>1, <2>2 DEF Messages, Spoken
<1>2. ~EOF(s)
  BY DEF EOF, Put, Talking, Inv, TypeInv
<1>3. Talking
  BY <1>1, <1>2 DEF Receive, MyNick, CLock, Direction, Key, SUP, INF, Got, Put, Add, Talking, Inv, TypeInv
<1>4. MyNick(s) \/ CLock(s) \/ Direction(s) \/ Key(s)
  BY <1>1, <1>2 DEF Receive, SUP, INF, Got
<1>5. Nmdc(s)' /\ Nmdc(Other(s))'
  BY <1>3, <1>4, MyNickNmdc, CLockNmdc, DirectionNmdc, KeyNmdc
<1> QED
  BY <1>5, OtherSide

-----------------------------------------------------------------------------
(* ADC.                                                                    *)

\* The side that asked has its item still, or its token is remembered.
LEMMA AddAdc ==
    ASSUME TypeInv, NEW s \in Sides, NEW r \in Roles, Add(s, r), s = asker => r # "UPLOAD",
           phase[s] \notin {"none", "gone"}, protocol = "ADC", AdcInv,
           UNCHANGED <<protocol, asker, delayed, rounds>>
    PROVE  AdcInv'
<1>1. /\ item'[asker] = "none" => item[asker] = "none"
      /\ role'[asker] # "UPLOAD"
  BY DEF Add, Put, AdcInv, TypeInv
<1> QED
  BY <1>1 DEF AdcInv

LEMMA ReceiveAdc ==
    ASSUME Inv, UNCHANGED protocol, NEW s \in Sides, Receive(s)
    PROVE  AdcInv'
<1> SUFFICES ASSUME protocol = "ADC" PROVE AdcInv'
  BY DEF AdcInv
<1>1. Head(chan[s]).kind \notin {"MyNick", "Lock", "Direction", "Key"}
  <2>1. chan[s] # <<>>
    BY DEF Receive, MyNick, CLock, Direction, Key, SUP, INF, EOF, Got
  <2>2. Head(chan[s]) \in Messages
    BY <2>1, TailFacts, Tail(chan[s]) \in Seq(Messages) DEF Inv, TypeInv
  <2> QED
    BY <2>2 DEF Messages, Spoken
<1>2. CASE SUP(s)
  BY <1>2 DEF SUP, Inv, TypeInv, AdcInv
<1>3. CASE INF(s)
  <2>1. CASE item[s] # "none"
    BY <1>3, <2>1, AddAdc DEF INF, Inv, Roles
  <2>2. CASE item[s] = "none" /\ ~ (s = asker /\ delayed)
    <3>1. s # asker
      BY <1>3, <2>2 DEF INF, Inv, AdcInv
    <3> QED
      BY <1>3, <2>2, <3>1, AddAdc DEF INF, Inv, Roles
  <2>3. CASE item[s] = "none" /\ s = asker /\ delayed
    BY <1>3, <2>3 DEF INF, Inv, TypeInv, AdcInv
  <2> QED
    BY <2>1, <2>2, <2>3
<1>4. CASE EOF(s)
  BY <1>4 DEF EOF, Release, Put, Inv, TypeInv, AdcInv
<1> QED
  BY <1>1, <1>2, <1>3, <1>4 DEF Receive, MyNick, CLock, Direction, Key, Got

-----------------------------------------------------------------------------
(* Every step.                                                             *)

\* The queues are no part of what two clients say to each other.
LEMMA SameTalk ==
    ASSUME NmdcInv, UNCHANGED <<protocol, phase, role, number, chan>>
    PROVE  NmdcInv'
<1> SUFFICES ASSUME protocol = "NMDC", Talking', NEW s \in Sides PROVE Nmdc(s)'
  BY DEF NmdcInv
<1>1. Nmdc(s)
  BY DEF NmdcInv, Talking
<1>2. Directed(s)' = Directed(s)
  BY DEF Directed
<1>3. ASSUME NEW i \in Directed(s) PROVE Told(s, i)'
  <2>1. Told(s, i)
    BY <1>1 DEF Nmdc
  <2> QED
    BY <1>2, <2>1 DEF Told, Compatible, Resolved
<1>4. \A i \in Directed(s)' : Told(s, i)'
  BY <1>2, <1>3
<1>5. phase' = phase /\ role' = role
  OBVIOUS
<1> QED
  BY <1>1, <1>4, <1>5 DEF Nmdc

LEMMA QueueKeeps == ASSUME Inv, UNCHANGED protocol, QueueChanges PROVE Inv'
<1>1. NmdcInv'
  BY SameTalk DEF QueueChanges, Inv
<1>2. AdcInv'
  <2>1. PICK s \in Sides : Queue(s)
    BY DEF QueueChanges
  <2>2. \/ item'[asker] # "none"
        \/ item'[asker] = item[asker] /\ (delayed => delayed')
        \/ s = asker /\ delayed'
    <3>1. CASE /\ item[s] \in {"WAITING", "CONNECTING"} /\ item' = [item EXCEPT ![s] = "none"]
               /\ delayed' = (delayed \/ s = asker)
      <4>1. delayed => delayed'
        BY <3>1
      <4>2. s = asker => delayed'
        BY <3>1
      <4> QED
        BY <3>1, <4>1, <4>2 DEF Inv, TypeInv
    <3>2. CASE UNCHANGED delayed /\ \E st \in {"WAITING", "CONNECTING"} : item' = [item EXCEPT ![s] = st]
      <4>1. delayed => delayed'
        BY <3>2
      <4> QED
        BY <3>2, <4>1 DEF Inv, TypeInv
    <3> QED
      BY <2>1, <3>1, <3>2 DEF Queue
  <2> QED
    BY <2>2 DEF QueueChanges, Inv, AdcInv
<1> QED
  BY <1>1, <1>2, QueueType DEF Inv

LEMMA OpenKeeps == ASSUME Inv, UNCHANGED protocol, Open PROVE Inv'
<1>1. \A s \in Sides : phase'[s] = "SUPNICK" /\ role'[s] = "none"
  BY DEF Open
<1>2. NmdcInv'
  <2> SUFFICES ASSUME protocol = "NMDC", NEW s \in Sides PROVE Nmdc(s)'
    BY DEF NmdcInv
  <2>1. Directed(s)' = {}
    BY DEF Open, Sides, Directed, Bare, Msg
  <2> QED
    BY <1>1, <2>1 DEF Nmdc, Late
<1>3. AdcInv'
  BY <1>1 DEF Open, Inv, TypeInv, AdcInv
<1> QED
  BY <1>2, <1>3, OpenType DEF Inv

LEMMA BreakKeeps == ASSUME Inv, UNCHANGED protocol, NEW s \in Sides, Break(s) PROVE Inv'
<1>1. phase'[s] = "gone"
  BY DEF Break, Put, Inv, TypeInv
<1>2. AdcInv'
  BY DEF Break, Release, Put, Inv, TypeInv, AdcInv
<1> QED
  BY <1>1, <1>2, BreakType DEF Inv, NmdcInv, Talking

LEMMA Step == Inv /\ [Next]_vars => Inv'
<1> SUFFICES ASSUME Inv, [Next]_vars PROVE Inv'
  OBVIOUS
<1>1. CASE UNCHANGED vars
  BY <1>1, SameTalk DEF vars, Inv, TypeInv, Messages, Spoken, Phases, AdcInv
<1>2. ASSUME UNCHANGED protocol, NEW s \in Sides, Receive(s) PROVE Inv'
  BY <1>2, ReceiveType, ReceiveNmdc, ReceiveAdc DEF Inv
<1> QED
  BY <1>1, <1>2, QueueKeeps, OpenKeeps, BreakKeeps DEF Next

LEMMA Start == Init => Inv
<1> SUFFICES ASSUME Init PROVE Inv
  OBVIOUS
<1>1. TypeInv
  <2>1. chan \in [Sides -> Seq(Messages)]
    BY DEF Init
  <2> QED
    BY <2>1, HandshakeAssumption DEF Init, TypeInv, Sides, Phases, Roles
<1>2. NmdcInv
  BY DEF Init, NmdcInv, Talking, Sides
<1>3. AdcInv
  BY DEF Init, AdcInv, Sides
<1> QED
  BY <1>1, <1>2, <1>3 DEF Inv

\* Of two clients that both hold the connection one downloads and the other
\* uploads over NMDC, and over ADC they never both wait for a request.
THEOREM RolesFitHolds == Spec => []RolesFit
<1>1. ASSUME Inv PROVE RolesFit
  <2>1. protocol \in {"NMDC", "ADC"} /\ asker \in Sides
    BY <1>1 DEF Inv, TypeInv
  <2>2. CASE protocol = "NMDC"
    <3> SUFFICES ASSUME \A s \in Sides : Added(s) PROVE \A s \in Sides : role[s] # role[Other(s)]
      BY <2>2, OtherSide DEF RolesFit, RolesComplementary, Added, Sides
    <3>1. \A s \in Sides : Nmdc(s)
      BY <1>1, <2>2 DEF Inv, NmdcInv, Talking, Added
    <3> QED
      BY <3>1, OtherSide DEF Nmdc, Late, Added
  <2>3. CASE protocol = "ADC"
    BY <1>1, <2>1, <2>3 DEF Inv, AdcInv, RolesFit
  <2> QED
    BY <2>1, <2>2, <2>3
<1> QED
  BY <1>1, Start, Step, PTL DEF Spec
-----------------------------------------------------------------------------
(* Messages on their way.                                                  *)

\* The order in which a client says what it says, once each.
Rank == [MyNick |-> 1, Lock |-> 2, Direction |-> 3, Key |-> 4, SUP |-> 1, INF |-> 2, EOF |-> 5]

RankAt(c, i) == Rank[c[i].kind]

\* How far a side has come in that order in its phase.
Said(s, ph) ==
    IF ph = "none" \/ (ph = "SUPNICK" /\ s = "near") THEN 0
    ELSE IF ph = "SUPNICK" /\ protocol = "ADC" THEN 1
    ELSE IF ph \in {"SUPNICK", "LOCK", "INF", "unassigned"} THEN 2
    ELSE IF ph = "gone" THEN 5 ELSE 4

Ordered(c) == \A i, j \in 1..Len(c) : i < j => RankAt(c, i) < RankAt(c, j)

\* What s has still to hear was said in order, and by now.
Heard(s) ==
    /\ Ordered(chan[s])
    /\ \A i \in 1..Len(chan[s]) : RankAt(chan[s], i) <= Said(Other(s), phase[Other(s)])

Flow == \A s \in Sides : Heard(s)

\* The values that never change or are drawn anew.
Drawn == /\ protocol \in Protocols /\ delayed \in BOOLEAN
         /\ number \in [Sides -> Numbers] /\ rounds \in 0..MaxRounds

LEMMA Ranked == \A m \in Messages : Rank[m.kind] \in 1..5
BY DEF Messages, Spoken, Rank

\* In order and without repetition there are no more than five.
LEMMA FiveAtMost == ASSUME NEW c \in Seq(Messages), Ordered(c) PROVE Len(c) <= 5
<1> SUFFICES ASSUME Len(c) > 5 PROVE FALSE
  OBVIOUS
<1>1. \A i \in 1..Len(c) : RankAt(c, i) \in 1..5
  BY Ranked DEF RankAt
<1>2. 1 \in 1..Len(c) /\ 2 \in 1..Len(c) /\ 3 \in 1..Len(c)
      /\ 4 \in 1..Len(c) /\ 5 \in 1..Len(c) /\ 6 \in 1..Len(c)
  OBVIOUS
<1>3. /\ RankAt(c, 1) < RankAt(c, 2) /\ RankAt(c, 2) < RankAt(c, 3)
      /\ RankAt(c, 3) < RankAt(c, 4) /\ RankAt(c, 4) < RankAt(c, 5)
      /\ RankAt(c, 5) < RankAt(c, 6)
  BY <1>2 DEF Ordered
<1> QED
  BY <1>1, <1>2, <1>3

\* Saying more, of a higher rank, keeps the order.
LEMMA SayingMore ==
    ASSUME NEW c \in Seq(Messages), NEW msgs \in Seq(Messages), NEW p \in 0..5, NEW q \in p..5,
           Ordered(c), \A i \in 1..Len(c) : RankAt(c, i) <= p,
           Ordered(msgs), \A i \in 1..Len(msgs) : p < RankAt(msgs, i) /\ RankAt(msgs, i) <= q
    PROVE  Ordered(c \o msgs) /\ \A i \in 1..Len(c \o msgs) : RankAt(c \o msgs, i) <= q
<1> DEFINE d == c \o msgs
<1>1. /\ d \in Seq(Messages) /\ Len(d) = Len(c) + Len(msgs)
      /\ \A i \in 1..Len(c) + Len(msgs) :
             d[i] = IF i <= Len(c) THEN c[i] ELSE msgs[i - Len(c)]
  BY ConcatProperties
<1> HIDE DEF d
<1>2. ASSUME NEW i \in 1..Len(d)
      PROVE  \/ i \in 1..Len(c) /\ RankAt(d, i) = RankAt(c, i)
             \/ i - Len(c) \in 1..Len(msgs) /\ i > Len(c) /\ RankAt(d, i) = RankAt(msgs, i - Len(c))
  BY <1>1 DEF RankAt
<1>3. \A i \in 1..Len(c) : RankAt(c, i) \in 1..5
  BY Ranked DEF RankAt
<1>4. \A i \in 1..Len(msgs) : RankAt(msgs, i) \in 1..5
  BY Ranked DEF RankAt
<1>5. \A i \in 1..Len(d) : RankAt(d, i) <= q
  BY <1>2, <1>3, <1>4
<1>6. ASSUME NEW i \in 1..Len(d), NEW j \in 1..Len(d), i < j PROVE RankAt(d, i) < RankAt(d, j)
  <2>1. CASE j \in 1..Len(c) /\ RankAt(d, j) = RankAt(c, j)
    BY <1>2, <1>6, <2>1 DEF Ordered
  <2>2. CASE j - Len(c) \in 1..Len(msgs) /\ j > Len(c) /\ RankAt(d, j) = RankAt(msgs, j - Len(c))
    <3>1. CASE i \in 1..Len(c) /\ RankAt(d, i) = RankAt(c, i)
      BY <1>3, <1>4, <2>2, <3>1
    <3>2. CASE i - Len(c) \in 1..Len(msgs) /\ RankAt(d, i) = RankAt(msgs, i - Len(c))
      <4>1. i - Len(c) < j - Len(c)
        BY <1>6
      <4> QED
        BY <2>2, <3>2, <4>1 DEF Ordered
    <3> QED
      BY <1>2, <3>1, <3>2
  <2> QED
    BY <1>2, <2>1, <2>2
<1> QED
  BY <1>5, <1>6 DEF Ordered, d

LEMMA SaidType ==
    \A s \in Sides : \A ph : Said(s, ph) \in 0..5
BY DEF Said

\* A handler takes one message and says what comes next in order.
LEMMA AnswerFlows ==
    ASSUME TypeInv, Flow, UNCHANGED protocol, NEW s \in Sides, chan[s] # <<>>,
           NEW msgs \in Seq(Messages), Answer(s, msgs), Ordered(msgs),
           phase'[Other(s)] = phase[Other(s)],
           Said(s, phase[s]) <= Said(s, phase'[s]),
           \A i \in 1..Len(msgs) : /\ Said(s, phase[s]) < RankAt(msgs, i)
                                   /\ RankAt(msgs, i) <= Said(s, phase'[s])
    PROVE  Flow'
<1> DEFINE t == Other(s)
<1>1. t \in Sides /\ t # s /\ Other(t) = s /\ \A r \in Sides : r = s \/ r = t
  BY OtherSide
<1>2. /\ chan' \in [Sides -> Seq(Messages)] /\ chan'[s] = Tail(chan[s])
      /\ chan'[t] = IF phase[t] = "gone" THEN <<>> ELSE chan[t] \o msgs
  BY AnswerFacts
<1>3. chan[s] \in Seq(Messages) /\ chan[t] \in Seq(Messages)
  BY <1>1 DEF TypeInv
<1>4. Heard(s) /\ Heard(t)
  BY <1>1 DEF Flow
<1> HIDE DEF t
<1>6. Heard(s)'
  <2>1. /\ Len(chan'[s]) \in Nat
        /\ \A i \in 1..Len(chan'[s]) : /\ i + 1 \in 1..Len(chan[s])
                                       /\ RankAt(chan'[s], i) = RankAt(chan[s], i + 1)
    BY <1>2, <1>3, TailFacts DEF RankAt
  <2>2. Ordered(chan'[s])
    BY <1>4, <2>1 DEF Ordered, Heard
  <2>3. Said(Other(s), phase[Other(s)])' = Said(t, phase[t])
    BY DEF Said, t
  <2>4. \A i \in 1..Len(chan'[s]) : RankAt(chan'[s], i) <= Said(t, phase[t])
    BY <1>4, <2>1 DEF Heard, t
  <2> QED
    BY <2>2, <2>3, <2>4 DEF Heard, Ordered, RankAt
<1>7. Heard(t)'
  <2>1. Said(Other(t), phase[Other(t)])' = Said(s, phase'[s])
    BY <1>1 DEF Said
  <2>2. Ordered(chan'[t]) /\ \A i \in 1..Len(chan'[t]) : RankAt(chan'[t], i) <= Said(s, phase'[s])
    <3>1. CASE phase[t] = "gone"
      <4>1. chan'[t] = <<>> /\ Len(<<>>) = 0
        BY <1>2, <3>1
      <4> QED
        BY <4>1 DEF Ordered
    <3>2. CASE phase[t] # "gone"
      <4>1. chan'[t] = chan[t] \o msgs
        BY <1>2, <3>2
      <4>2. Said(s, phase[s]) \in 0..5 /\ Said(s, phase'[s]) \in Said(s, phase[s])..5
        BY SaidType
      <4>3. Ordered(chan[t]) /\ \A i \in 1..Len(chan[t]) : RankAt(chan[t], i) <= Said(s, phase[s])
        BY <1>1, <1>4 DEF Heard
      <4> QED
        BY <1>3, <4>1, <4>2, <4>3, SayingMore
    <3> QED
      BY <3>1, <3>2
  <2> QED
    BY <2>1, <2>2 DEF Heard, Ordered, RankAt
<1> QED
  BY <1>1, <1>6, <1>7 DEF Flow

\* The end of the channel is the last that is said on it.
LEMMA PutFlows ==
    ASSUME TypeInv, Flow, UNCHANGED protocol, NEW s \in Sides, phase[s] # "gone", Put(s)
    PROVE  Flow'
<1> DEFINE t == Other(s)
           msgs == <<Bare("EOF")>>
<1>1. t \in Sides /\ t # s /\ Other(t) = s /\ \A r \in Sides : r = s \/ r = t
  BY OtherSide
<1>2. chan[t] \in Seq(Messages) /\ msgs \in Seq(Messages)
  BY <1>1, Speech DEF TypeInv
<1>3. /\ phase'[s] = "gone" /\ phase'[t] = phase[t]
      /\ chan'[s] = <<>> /\ chan'[t] = IF phase[t] = "gone" THEN <<>> ELSE chan[t] \o msgs
  BY <1>1 DEF Put, Sent, TypeInv
<1>4. Heard(t)
  BY <1>1 DEF Flow
<1>5. Len(msgs) = 1 /\ \A i \in 1..1 : RankAt(msgs, i) = 5
  BY DEF RankAt, Rank, Bare, Msg
<1> HIDE DEF msgs, t
<1>6. Heard(s)'
  <2>1. Len(chan'[s]) = 0
    BY <1>3
  <2> QED
    BY <2>1 DEF Heard, Ordered
<1>7. Heard(t)'
  <2>1. Said(Other(t), phase[Other(t)])' = 5
    BY <1>1, <1>3 DEF Said
  <2>2. Ordered(chan'[t]) /\ \A i \in 1..Len(chan'[t]) : RankAt(chan'[t], i) <= 5
    <3>1. CASE phase[t] = "gone"
      <4>1. chan'[t] = <<>> /\ Len(<<>>) = 0
        BY <1>3, <3>1
      <4> QED
        BY <4>1 DEF Ordered
    <3>2. CASE phase[t] # "gone"
      <4>1. chan'[t] = chan[t] \o msgs
        BY <1>3, <3>2
      <4>2. Said(s, phase[s]) \in 0..4
        BY DEF Said
      <4>3. Ordered(chan[t]) /\ \A i \in 1..Len(chan[t]) : RankAt(chan[t], i) <= Said(s, phase[s])
        BY <1>1, <1>4 DEF Heard
      <4>4. Ordered(msgs) /\ \A i \in 1..Len(msgs) : Said(s, phase[s]) < RankAt(msgs, i)
                                                     /\ RankAt(msgs, i) <= 5
        BY <1>5, <4>2 DEF Ordered
      <4>5. Said(s, phase[s]) \in 0..5 /\ 5 \in Said(s, phase[s])..5
        BY <4>2
      <4> QED
        BY <1>2, <4>1, <4>3, <4>4, <4>5, SayingMore
    <3> QED
      BY <3>1, <3>2
  <2> QED
    BY <2>1, <2>2 DEF Heard, Ordered, RankAt
<1> QED
  BY <1>1, <1>6, <1>7 DEF Flow

\* Nothing said: a side only moves on.
LEMMA SilenceFlows ==
    ASSUME TypeInv, Flow, UNCHANGED protocol, NEW s \in Sides, chan[s] # <<>>, Answer(s, <<>>),
           phase'[Other(s)] = phase[Other(s)], Said(s, phase[s]) <= Said(s, phase'[s])
    PROVE  Flow'
<1>1. <<>> \in Seq(Messages) /\ Len(<<>>) = 0
  OBVIOUS
<1>2. Ordered(<<>>) /\ 1..Len(<<>>) = {}
  BY <1>1 DEF Ordered
<1> DEFINE msgs == <<>>
<1>3. /\ msgs \in Seq(Messages) /\ Ordered(msgs) /\ Answer(s, msgs)
      /\ \A i \in 1..Len(msgs) : /\ Said(s, phase[s]) < RankAt(msgs, i)
                                /\ RankAt(msgs, i) <= Said(s, phase'[s])
  BY <1>1, <1>2
<1> HIDE DEF msgs
<1> QED
  BY <1>3, AnswerFlows

LEMMA AddFlows ==
    ASSUME TypeInv, Flow, UNCHANGED protocol, NEW s \in Sides, chan[s] # <<>>, NEW r, Add(s, r),
           phase[s] \in {"KEY", "INF"}
    PROVE  Flow'
<1>1. CASE Put(s)
  BY <1>1, PutFlows
<1>2. CASE ~Put(s)
  <2>1. phase' = [phase EXCEPT ![s] = "added"] /\ Answer(s, <<>>)
    BY <1>2 DEF Add
  <2>2. phase'[s] = "added" /\ phase'[Other(s)] = phase[Other(s)]
    BY <2>1, OtherSide DEF TypeInv
  <2> QED
    BY <2>1, <2>2, SilenceFlows DEF Said
<1> QED
  BY <1>1, <1>2

LEMMA ReceiveFlows ==
    ASSUME TypeInv, Flow, UNCHANGED protocol, NEW s \in Sides, Receive(s)
    PROVE  Flow'
<1>0. /\ chan[s] # <<>> /\ Head(chan[s]) \in Messages /\ protocol \in {"NMDC", "ADC"}
      /\ Other(s) \in Sides /\ Other(s) # s
  <2>1. chan[s] # <<>>
    BY DEF Receive, MyNick, CLock, Direction, Key, SUP, INF, EOF, Got
  <2> QED
    BY <2>1, OtherSide DEF TypeInv
<1>1. ASSUME NEW ph, phase' = [phase EXCEPT ![s] = ph]
      PROVE  phase'[s] = ph /\ phase'[Other(s)] = phase[Other(s)]
  BY <1>0, <1>1 DEF TypeInv
<1>2. CASE MyNick(s)
  <2>1. protocol = "NMDC"
    BY <1>0, <1>2 DEF MyNick, Got, Messages, Spoken
  <2>2. phase[s] = "SUPNICK" /\ phase'[s] = "LOCK" /\ phase'[Other(s)] = phase[Other(s)]
    BY <1>1, <1>2 DEF MyNick
  <2>3. CASE s = "near"
    <3> DEFINE msgs == <<Bare("MyNick"), Bare("Lock")>>
    <3>1. msgs \in Seq(Messages) /\ Answer(s, msgs)
      BY <1>2, <2>1, <2>3, Speech DEF MyNick
    <3>2. Len(msgs) = 2 /\ RankAt(msgs, 1) = 1 /\ RankAt(msgs, 2) = 2
      BY DEF RankAt, Rank, Bare, Msg
    <3> HIDE DEF msgs
    <3>3. Said(s, phase[s]) = 0 /\ Said(s, phase'[s]) = 2
      BY <2>2, <2>3 DEF Said
    <3>4. Ordered(msgs) /\ \A i \in 1..Len(msgs) : 0 < RankAt(msgs, i) /\ RankAt(msgs, i) <= 2
      BY <3>2 DEF Ordered
    <3> QED
      BY <1>0, <2>2, <3>1, <3>3, <3>4, AnswerFlows
  <2>4. CASE s # "near"
    <3>1. Answer(s, <<>>)
      BY <1>2, <2>4 DEF MyNick
    <3> QED
      BY <1>0, <2>1, <2>2, <2>4, <3>1, SilenceFlows DEF Said
  <2> QED
    BY <2>3, <2>4
<1>3. CASE CLock(s)
  <2>1. protocol = "NMDC"
    BY <1>0, <1>3 DEF CLock, Got, Messages, Spoken
  <2>2. phase[s] = "LOCK" /\ phase'[s] = "DIRECTION" /\ phase'[Other(s)] = phase[Other(s)]
    BY <1>1, <1>3 DEF CLock
  <2> DEFINE msgs == <<Msg("Direction", role[s], number[s]), Bare("Key")>>
  <2>3. msgs \in Seq(Messages) /\ Answer(s, msgs)
    BY <1>3, <2>1, Speech DEF CLock, TypeInv
  <2>4. Len(msgs) = 2 /\ RankAt(msgs, 1) = 3 /\ RankAt(msgs, 2) = 4
    BY DEF RankAt, Rank, Bare, Msg
  <2> HIDE DEF msgs
  <2>5. Said(s, phase[s]) = 2 /\ Said(s, phase'[s]) = 4
    BY <2>2 DEF Said
  <2>6. Ordered(msgs) /\ \A i \in 1..Len(msgs) : 2 < RankAt(msgs, i) /\ RankAt(msgs, i) <= 4
    BY <2>4 DEF Ordered
  <2> QED
    BY <1>0, <2>2, <2>3, <2>5, <2>6, AnswerFlows
<1>4. CASE Direction(s)
  <2>1. CASE Put(s)
    BY <1>4, <2>1, PutFlows DEF Direction
  <2>2. CASE ~Put(s)
    <3>1. phase[s] = "DIRECTION" /\ phase' = [phase EXCEPT ![s] = "KEY"] /\ Answer(s, <<>>)
      BY <1>4, <2>2 DEF Direction
    <3> QED
      BY <1>0, <1>1, <3>1, SilenceFlows DEF Said
  <2> QED
    BY <2>1, <2>2
<1>5. CASE Key(s)
  BY <1>0, <1>5, AddFlows DEF Key
<1>6. CASE SUP(s)
  <2>1. protocol = "ADC"
    BY <1>0, <1>6 DEF SUP, Got, Messages, Spoken
  <2>2. phase[s] = "SUPNICK" /\ phase'[s] = "INF" /\ phase'[Other(s)] = phase[Other(s)]
    BY <1>1, <1>6 DEF SUP
  <2>3. CASE s = "near"
    <3> DEFINE msgs == <<Bare("SUP"), Bare("INF")>>
    <3>1. msgs \in Seq(Messages) /\ Answer(s, msgs)
      BY <1>6, <2>1, <2>3, Speech DEF SUP
    <3>2. Len(msgs) = 2 /\ RankAt(msgs, 1) = 1 /\ RankAt(msgs, 2) = 2
      BY DEF RankAt, Rank, Bare, Msg
    <3> HIDE DEF msgs
    <3>3. Said(s, phase[s]) = 0 /\ Said(s, phase'[s]) = 2
      BY <2>2, <2>3 DEF Said
    <3>4. Ordered(msgs) /\ \A i \in 1..Len(msgs) : 0 < RankAt(msgs, i) /\ RankAt(msgs, i) <= 2
      BY <3>2 DEF Ordered
    <3> QED
      BY <1>0, <2>2, <3>1, <3>3, <3>4, AnswerFlows
  <2>4. CASE s # "near"
    <3> DEFINE msgs == <<Bare("INF")>>
    <3>1. msgs \in Seq(Messages) /\ Answer(s, msgs)
      BY <1>6, <2>1, <2>4, Speech DEF SUP
    <3>2. Len(msgs) = 1 /\ RankAt(msgs, 1) = 2
      BY DEF RankAt, Rank, Bare, Msg
    <3> HIDE DEF msgs
    <3>3. Said(s, phase[s]) = 1 /\ Said(s, phase'[s]) = 2
      BY <2>1, <2>2, <2>4 DEF Said
    <3>4. Ordered(msgs) /\ \A i \in 1..Len(msgs) : 1 < RankAt(msgs, i) /\ RankAt(msgs, i) <= 2
      BY <3>2 DEF Ordered
    <3> QED
      BY <1>0, <2>2, <3>1, <3>3, <3>4, AnswerFlows
  <2> QED
    BY <2>3, <2>4
<1>7. CASE INF(s)
  <2>1. CASE \E r \in Roles : Add(s, r)
    BY <1>0, <1>7, <2>1, AddFlows DEF INF
  <2>2. CASE ~ \E r \in Roles : Add(s, r)
    <3>1. phase[s] = "INF" /\ phase' = [phase EXCEPT ![s] = "unassigned"] /\ Answer(s, <<>>)
      BY <1>7, <2>2 DEF INF, Roles
    <3> QED
      BY <1>0, <1>1, <3>1, SilenceFlows DEF Said
  <2> QED
    BY <2>1, <2>2
<1>8. CASE EOF(s)
  BY <1>8, PutFlows DEF EOF
<1> QED
  BY <1>2, <1>3, <1>4, <1>5, <1>6, <1>7, <1>8 DEF Receive

LEMMA OpenFlows == ASSUME TypeInv, UNCHANGED protocol, Open PROVE Flow'
<1>1. phase'["near"] = "SUPNICK" /\ phase'["far"] = "SUPNICK" /\ chan'["far"] = <<>>
      /\ chan'["near"] = IF protocol = "NMDC" THEN <<Bare("MyNick"), Bare("Lock")>>
                                              ELSE <<Bare("SUP")>>
  BY DEF Open, Sides
<1>2. Len(<<>>) = 0 /\ Other("near") = "far" /\ Other("far") = "near"
  BY DEF Other
<1>3. Heard("far")'
  BY <1>1, <1>2 DEF Heard, Ordered
<1>4. Heard("near")'
  <2>1. CASE protocol = "NMDC"
    <3> DEFINE msgs == <<Bare("MyNick"), Bare("Lock")>>
    <3>1. Len(msgs) = 2 /\ RankAt(msgs, 1) = 1 /\ RankAt(msgs, 2) = 2
      BY DEF RankAt, Rank, Bare, Msg
    <3>2. chan'["near"] = msgs
      BY <1>1, <2>1
    <3> HIDE DEF msgs
    <3>3. Said("far", phase["far"])' = 2
      BY <1>1, <2>1 DEF Said
    <3>4. Ordered(msgs) /\ \A i \in 1..Len(msgs) : RankAt(msgs, i) <= 2
      BY <3>1 DEF Ordered
    <3> QED
      BY <1>2, <3>2, <3>3, <3>4 DEF Heard, Ordered, RankAt
  <2>2. CASE protocol = "ADC"
    <3> DEFINE msgs == <<Bare("SUP")>>
    <3>1. Len(msgs) = 1 /\ RankAt(msgs, 1) = 1
      BY DEF RankAt, Rank, Bare, Msg
    <3>2. chan'["near"] = msgs
      BY <1>1, <2>2
    <3> HIDE DEF msgs
    <3>3. Said("far", phase["far"])' = 1
      BY <1>1, <2>2 DEF Said
    <3>4. Ordered(msgs) /\ \A i \in 1..Len(msgs) : RankAt(msgs, i) <= 1
      BY <3>1 DEF Ordered
    <3> QED
      BY <1>2, <3>2, <3>3, <3>4 DEF Heard, Ordered, RankAt
  <2> QED
    BY <2>1, <2>2 DEF TypeInv
<1> QED
  BY <1>3, <1>4 DEF Flow, Sides

LEMMA SameFlow == ASSUME Flow, UNCHANGED <<protocol, phase, chan>> PROVE Flow'
BY DEF Flow, Heard, Said, Ordered, RankAt

LEMMA FlowStep == TypeInv /\ Flow /\ [Next]_vars => Flow'
<1> SUFFICES ASSUME TypeInv, Flow, [Next]_vars PROVE Flow'
  OBVIOUS
<1>1. CASE UNCHANGED vars
  BY <1>1, SameFlow DEF vars
<1>2. CASE QueueChanges /\ UNCHANGED protocol
  BY <1>2, SameFlow DEF QueueChanges
<1>3. ASSUME NEW s \in Sides, Break(s), UNCHANGED protocol PROVE Flow'
  BY <1>3, PutFlows DEF Break
<1> QED
  BY <1>1, <1>2, <1>3, ReceiveFlows, OpenFlows DEF Next

LEMMA DrawnStep == Drawn /\ TypeInv /\ [Next]_vars => Drawn'
<1> SUFFICES ASSUME Drawn, TypeInv, [Next]_vars PROVE Drawn'
  OBVIOUS
<1>1. CASE UNCHANGED vars
  BY <1>1 DEF vars, Drawn
<1>2. ASSUME QueueChanges, UNCHANGED protocol PROVE Drawn'
  <2>1. delayed' \in BOOLEAN
    <3>1. PICK s \in Sides : Queue(s)
      BY <1>2 DEF QueueChanges
    <3>2. delayed' = delayed \/ delayed' = (delayed \/ s = asker)
      BY <3>1, Zenon DEF Queue
    <3> QED
      BY <3>2, Zenon DEF Drawn
  <2>2. UNCHANGED <<number, rounds>>
    BY <1>2 DEF QueueChanges
  <2> QED
    BY <1>2, <2>1, <2>2 DEF Drawn
<1>3. ASSUME Open, UNCHANGED protocol PROVE Drawn'
  <2>1. number' \in [Sides -> Numbers] /\ delayed' = FALSE
    BY <1>3 DEF Open
  <2>2. rounds' \in 0..MaxRounds
    BY <1>3, HandshakeAssumption DEF Open, Drawn
  <2> QED
    BY <1>3, <2>1, <2>2 DEF Drawn
<1>4. ASSUME NEW s \in Sides, Receive(s), UNCHANGED protocol PROVE Drawn'
  <2>1. UNCHANGED <<delayed, number, rounds>>
    BY <1>4 DEF Receive, MyNick, CLock, Direction, Key, SUP, INF, EOF
  <2> QED
    BY <1>4, <2>1 DEF Drawn
<1>5. ASSUME NEW s \in Sides, Break(s), UNCHANGED protocol PROVE Drawn'
  BY <1>5 DEF Break, Drawn
<1> QED
  BY <1>1, <1>2, <1>3, <1>4, <1>5 DEF Next

\* Between two clients there are never more than five messages on their way
\* to either, whatever breaks and however they start over: what the bounded
\* channels of a run show for its numbers and its count of connections.
THEOREM TypeOKHolds == Spec => []TypeOK
<1>1. Init => Flow /\ Drawn
  <2> SUFFICES ASSUME Init PROVE Flow /\ Drawn
    OBVIOUS
  <2>1. \A s \in Sides : chan[s] = <<>> /\ Len(<<>>) = 0
    BY DEF Init
  <2>2. Flow
    BY <2>1 DEF Flow, Heard, Ordered
  <2>3. rounds \in 0..MaxRounds
    BY HandshakeAssumption DEF Init
  <2>4. protocol \in Protocols /\ delayed = FALSE /\ number \in [Sides -> Numbers]
    BY DEF Init
  <2> QED
    BY <2>2, <2>3, <2>4, Zenon DEF Drawn
<1>2. ASSUME Inv, Flow, Drawn PROVE TypeOK
  <2>1. ASSUME NEW s \in Sides
        PROVE  Len(chan[s]) <= 5 /\ \A i \in 1..Len(chan[s]) : chan[s][i].kind \in Kinds
    <3>1. chan[s] \in Seq(Messages)
      BY <1>2 DEF Inv, TypeInv
    <3>2. \A m \in Messages : m.kind \in Kinds
      BY DEF Messages, Spoken, Kinds
    <3> QED
      BY <1>2, <3>1, <3>2, FiveAtMost DEF Flow, Heard
  <2>2. phase \in [Sides -> {"none", "SUPNICK", "LOCK", "DIRECTION", "KEY", "INF",
                             "unassigned", "added", "gone"}]
    BY <1>2 DEF Inv, TypeInv, Phases
  <2> QED
    BY <1>2, <2>1, <2>2 DEF Inv, TypeInv, Drawn, TypeOK, Roles
<1>3. Inv => TypeInv
  BY DEF Inv
<1> QED
  BY <1>1, <1>2, <1>3, Start, Step, FlowStep, DrawnStep, PTL DEF Spec
=============================================================================
