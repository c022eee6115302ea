--------------------------- MODULE Teleop_proofs ---------------------------
(***************************************************************************)
(* What holds of the teleop link for every number of pages and children,   *)
(* every script and every fault: an e-stop that was read is kept, whoever  *)
(* connected last is served, and a newer target is never replaced by an    *)
(* older one.                                                              *)
(*                                                                         *)
(* The last one rests on the socket between child and parent.  A child     *)
(* announces its one connection before it forwards anything, only one      *)
(* child lives at a time, and it was born after all the others; so what    *)
(* waits in the socket is ordered by birth, and the sequence numbers start *)
(* over only when nothing of the child that sent the held target can come  *)
(* any more.                                                               *)
(***************************************************************************)
EXTENDS Teleop, SequenceTheorems, TLAPS

Stages == {"unborn", "starting", "connecting", "pumping", "dead"}

Seqs == -1 .. ResetGap + 1

\* A message as a child sends it: its targets have a number a script can have.
Sendable(m) ==
    /\ m.from \in Kids
    /\ m.kind = "data" => m.frame.page \in Pages /\ m.frame.seq \in 0 .. ResetGap + 1

Sent == {m \in Messages : Sendable(m)}

LinkTypeOK ==
    /\ child \in [Kids -> Stages]
    /\ inbox \in Seq(Sent)
    /\ lastSeq \in Seqs
    /\ {node, proc, victim} \subseteq Kids \cup {Nobody}
    /\ held # Nobody => held.via \in Kids /\ held.seq \in Seqs

Born(k) == child[k] # "unborn"

\* The child made its connection, and may be dead since.
Joined(k) == child[k] \in {"pumping", "dead"}

\* The living child is the one in _proc.
OneLives ==
    /\ pc = "spawning" => proc = Nobody
    /\ \A k \in Living : proc = k

\* Children are born in the order of their numbers, and the one that lives is
\* the last.
BornInOrder ==
    /\ \A j, k \in Kids : Born(j) /\ ~Born(k) => j < k
    /\ \A j \in Kids, k \in Living : Born(j) => j <= k

\* What waits in the socket waits in the order of the births of its senders.
QueueInOrder ==
    /\ \A i, j \in 1 .. Len(inbox) : i <= j => inbox[i].from <= inbox[j].from
    /\ \A i \in 1 .. Len(inbox) : Born(inbox[i].from)

\* A child announces its connection once, before it forwards a target.
Speaks(m) == m.kind \in {"connected", "data"}

AnnouncedFirst ==
    /\ \A i \in 1 .. Len(inbox) : Speaks(inbox[i]) => Joined(inbox[i].from)
    /\ \A i, j \in 1 .. Len(inbox) :
          i < j /\ inbox[j].kind = "connected" /\ inbox[i].from = inbox[j].from
          => ~Speaks(inbox[i])

\* The target held came through a child that announced itself before and that
\* nothing in the socket precedes.
HeldIsNewest ==
    held # Nobody =>
        /\ Joined(held.via)
        /\ \A i \in 1 .. Len(inbox) :
              /\ held.via <= inbox[i].from
              /\ inbox[i].kind = "connected" => inbox[i].from # held.via

\* Nothing of this child is in the socket or will ever come.
Silent(k) ==
    /\ k \notin Living
    /\ \A i \in 1 .. Len(inbox) : inbox[i].from # k

\* The number of the target held is the one compared with, until a successor
\* of its child has announced itself.
NumbersContinue == held # Nobody => lastSeq = held.seq \/ Silent(held.via)

LinkIsOrdered ==
    /\ OneLives
    /\ BornInOrder
    /\ QueueInOrder
    /\ AnnouncedFirst
    /\ HeldIsNewest
    /\ NumbersContinue

LinkInv ==
    /\ LinkTypeOK
    /\ phase = "running" => LinkIsOrdered

RelayTypeOK ==
    /\ peers \in [browsers: SUBSET Pages, nodes: SUBSET Kids]
    /\ latest \in [browser: Pages \cup {Nobody}, node: Kids \cup {Nobody}]

-----------------------------------------------------------------------------
(* What a step may do to the order of the link, whatever action it is.      *)

\* A child comes nearer to its end, and the others stay what they are.
Advances(k) ==
    /\ \A j \in Kids \ {k} : child'[j] = child[j]
    /\ child'[k] \in Stages \ {"unborn"}
    /\ Joined(k) => child'[k] \in {"pumping", "dead"}

LEMMA KidsAreNumbers == \A k \in Kids : k \in Int
BY RelayAssumption

LEMMA LivingFacts ==
    ASSUME NEW k \in Living
    PROVE  k \in Kids /\ Born(k) /\ child[k] # "dead"
BY DEF Living, Born

(* A living child moves on and says nothing.                                *)
LEMMA QuietStep ==
    ASSUME LinkTypeOK, LinkIsOrdered, NEW k \in Living, Advances(k), UNCHANGED inbox,
           UNCHANGED <<held, lastSeq, pc, proc>>
    PROVE  LinkIsOrdered'
<1>1. k \in Kids /\ Born(k) /\ child[k] # "dead"
  BY LivingFacts
<1>2. /\ \A j \in Kids : Born(j)' <=> Born(j)
      /\ \A j \in Kids : Joined(j) => Joined(j)'
      /\ Living' \subseteq Living
  BY <1>1 DEF Advances, Born, Joined, Living, LinkTypeOK, Stages
<1>3. OneLives'
  BY <1>2 DEF OneLives, LinkIsOrdered
<1>4. BornInOrder'
  BY <1>2 DEF BornInOrder, LinkIsOrdered
<1>5. \A i \in 1 .. Len(inbox) : inbox[i].from \in Kids
  BY DEF LinkTypeOK, Sent, Sendable
<1>6. QueueInOrder'
  BY <1>2, <1>5 DEF QueueInOrder, LinkIsOrdered
<1>7. AnnouncedFirst'
  BY <1>2, <1>5 DEF AnnouncedFirst, Speaks, LinkIsOrdered
<1>8. HeldIsNewest'
  BY <1>2 DEF HeldIsNewest, LinkTypeOK, LinkIsOrdered
<1>9. NumbersContinue'
  BY <1>2 DEF NumbersContinue, Silent, LinkIsOrdered
<1> QED BY <1>3, <1>4, <1>6, <1>7, <1>8, <1>9 DEF LinkIsOrdered

(* A living child says something as it moves on: an announcement before it  *)
(* joins and only then, its targets after it joined.                        *)
LEMMA SpokenStep ==
    ASSUME LinkTypeOK, LinkIsOrdered, NEW k \in Living, Advances(k), NEW m \in Sent,
           m.from = k, Speaks(m) => child'[k] \in {"pumping", "dead"},
           m.kind = "connected" => ~Joined(k),
           inbox' = Append(inbox, m), UNCHANGED <<held, lastSeq, pc, proc>>
    PROVE  LinkIsOrdered'
<1>1. k \in Kids /\ Born(k) /\ child[k] # "dead"
  BY LivingFacts
<1>2. /\ \A j \in Kids : Born(j)' <=> Born(j)
      /\ \A j \in Kids : Joined(j) => Joined(j)'
      /\ Living' \subseteq Living
  BY <1>1 DEF Advances, Born, Joined, Living, LinkTypeOK, Stages
<1>3. OneLives'
  BY <1>2 DEF OneLives, LinkIsOrdered
<1>4. BornInOrder'
  BY <1>2 DEF BornInOrder, LinkIsOrdered
<1>5. \A i \in 1 .. Len(inbox) : inbox[i].from \in Kids
  BY DEF LinkTypeOK, Sent, Sendable
<1>6. /\ Len(inbox') = Len(inbox) + 1
      /\ Len(inbox) \in Nat
      /\ \A i \in 1 .. Len(inbox) : inbox'[i] = inbox[i]
      /\ inbox'[Len(inbox) + 1] = m
  BY AppendProperties DEF LinkTypeOK
<1>7. \A i \in 1 .. Len(inbox') : i \in 1 .. Len(inbox) \/ i = Len(inbox) + 1
  BY <1>6
<1>8. \A i \in 1 .. Len(inbox) : inbox[i].from <= k
  BY <1>1, <1>5 DEF LinkIsOrdered, QueueInOrder, BornInOrder
<1>9. QueueInOrder'
  <2>1. ASSUME NEW i \in 1 .. Len(inbox') PROVE child'[inbox'[i].from] # "unborn"
    <3>1. CASE i \in 1 .. Len(inbox)
      BY <1>2, <1>5, <1>6, <3>1 DEF LinkIsOrdered, QueueInOrder, Born
    <3>2. CASE i = Len(inbox) + 1
      BY <1>1, <1>2, <1>6, <3>2 DEF Born
    <3> QED BY <1>7, <3>1, <3>2
  <2>2. ASSUME NEW i \in 1 .. Len(inbox'), NEW j \in 1 .. Len(inbox'), i <= j
        PROVE  inbox'[i].from <= inbox'[j].from
    <3>1. CASE j \in 1 .. Len(inbox)
      BY <1>6, <2>2, <3>1 DEF LinkIsOrdered, QueueInOrder
    <3>2. CASE j = Len(inbox) + 1 /\ i \in 1 .. Len(inbox)
      BY <1>6, <1>8, <3>2
    <3>3. CASE j = Len(inbox) + 1 /\ i = Len(inbox) + 1
      BY <1>1, <1>6, <3>3, RelayAssumption
    <3> QED BY <1>7, <3>1, <3>2, <3>3
  <2> QED BY <2>1, <2>2 DEF QueueInOrder, Born
<1>10. AnnouncedFirst'
  <2>1. ASSUME NEW i \in 1 .. Len(inbox'), Speaks(inbox'[i])
        PROVE  child'[inbox'[i].from] \in {"pumping", "dead"}
    <3>1. CASE i \in 1 .. Len(inbox)
      <4>1. Joined(inbox[i].from)
        BY <1>6, <2>1, <3>1 DEF LinkIsOrdered, AnnouncedFirst
      <4> QED BY <1>2, <1>5, <1>6, <3>1, <4>1 DEF Joined
    <3>2. CASE i = Len(inbox) + 1
      BY <1>6, <2>1, <3>2
    <3> QED BY <1>7, <3>1, <3>2
  <2>2. ASSUME NEW i \in 1 .. Len(inbox'), NEW j \in 1 .. Len(inbox'), i < j,
               inbox'[j].kind = "connected", inbox'[i].from = inbox'[j].from
        PROVE  ~Speaks(inbox'[i])
    <3>1. CASE j \in 1 .. Len(inbox)
      BY <1>6, <2>2, <3>1 DEF LinkIsOrdered, AnnouncedFirst
    <3>2. CASE j = Len(inbox) + 1
      <4>1. i \in 1 .. Len(inbox)
        BY <1>6, <1>7, <2>2, <3>2
      <4>2. inbox[i].from = k /\ ~Joined(k) /\ inbox'[i] = inbox[i]
        BY <1>6, <2>2, <3>2, <4>1
      <4> QED BY <4>1, <4>2 DEF LinkIsOrdered, AnnouncedFirst
    <3> QED BY <1>7, <3>1, <3>2
  <2> QED BY <2>1, <2>2 DEF AnnouncedFirst, Speaks, Joined
<1>11. HeldIsNewest'
  <2> SUFFICES ASSUME held # Nobody PROVE HeldIsNewest'
    BY DEF HeldIsNewest
  <2>1. held.via \in Kids /\ Joined(held.via) /\ Joined(held.via)'
    BY <1>2 DEF LinkTypeOK, LinkIsOrdered, HeldIsNewest
  <2>2. held.via <= k
    BY <2>1 DEF LinkIsOrdered, BornInOrder, Born, Joined
  <2>3. ASSUME NEW i \in 1 .. Len(inbox')
        PROVE  /\ held.via <= inbox'[i].from
               /\ inbox'[i].kind = "connected" => inbox'[i].from # held.via
    <3>1. CASE i \in 1 .. Len(inbox)
      BY <1>6, <3>1 DEF LinkIsOrdered, HeldIsNewest
    <3>2. CASE i = Len(inbox) + 1
      BY <1>6, <2>1, <2>2, <3>2
    <3> QED BY <1>7, <3>1, <3>2
  <2> QED BY <2>1, <2>3 DEF HeldIsNewest
<1>12. NumbersContinue'
  <2>1. ASSUME NEW j \in Kids, Silent(j) PROVE Silent(j)'
    BY <1>2, <1>6, <1>7, <2>1 DEF Silent
  <2> QED BY <2>1 DEF NumbersContinue, LinkIsOrdered, LinkTypeOK
<1> QED BY <1>3, <1>4, <1>9, <1>10, <1>11, <1>12 DEF LinkIsOrdered

LEMMA TailFacts ==
    ASSUME LinkTypeOK, inbox # <<>>, inbox' = Tail(inbox)
    PROVE  /\ Head(inbox) \in Sent
           /\ Head(inbox) = inbox[1]
           /\ 1 \in 1 .. Len(inbox)
           /\ Len(inbox) \in Nat
           /\ inbox' \in Seq(Sent)
           /\ Len(inbox') = Len(inbox) - 1
           /\ \A i \in 1 .. Len(inbox') : inbox'[i] = inbox[i + 1] /\ i + 1 \in 1 .. Len(inbox)
BY HeadTailProperties DEF LinkTypeOK

(* A message is taken from the socket: what follows it is still in order,   *)
(* and nothing that follows the targets of a child announces that child.    *)
LEMMA TakenStep ==
    ASSUME LinkTypeOK, LinkIsOrdered, inbox # <<>>, inbox' = Tail(inbox),
           UNCHANGED <<child, pc, proc>>
    PROVE  /\ OneLives' /\ BornInOrder' /\ QueueInOrder' /\ AnnouncedFirst'
           /\ \A i \in 1 .. Len(inbox') :
                 /\ inbox[1].from <= inbox'[i].from
                 /\ inbox'[i].from = inbox[1].from /\ inbox'[i].kind = "connected"
                    => ~Speaks(inbox[1])
<1>1. /\ 1 \in 1 .. Len(inbox)
      /\ Len(inbox) \in Nat
      /\ Len(inbox') = Len(inbox) - 1
      /\ \A i \in 1 .. Len(inbox') : inbox'[i] = inbox[i + 1] /\ i + 1 \in 1 .. Len(inbox)
  BY TailFacts
<1>2. OneLives' /\ BornInOrder'
  BY DEF OneLives, BornInOrder, Born, Living, LinkIsOrdered
<1>3. QueueInOrder'
  BY <1>1 DEF QueueInOrder, Born, LinkIsOrdered
<1>4. AnnouncedFirst'
  BY <1>1 DEF AnnouncedFirst, Joined, Speaks, LinkIsOrdered
<1>5. ASSUME NEW i \in 1 .. Len(inbox')
      PROVE  /\ inbox[1].from <= inbox'[i].from
             /\ inbox'[i].from = inbox[1].from /\ inbox'[i].kind = "connected"
                => ~Speaks(inbox[1])
  <2>1. i + 1 \in 1 .. Len(inbox) /\ 1 <= i + 1 /\ 1 < i + 1 /\ inbox'[i] = inbox[i + 1]
    BY <1>1
  <2> QED BY <1>1, <2>1 DEF LinkIsOrdered, QueueInOrder, AnnouncedFirst
<1> QED BY <1>2, <1>3, <1>4, <1>5

(* The target held stays, and so does the number it is compared with.       *)
LEMMA KeptStep ==
    ASSUME LinkTypeOK, LinkIsOrdered, inbox # <<>>, inbox' = Tail(inbox),
           UNCHANGED <<child, pc, proc, held, lastSeq>>
    PROVE  LinkIsOrdered'
<1>1. \A i \in 1 .. Len(inbox') : inbox'[i] = inbox[i + 1] /\ i + 1 \in 1 .. Len(inbox)
  BY TailFacts
<1>2. HeldIsNewest'
  BY <1>1 DEF HeldIsNewest, Joined, LinkIsOrdered
<1>3. NumbersContinue'
  BY <1>1 DEF NumbersContinue, Silent, Living, LinkIsOrdered
<1> QED BY <1>2, <1>3, TakenStep DEF LinkIsOrdered

(* A child's announcement starts the numbers over: the target held came     *)
(* through an earlier child, and nothing of that one is left.               *)
LEMMA AnnouncedStep ==
    ASSUME LinkTypeOK, LinkIsOrdered, inbox # <<>>, inbox' = Tail(inbox),
           Head(inbox).kind = "connected", UNCHANGED <<child, pc, proc, held>>
    PROVE  LinkIsOrdered'
<1>1. /\ 1 \in 1 .. Len(inbox) /\ Head(inbox) = inbox[1]
      /\ inbox[1].from \in Kids
      /\ \A i \in 1 .. Len(inbox') : inbox'[i] = inbox[i + 1] /\ i + 1 \in 1 .. Len(inbox)
  BY TailFacts DEF Sent, Sendable
<1>2. HeldIsNewest'
  BY <1>1 DEF HeldIsNewest, Joined, LinkIsOrdered
<1>3. ASSUME held # Nobody PROVE Silent(held.via)'
  <2>1. held.via \in Kids /\ Joined(held.via)
    BY <1>3 DEF LinkTypeOK, LinkIsOrdered, HeldIsNewest
  <2>2. held.via <= inbox[1].from /\ inbox[1].from # held.via
    BY <1>1, <1>3 DEF LinkIsOrdered, HeldIsNewest
  <2>3. held.via < inbox[1].from
    BY <1>1, <2>1, <2>2, KidsAreNumbers
  <2>4. held.via \notin Living
    <3>1. Born(inbox[1].from)
      BY <1>1 DEF LinkIsOrdered, QueueInOrder
    <3>2. held.via \in Living => inbox[1].from <= held.via
      BY <1>1, <3>1 DEF LinkIsOrdered, BornInOrder
    <3> QED BY <1>1, <2>1, <2>3, <3>2, KidsAreNumbers
  <2>5. \A i \in 1 .. Len(inbox') : inbox'[i].from # held.via
    <3>1. \A i \in 1 .. Len(inbox') : inbox[1].from <= inbox'[i].from
      BY TakenStep
    <3>2. \A i \in 1 .. Len(inbox') : inbox'[i] \in Sent
      BY TailFacts
    <3>3. \A i \in 1 .. Len(inbox') : inbox'[i].from \in Kids
      BY <3>2 DEF Sent, Sendable
    <3> QED BY <1>1, <2>1, <2>3, <3>1, <3>3, KidsAreNumbers
  <2> QED BY <2>4, <2>5 DEF Silent, Living
<1> QED BY <1>2, <1>3, TakenStep DEF LinkIsOrdered, NumbersContinue

(* A target is stored: nothing older waits, and its child's announcement is *)
(* behind it.                                                               *)
LEMMA StoredStep ==
    ASSUME LinkTypeOK, LinkIsOrdered, inbox # <<>>, inbox' = Tail(inbox),
           Head(inbox).kind = "data", UNCHANGED <<child, pc, proc>>,
           lastSeq' = Head(inbox).frame.seq,
           held' = Held(Head(inbox).frame, Head(inbox).from)
    PROVE  LinkIsOrdered'
<1>1. /\ 1 \in 1 .. Len(inbox) /\ Head(inbox) = inbox[1]
      /\ held'.via = inbox[1].from /\ held'.seq = lastSeq'
      /\ Speaks(inbox[1])
  BY TailFacts DEF Held, Speaks
<1>2. HeldIsNewest'
  <2>1. Joined(inbox[1].from)
    BY <1>1 DEF LinkIsOrdered, AnnouncedFirst
  <2> QED BY <1>1, <2>1, TakenStep DEF HeldIsNewest, Joined
<1> QED BY <1>1, <1>2, TakenStep DEF LinkIsOrdered, NumbersContinue

(* A target is forgotten.                                                   *)
LEMMA ForgottenStep ==
    ASSUME LinkTypeOK, LinkIsOrdered, inbox # <<>>, inbox' = Tail(inbox),
           held' = Nobody, UNCHANGED <<child, pc, proc>>
    PROVE  LinkIsOrdered'
BY TakenStep DEF LinkIsOrdered, HeldIsNewest, NumbersContinue

(* A child is born when the one before it is dead.                          *)
LEMMA BirthStep ==
    ASSUME LinkTypeOK, LinkIsOrdered, Spawn
    PROVE  LinkIsOrdered'
<1>1. PICK k \in Unborn :
          /\ \A j \in Unborn : k <= j
          /\ child' = [child EXCEPT ![k] = "starting"]
          /\ proc' = k
  BY DEF Spawn
<1>2. pc = "spawning" /\ pc' = "looping" /\ UNCHANGED <<inbox, held, lastSeq>>
  BY DEF Spawn, linkVars, storeVars
<1>3. k \in Kids /\ child[k] = "unborn"
  BY DEF Unborn
<1>4. Living = {}
  BY <1>2, RelayAssumption DEF LinkIsOrdered, OneLives, Living
<1>5. /\ child'[k] = "starting"
      /\ \A j \in Kids \ {k} : child'[j] = child[j]
      /\ Living' = {k}
  BY <1>1, <1>3, <1>4 DEF LinkTypeOK, Living
<1>6. \A j \in Kids : Joined(j) => Joined(j)'
  BY <1>3, <1>5 DEF Joined
<1>7. OneLives'
  BY <1>1, <1>2, <1>5 DEF OneLives
<1>8. BornInOrder'
  <2>1. \A j \in Kids : ~Born(j) => k <= j
    BY <1>1 DEF Unborn, Born
  <2>2. \A j \in Kids : Born(j) => j < k
    BY <1>3 DEF LinkIsOrdered, BornInOrder, Born
  <2>3. \A j \in Kids : Born(j)' <=> Born(j) \/ j = k
    BY <1>3, <1>5 DEF Born
  <2>4. \A i, j \in Kids : Born(i) /\ ~Born(j) => i < j
    BY DEF LinkIsOrdered, BornInOrder
  <2>5. \A i, j \in Kids : Born(i)' /\ ~Born(j)' => i < j
    BY <1>3, <2>1, <2>3, <2>4, KidsAreNumbers
  <2>6. \A j \in Kids : Born(j)' => j <= k
    BY <1>3, <2>2, <2>3, KidsAreNumbers
  <2> QED BY <1>5, <2>5, <2>6 DEF BornInOrder
<1>9. \A i \in 1 .. Len(inbox) : inbox[i].from \in Kids
  BY DEF LinkTypeOK, Sent, Sendable
<1>10. QueueInOrder'
  BY <1>2, <1>3, <1>5, <1>9 DEF QueueInOrder, Born, LinkIsOrdered
<1>11. AnnouncedFirst'
  BY <1>2, <1>6, <1>9 DEF AnnouncedFirst, Speaks, LinkIsOrdered
<1>12. HeldIsNewest'
  BY <1>2, <1>6 DEF HeldIsNewest, LinkTypeOK, LinkIsOrdered
<1>13. NumbersContinue'
  <2>1. held # Nobody => held.via # k
    BY <1>3 DEF LinkIsOrdered, HeldIsNewest, Joined
  <2> QED BY <1>2, <1>5, <2>1 DEF NumbersContinue, Silent, LinkIsOrdered
<1> QED BY <1>7, <1>8, <1>10, <1>11, <1>12, <1>13 DEF LinkIsOrdered

-----------------------------------------------------------------------------
(* What the children put into the socket.                                   *)

LEMMA ControlIsSent ==
    ASSUME NEW k \in Kids, NEW t \in {"hello", "connected", "disconnected"}
    PROVE  /\ Control(k, t) \in Sent
           /\ Control(k, t).from = k
           /\ Control(k, t).kind = t
BY DEF Control, Sent, Sendable, Messages

LEMMA DataIsSent ==
    ASSUME NEW k \in Kids, NEW p \in Pages, NEW n \in 0 .. ResetGap + 1
    PROVE  /\ Data(k, [page |-> p, seq |-> n]) \in Sent
           /\ Data(k, [page |-> p, seq |-> n]).from = k
           /\ Data(k, [page |-> p, seq |-> n]).kind = "data"
BY ChannelAssumption DEF Data, Sent, Sendable, Messages, Frames

LEMMA PostedFacts ==
    ASSUME LinkTypeOK, NEW m \in Sent
    PROVE  /\ Posted(m) \in Seq(Sent)
           /\ Delivered(m) \in Seq(Sent)
           /\ phase = "running" => Posted(m) = Append(inbox, m)
           /\ phase = "running" => Delivered(m) \in {inbox, Append(inbox, m)}
BY AppendProperties DEF LinkTypeOK, Posted, Delivered

(* The relay hands a target to the child it holds as the node.              *)
LEMMA ForwardStep ==
    ASSUME LinkInv, NEW p \in Pages, NEW n \in 0 .. ResetGap + 1,
           inbox' = Forwarded([page |-> p, seq |-> n]), node' \in Kids \cup {Nobody},
           UNCHANGED <<child, proc, pc, held, lastSeq, phase, victim>>
    PROVE  LinkInv'
<1> DEFINE m == Data(node, [page |-> p, seq |-> n])
<1>1. CASE ~(node # Nobody /\ child[node] = "pumping")
  <2>1. inbox' = inbox
    BY <1>1 DEF Forwarded
  <2> QED
    BY <2>1 DEF LinkInv, LinkTypeOK, LinkIsOrdered, OneLives, BornInOrder, QueueInOrder,
                AnnouncedFirst, HeldIsNewest, NumbersContinue, Silent, Born, Joined, Living
<1>2. CASE node # Nobody /\ child[node] = "pumping"
  <2>1. node \in Kids /\ node \in Living /\ LinkTypeOK
    BY <1>2 DEF LinkInv, LinkTypeOK, Living
  <2>2. m \in Sent /\ m.from = node /\ m.kind = "data"
    BY <2>1, DataIsSent
  <2>3. inbox' = Delivered(m)
    BY <1>2 DEF Forwarded
  <2>4. LinkTypeOK'
    BY <2>1, <2>2, <2>3, PostedFacts DEF LinkTypeOK
  <2>5. ASSUME phase = "running" PROVE LinkIsOrdered'
    <3>1. LinkIsOrdered /\ Advances(node)
      BY <1>2, <2>1, <2>5 DEF LinkInv, Advances, Joined, Stages
    <3>2. inbox' \in {inbox, Append(inbox, m)}
      BY <2>1, <2>2, <2>3, <2>5, PostedFacts
    <3>3. CASE inbox' = inbox
      BY <2>1, <3>1, <3>3, QuietStep
    <3>4. CASE inbox' = Append(inbox, m)
      <4>1. Speaks(m) => child'[node] \in {"pumping", "dead"}
        BY <1>2
      <4>2. m.kind = "connected" => ~Joined(node)
        BY <2>2
      <4> HIDE DEF m
      <4> QED BY <2>1, <2>2, <3>1, <3>4, <4>1, <4>2, SpokenStep
    <3> QED BY <3>2, <3>3, <3>4
  <2> QED BY <2>4, <2>5 DEF LinkInv
<1> QED BY <1>1, <1>2

-----------------------------------------------------------------------------
(* One lemma for each action that touches the order.                        *)

\* What the order of the link is about.
orderVars == <<child, inbox, proc, pc, held, lastSeq, phase, victim>>

LEMMA SameOrder ==
    ASSUME LinkInv, node' \in Kids \cup {Nobody}, UNCHANGED orderVars
    PROVE  LinkInv'
BY DEF LinkInv, LinkTypeOK, LinkIsOrdered, OneLives, BornInOrder, QueueInOrder,
       AnnouncedFirst, HeldIsNewest, NumbersContinue, Silent, Born, Joined, Living, orderVars

(* A child that says one thing of its own, or nothing, as it moves on.      *)
LEMMA ChildSays ==
    ASSUME LinkInv, NEW k \in Living, NEW t \in {"hello", "connected", "disconnected"},
           child' = [child EXCEPT ![k] = child'[k]], child'[k] \in Stages \ {"unborn"},
           Joined(k) => child'[k] \in {"pumping", "dead"},
           t = "connected" => ~Joined(k) /\ child'[k] = "pumping",
           inbox' \in {inbox, Posted(Control(k, t))},
           node' \in Kids \cup {Nobody}, UNCHANGED <<proc, pc, held, lastSeq, phase, victim>>
    PROVE  LinkInv'
<1> DEFINE m == Control(k, t)
<1>1. k \in Kids /\ LinkTypeOK
  BY DEF Living, LinkInv
<1>2. m \in Sent /\ m.from = k /\ m.kind = t
  BY <1>1, ControlIsSent
<1>3. LinkTypeOK'
  <2>1. child' \in [Kids -> Stages]
    BY <1>1 DEF LinkTypeOK, Stages
  <2>2. inbox' \in Seq(Sent)
    BY <1>1, <1>2, PostedFacts DEF LinkTypeOK
  <2> QED BY <1>1, <2>1, <2>2 DEF LinkTypeOK
<1>4. Advances(k)
  BY <1>1 DEF Advances, LinkTypeOK
<1>5. ASSUME phase = "running" PROVE LinkIsOrdered'
  <2>1. LinkIsOrdered
    BY <1>5 DEF LinkInv
  <2>2. CASE inbox' = inbox
    BY <1>1, <1>4, <2>1, <2>2, QuietStep
  <2>3. CASE inbox' = Append(inbox, m)
    <3>1. Speaks(m) => child'[k] \in {"pumping", "dead"}
      BY <1>2 DEF Speaks
    <3>2. m.kind = "connected" => ~Joined(k)
      BY <1>2
    <3> HIDE DEF m
    <3> QED BY <1>1, <1>2, <1>4, <2>1, <2>3, <3>1, <3>2, SpokenStep
  <2> QED BY <1>1, <1>2, <1>5, <2>2, <2>3, PostedFacts
<1> QED BY <1>3, <1>5 DEF LinkInv

LEMMA HelloStep ==
    ASSUME LinkInv, NEW k \in Kids, Hello(k)
    PROVE  LinkInv'
<1>1. k \in Living /\ UNCHANGED <<node, proc, pc, held, lastSeq, phase, victim>>
  BY DEF Hello, relayVars, linkVars, storeVars, stopVars
<1>2. child' = IF child[k] = "starting" THEN [child EXCEPT ![k] = "connecting"] ELSE child
  BY DEF Hello
<1>3. /\ child' = [child EXCEPT ![k] = child'[k]]
      /\ child'[k] \in Stages \ {"unborn"}
      /\ Joined(k) => child'[k] \in {"pumping", "dead"}
  BY <1>1, <1>2 DEF LinkInv, LinkTypeOK, Living, Joined, Stages
<1>4. inbox' = Posted(Control(k, "hello"))
  BY DEF Hello
<1>5. node' \in Kids \cup {Nobody}
  BY <1>1 DEF LinkInv, LinkTypeOK
<1> QED BY <1>1, <1>3, <1>4, <1>5, ChildSays

LEMMA ConnectsStep ==
    ASSUME LinkInv, NEW k \in Kids, Connects(k)
    PROVE  LinkInv'
<1>1. /\ k \in Living /\ ~Joined(k) /\ node' = k
      /\ UNCHANGED <<proc, pc, held, lastSeq, phase, victim>>
  BY DEF Connects, AcceptNode, linkVars, storeVars, stopVars, Living, Joined
<1>2. child' = [child EXCEPT ![k] = "pumping"] /\ inbox' = Posted(Control(k, "connected"))
  BY DEF Connects
<1>3. child' = [child EXCEPT ![k] = child'[k]] /\ child'[k] = "pumping"
  BY <1>2 DEF LinkInv, LinkTypeOK
<1> QED BY <1>1, <1>2, <1>3, ChildSays DEF Stages

LEMMA ConnectFailsStep ==
    ASSUME LinkInv, NEW k \in Kids, ConnectFails(k)
    PROVE  LinkInv'
<1>1. /\ k \in Living /\ ~Joined(k)
      /\ UNCHANGED <<node, child, proc, pc, held, lastSeq, phase, victim>>
  BY DEF ConnectFails, relayVars, linkVars, storeVars, stopVars, Living, Joined
<1>2. inbox' = Posted(Control(k, "disconnected"))
  BY DEF ConnectFails
<1>3. child' = [child EXCEPT ![k] = child'[k]] /\ child'[k] \in Stages \ {"unborn"}
  BY <1>1 DEF LinkInv, LinkTypeOK, Living, Stages
<1>4. node' \in Kids \cup {Nobody}
  BY <1>1 DEF LinkInv, LinkTypeOK
<1> QED BY <1>1, <1>2, <1>3, <1>4, ChildSays

LEMMA CrashStep ==
    ASSUME LinkInv, NEW k \in Kids, Crash(k)
    PROVE  LinkInv'
<1>1. k \in Living /\ UNCHANGED <<node, proc, pc, held, lastSeq, phase, victim>>
  BY DEF Crash, relayVars, linkVars, storeVars, stopVars
<1>2. /\ child' = [child EXCEPT ![k] = "dead"]
      /\ inbox' \in {inbox, Posted(Control(k, "disconnected"))}
  BY DEF Crash, Ended
<1>3. child' = [child EXCEPT ![k] = child'[k]] /\ child'[k] = "dead"
  BY <1>2 DEF LinkInv, LinkTypeOK
<1>4. node' \in Kids \cup {Nobody}
  BY <1>1 DEF LinkInv, LinkTypeOK
<1> QED BY <1>1, <1>2, <1>3, <1>4, ChildSays DEF Stages

(* The supervisor reads the message at the head of the socket.              *)
LEMMA HandleStep ==
    ASSUME LinkInv, Handle
    PROVE  LinkInv'
<1>1. /\ phase = "running" /\ inbox # <<>> /\ inbox' = Tail(inbox)
      /\ UNCHANGED <<node, child, proc, pc, phase, victim>>
  BY DEF Handle, StopSeen, relayVars, stopVars
<1>2. LinkTypeOK /\ LinkIsOrdered
  BY <1>1 DEF LinkInv
<1>3. Head(inbox) \in Sent /\ inbox' \in Seq(Sent)
  BY <1>1, <1>2, TailFacts
<1>4. \/ UNCHANGED <<held, lastSeq>>
      \/ Head(inbox).kind = "connected" /\ ReadConnected
      \/ ReadDisconnected
      \/ /\ Head(inbox).kind = "data"
         /\ lastSeq' = Head(inbox).frame.seq
         /\ held' = Held(Head(inbox).frame, Head(inbox).from)
  BY DEF Handle, ReadHello, ReadTarget, linkVars, storeVars
<1>5. CASE UNCHANGED <<held, lastSeq>>
  BY <1>1, <1>2, <1>3, <1>5, KeptStep DEF LinkInv, LinkTypeOK
<1>6. CASE Head(inbox).kind = "connected" /\ ReadConnected
  <2>1. UNCHANGED held /\ lastSeq' = -1
    BY <1>6 DEF ReadConnected, storeVars
  <2>2. LinkIsOrdered'
    BY <1>1, <1>2, <1>6, <2>1, AnnouncedStep
  <2>3. -1 \in Seqs
    BY ChannelAssumption DEF Seqs
  <2> QED BY <1>1, <1>2, <1>3, <2>1, <2>2, <2>3 DEF LinkInv, LinkTypeOK
<1>7. CASE ReadDisconnected
  <2>1. held' = Nobody /\ UNCHANGED lastSeq
    BY <1>7 DEF ReadDisconnected
  <2>2. LinkIsOrdered'
    BY <1>1, <1>2, <2>1, ForgottenStep
  <2> QED BY <1>1, <1>2, <1>3, <2>1, <2>2 DEF LinkInv, LinkTypeOK
<1>8. CASE /\ Head(inbox).kind = "data"
           /\ lastSeq' = Head(inbox).frame.seq
           /\ held' = Held(Head(inbox).frame, Head(inbox).from)
  <2>1. LinkIsOrdered'
    BY <1>1, <1>2, <1>8, StoredStep
  <2>2. Head(inbox).from \in Kids /\ Head(inbox).frame.seq \in Seqs
    BY <1>3, <1>8, ChannelAssumption DEF Sent, Sendable, Seqs
  <2>3. held'.via \in Kids /\ held'.seq \in Seqs
    BY <1>8, <2>2 DEF Held
  <2> QED BY <1>1, <1>2, <1>3, <1>8, <2>1, <2>2, <2>3 DEF LinkInv, LinkTypeOK
<1> QED BY <1>4, <1>5, <1>6, <1>7, <1>8

LEMMA ReapsStep ==
    ASSUME LinkInv, Reaps
    PROVE  LinkInv'
<1>1. /\ phase = "running" /\ proc # Nobody /\ child[proc] = "dead"
      /\ proc' = Nobody /\ held' = Nobody
      /\ UNCHANGED <<node, child, inbox, pc, phase, lastSeq, victim>>
  BY DEF Reaps, ChildFoundDead, StopSeen, Reap, relayVars, stopVars
<1>2. LinkTypeOK /\ LinkIsOrdered
  BY <1>1 DEF LinkInv
<1>3. Living = {}
  BY <1>1, <1>2 DEF LinkIsOrdered, OneLives, Living
<1>4. OneLives'
  BY <1>1, <1>3 DEF OneLives, Living
<1>5. BornInOrder' /\ QueueInOrder' /\ AnnouncedFirst'
  BY <1>1, <1>2
     DEF LinkIsOrdered, BornInOrder, QueueInOrder, AnnouncedFirst, Born, Joined, Living, Speaks
<1>6. HeldIsNewest' /\ NumbersContinue'
  BY <1>1 DEF HeldIsNewest, NumbersContinue
<1> QED BY <1>1, <1>2, <1>4, <1>5, <1>6 DEF LinkInv, LinkTypeOK, LinkIsOrdered

LEMMA BeginsSpawnStep ==
    ASSUME LinkInv, BeginsSpawn
    PROVE  LinkInv'
<1>1. /\ phase = "running" /\ proc = Nobody
      /\ UNCHANGED <<node, child, inbox, proc, phase, lastSeq, held, victim>>
  BY DEF BeginsSpawn, SpawnDue, StopSeen, relayVars, linkVars, storeVars, stopVars
<1>2. LinkTypeOK /\ LinkIsOrdered
  BY <1>1 DEF LinkInv
<1> QED
  BY <1>1, <1>2
     DEF LinkInv, LinkTypeOK, LinkIsOrdered, OneLives, BornInOrder, QueueInOrder,
         AnnouncedFirst, HeldIsNewest, NumbersContinue, Silent, Born, Joined, Living, Speaks

LEMMA SpawnStep ==
    ASSUME LinkInv, Spawn
    PROVE  LinkInv'
<1>1. UNCHANGED <<node, inbox, phase, lastSeq, held, victim>>
  BY DEF Spawn, relayVars, linkVars, storeVars, stopVars
<1>2. child' \in [Kids -> Stages] /\ proc' \in Kids
  BY DEF Spawn, LinkInv, LinkTypeOK, Stages, Unborn
<1>3. LinkTypeOK'
  BY <1>1, <1>2 DEF LinkInv, LinkTypeOK
<1> QED BY <1>1, <1>3, BirthStep DEF LinkInv

LEMMA SpawnFailsStep ==
    ASSUME LinkInv, SpawnFails
    PROVE  LinkInv'
<1>1. /\ pc' = "looping"
      /\ UNCHANGED <<node, child, inbox, proc, phase, lastSeq, held, victim>>
  BY DEF SpawnFails, relayVars, linkVars, storeVars, stopVars
<1> QED
  BY <1>1
     DEF LinkInv, LinkTypeOK, LinkIsOrdered, OneLives, BornInOrder, QueueInOrder,
         AnnouncedFirst, HeldIsNewest, NumbersContinue, Silent, Born, Joined, Living, Speaks

(* Once stop() has begun nothing reads the socket any more.                 *)
LEMMA StoppingStep ==
    ASSUME LinkInv, StopBegins \/ StopShutsChild \/ StopJoins \/ StopSweeps \/ Leaves
    PROVE  LinkInv'
<1>1. phase' # "running" /\ UNCHANGED <<node, lastSeq, held>>
  BY DEF StopBegins, StopShutsChild, StopJoins, StopSweeps, Leaves, StopSeen,
         relayVars, linkVars, storeVars, stopVars
<1>2. child' \in [Kids -> Stages]
  BY DEF StopBegins, StopShutsChild, StopJoins, StopSweeps, Leaves, ShutsVictim, LinkInv,
         LinkTypeOK, Stages
<1>3. inbox' \in Seq(Sent)
  <2>1. CASE StopShutsChild
    <3>1. \/ inbox' = inbox
          \/ /\ victim # Nobody /\ child[victim] = "pumping"
             /\ inbox' = Posted(Control(victim, "disconnected"))
      BY <2>1 DEF StopShutsChild
    <3>2. ASSUME victim \in Kids PROVE Posted(Control(victim, "disconnected")) \in Seq(Sent)
      BY <3>2, ControlIsSent, PostedFacts DEF LinkInv
    <3> QED BY <3>1, <3>2 DEF LinkInv, LinkTypeOK
  <2>2. CASE StopBegins \/ StopJoins \/ Leaves
    BY <2>2 DEF StopBegins, StopJoins, Leaves, LinkInv, LinkTypeOK
  <2>3. CASE StopSweeps
    BY <2>3, EmptySeq DEF StopSweeps
  <2> QED BY <2>1, <2>2, <2>3
<1>4. {proc', victim'} \subseteq Kids \cup {Nobody}
  <2>1. proc' \in {proc, Nobody} /\ victim' \in {proc, victim, Nobody}
    <3>1. CASE StopBegins \/ StopJoins \/ Leaves
      BY <3>1 DEF StopBegins, StopJoins, Leaves, stopVars
    <3>2. CASE StopShutsChild \/ StopSweeps
      BY <3>2 DEF StopShutsChild, StopSweeps, ShutsVictim
    <3> QED BY <3>1, <3>2
  <2> QED BY <2>1 DEF LinkInv, LinkTypeOK
<1> QED BY <1>1, <1>2, <1>3, <1>4 DEF LinkInv, LinkTypeOK

-----------------------------------------------------------------------------
(* The invariant, and what follows from it.                                 *)

LEMMA LinkStarts == Init => LinkInv
<1> SUFFICES ASSUME Init PROVE LinkInv
  OBVIOUS
<1>1. /\ inbox = <<>> /\ lastSeq = -1 /\ held = Nobody /\ pc = "looping" /\ node = Nobody
      /\ victim = Nobody
  BY DEF Init, RelayInit, ChannelInit
<1>2. \/ child = [k \in Kids |-> IF k = 1 THEN "starting" ELSE "unborn"] /\ proc = 1
      \/ child = [k \in Kids |-> "unborn"] /\ proc = Nobody
  BY DEF Init, ChannelInit
<1>3. LinkTypeOK
  BY <1>1, <1>2, ChannelAssumption DEF LinkTypeOK, Stages, Seqs
<1>4. OneLives
  BY <1>1, <1>2 DEF OneLives, Living
<1>5. BornInOrder
  BY <1>2, RelayAssumption DEF BornInOrder, Born, Living
<1>6. QueueInOrder /\ AnnouncedFirst /\ HeldIsNewest /\ NumbersContinue
  BY <1>1 DEF QueueInOrder, AnnouncedFirst, HeldIsNewest, NumbersContinue
<1> QED BY <1>3, <1>4, <1>5, <1>6 DEF LinkInv, LinkIsOrdered

LEMMA ArrivesStep ==
    ASSUME LinkInv, NEW p \in Pages, NEW n \in 1 .. Len(Script[p]), Arrives(p, n)
    PROVE  LinkInv'
<1>1. n \in 0 .. ResetGap + 1
  BY ChannelAssumption
<1>2. /\ inbox' = Forwarded([page |-> p, seq |-> n])
      /\ UNCHANGED <<node, child, proc, pc, held, lastSeq, phase, victim>>
  BY DEF Arrives, relayVars, linkVars, storeVars, stopVars
<1>3. node' \in Kids \cup {Nobody}
  BY <1>2 DEF LinkInv, LinkTypeOK
<1> QED BY <1>1, <1>2, <1>3, ForwardStep

LEMMA LosesPageStep ==
    ASSUME LinkInv, NEW p \in Pages, LosesPage(p)
    PROVE  LinkInv'
<1>1. 0 \in 0 .. ResetGap + 1
  BY ChannelAssumption
<1>2. /\ inbox' = Forwarded([page |-> p, seq |-> 0])
      /\ UNCHANGED <<node, child, proc, pc, held, lastSeq, phase, victim>>
  BY DEF LosesPage, CloseFrame, TearDownBrowser, linkVars, storeVars, stopVars
<1>3. node' \in Kids \cup {Nobody}
  BY <1>2 DEF LinkInv, LinkTypeOK
<1> QED BY <1>1, <1>2, <1>3, ForwardStep

LEMMA LosesChildStep ==
    ASSUME LinkInv, NEW k \in Kids, LosesChild(k)
    PROVE  LinkInv'
<1>1. UNCHANGED orderVars
  BY DEF LosesChild, linkVars, storeVars, stopVars, orderVars
<1>2. node' \in Kids \cup {Nobody}
  BY DEF LosesChild, TearDownNode, Detached, LinkInv, LinkTypeOK
<1> QED BY <1>1, <1>2, SameOrder

LEMMA LinkStep ==
    ASSUME LinkInv, [Next]_vars
    PROVE  LinkInv'
<1>1. ASSUME UNCHANGED node, UNCHANGED orderVars PROVE LinkInv'
  <2>1. node' \in Kids \cup {Nobody}
    BY <1>1 DEF LinkInv, LinkTypeOK
  <2> QED BY <1>1, <2>1, SameOrder
<1>2. ASSUME NEW p \in Pages, Opens(p) \/ Closes(p) PROVE LinkInv'
  <2>1. UNCHANGED node /\ UNCHANGED orderVars
    BY <1>2 DEF Opens, Closes, AcceptBrowser, relayVars, linkVars, storeVars, stopVars, orderVars
  <2> QED BY <1>1, <2>1
<1>3. CASE OperatorStep
  BY <1>2, <1>3, ArrivesStep DEF OperatorStep
<1>4. CASE RelayNotices
  BY <1>4, LosesPageStep, LosesChildStep DEF RelayNotices
<1>5. CASE Fault
  BY <1>5, LosesChildStep, CrashStep, ConnectFailsStep, SpawnFailsStep DEF Fault
<1>6. CASE ChildStep
  BY <1>6, HelloStep, ConnectsStep DEF ChildStep
<1>7. CASE SupervisorStep
  BY <1>7, StoppingStep, ReapsStep, BeginsSpawnStep, SpawnStep, HandleStep DEF SupervisorStep
<1>8. CASE Elapses \/ LoopStep
  <2>1. UNCHANGED node /\ UNCHANGED orderVars
    BY <1>8 DEF Elapses, LoopStep, BackoffElapses, GrowsStale, ConsumeEstop, relayVars,
                linkVars, storeVars, stopVars, orderVars
  <2> QED BY <1>1, <2>1
<1>9. CASE Stops \/ StopStep
  BY <1>9, StoppingStep DEF Stops, StopStep
<1>10. CASE UNCHANGED vars
  <2>1. UNCHANGED node /\ UNCHANGED orderVars
    BY <1>10 DEF vars, relayVars, linkVars, storeVars, stopVars, orderVars
  <2> QED BY <1>1, <2>1
<1> QED
  BY <1>3, <1>4, <1>5, <1>6, <1>7, <1>8, <1>9, <1>10 DEF Next

(* The socket is in the order of the births, each child announces itself    *)
(* before it forwards, and the numbers start over only behind the last word *)
(* of an earlier child: what LatestSeqBuffer relies on.                     *)
THEOREM LinkInvariant == Spec => []LinkInv
<1>1. LinkInv /\ [Next]_vars => LinkInv'
  BY LinkStep
<1> QED BY <1>1, LinkStarts, PTL DEF Spec

LEMMA HeldChanges ==
    ASSUME [Next]_vars
    PROVE  UNCHANGED held \/ held' = Nobody \/ Handle
<1>1. CASE OperatorStep
  BY <1>1 DEF OperatorStep, Opens, Closes, Arrives, storeVars
<1>2. CASE RelayNotices
  BY <1>2 DEF RelayNotices, LosesPage, LosesChild, storeVars
<1>3. CASE Fault
  BY <1>3 DEF Fault, LosesChild, Crash, ConnectFails, SpawnFails, storeVars
<1>4. CASE ChildStep
  BY <1>4 DEF ChildStep, Hello, Connects, storeVars
<1>5. CASE SupervisorStep
  BY <1>5 DEF SupervisorStep, Leaves, Reaps, Reap, BeginsSpawn, Spawn, storeVars
<1>6. CASE Elapses \/ LoopStep
  BY <1>6 DEF Elapses, LoopStep, BackoffElapses, GrowsStale, ConsumeEstop, storeVars
<1>7. CASE Stops \/ StopStep
  BY <1>7 DEF Stops, StopStep, StopBegins, StopShutsChild, StopJoins, StopSweeps, storeVars
<1>8. CASE UNCHANGED vars
  BY <1>8 DEF vars, storeVars
<1> QED BY <1>1, <1>2, <1>3, <1>4, <1>5, <1>6, <1>7, <1>8 DEF Next

(* A target accepted has a number above the one held, unless it came over   *)
(* another connection: no script is long enough for a restart to be taken   *)
(* for one.                                                                 *)
LEMMA AcceptedIsNewer ==
    ASSUME LinkInv, Handle, held # Nobody, held' # Nobody, held'.seq # 0,
           held'.via = held.via
    PROVE  held'.seq >= held.seq
<1>1. /\ phase = "running" /\ inbox # <<>> /\ inbox' = Tail(inbox)
      /\ LinkTypeOK /\ LinkIsOrdered
  BY DEF Handle, StopSeen, LinkInv
<1>2. /\ Head(inbox) \in Sent /\ Head(inbox) = inbox[1] /\ 1 \in 1 .. Len(inbox)
  BY <1>1, TailFacts
<1>3. held.seq \in Seqs
  BY <1>1 DEF LinkTypeOK
<1>4. \/ UNCHANGED held
      \/ /\ Head(inbox).kind = "data"
         /\ Accepts(Head(inbox).frame.seq)
         /\ held' = Held(Head(inbox).frame, Head(inbox).from)
  BY DEF Handle, ReadHello, ReadConnected, ReadDisconnected, ReadTarget, linkVars, storeVars
<1>5. CASE UNCHANGED held
  BY <1>3, <1>5 DEF Seqs
<1>6. CASE /\ Head(inbox).kind = "data"
           /\ Accepts(Head(inbox).frame.seq)
           /\ held' = Held(Head(inbox).frame, Head(inbox).from)
  <2>1. held'.seq = Head(inbox).frame.seq /\ inbox[1].from = held.via
    BY <1>2, <1>6 DEF Held
  <2>2. held'.seq \in 1 .. ResetGap + 1
    BY <1>2, <1>6, <2>1, ChannelAssumption DEF Sent, Sendable
  <2>3. lastSeq = held.seq
    BY <1>1, <1>2, <2>1 DEF LinkIsOrdered, NumbersContinue, Silent
  <2>4. held'.seq > held.seq \/ held'.seq < held.seq - ResetGap
    BY <1>6, <2>1, <2>3 DEF Accepts
  <2> QED BY <1>3, <2>2, <2>4, ChannelAssumption DEF Seqs
<1> QED BY <1>4, <1>5, <1>6

(* Reordering never makes the node follow an older target of a connection   *)
(* after a newer one, whatever the children do.                             *)
THEOREM NewerTargetStays == Spec => NewestTargetWins
<1> DEFINE Wins == /\ held # Nobody
                   /\ held' # Nobody
                   /\ held'.page = held.page
                   /\ held'.seq # 0
                   /\ held'.via = held.via
                   => held'.seq >= held.seq
<1>1. LinkInv /\ [Next]_vars => [Wins]_vars
  <2> SUFFICES ASSUME LinkInv, [Next]_vars,
                      held # Nobody, held' # Nobody, held'.seq # 0, held'.via = held.via
               PROVE  held'.seq >= held.seq
    OBVIOUS
  <2>1. CASE UNCHANGED held
    BY <2>1 DEF LinkInv, LinkTypeOK, Seqs
  <2>2. CASE Handle
    BY <2>2, AcceptedIsNewer
  <2> QED BY <2>1, <2>2, HeldChanges
<1> QED BY <1>1, LinkInvariant, PTL DEF Spec, NewestTargetWins

-----------------------------------------------------------------------------
(* The e-stop, and the relay.                                               *)

LEMMA EstopStep ==
    ASSUME EstopIsKept, [Next]_vars
    PROVE  EstopIsKept'
<1>1. ASSUME UNCHANGED <<estop, pressed>> PROVE EstopIsKept'
  BY <1>1 DEF EstopIsKept
<1>2. CASE OperatorStep
  BY <1>1, <1>2 DEF OperatorStep, Opens, Closes, Arrives, storeVars
<1>3. CASE RelayNotices
  BY <1>1, <1>3 DEF RelayNotices, LosesPage, LosesChild, storeVars
<1>4. CASE Fault
  BY <1>1, <1>4 DEF Fault, LosesChild, Crash, ConnectFails, SpawnFails, storeVars
<1>5. CASE ChildStep
  BY <1>1, <1>5 DEF ChildStep, Hello, Connects, storeVars
<1>6. CASE Handle
  <2>1. \/ UNCHANGED <<estop, pressed>>
        \/ estop' = TRUE
    BY <1>6 DEF Handle, ReadHello, ReadConnected, ReadDisconnected, ReadTarget, storeVars
  <2> QED BY <1>1, <2>1 DEF EstopIsKept
<1>7. CASE Leaves \/ Reaps \/ BeginsSpawn \/ Spawn
  BY <1>1, <1>7 DEF Leaves, Reaps, Reap, BeginsSpawn, Spawn, storeVars
<1>8. CASE Elapses
  BY <1>1, <1>8 DEF Elapses, BackoffElapses, GrowsStale, storeVars
<1>9. CASE LoopStep
  BY <1>9 DEF LoopStep, ConsumeEstop, EstopIsKept
<1>10. CASE Stops \/ StopStep
  BY <1>1, <1>10 DEF Stops, StopStep, StopBegins, StopShutsChild, StopJoins, StopSweeps, storeVars
<1>11. CASE UNCHANGED vars
  BY <1>1, <1>11 DEF vars, storeVars
<1> QED
  BY <1>2, <1>3, <1>4, <1>5, <1>6, <1>7, <1>8, <1>9, <1>10, <1>11 DEF Next, SupervisorStep

(* An e-stop that was read waits for the control loop, whatever else is     *)
(* read, dies or is stopped in between.                                     *)
THEOREM EstopWaits == Spec => []EstopIsKept
<1>1. Init => EstopIsKept
  BY DEF Init, ChannelInit, EstopIsKept
<1>2. EstopIsKept /\ [Next]_vars => EstopIsKept'
  BY EstopStep
<1> QED BY <1>1, <1>2, PTL DEF Spec

RelayInv == RelayTypeOK /\ SuccessorIsServed

LEMMA RelayStep ==
    ASSUME RelayInv, [Next]_vars
    PROVE  RelayInv'
<1>1. ASSUME UNCHANGED relayVars PROVE RelayInv'
  BY <1>1 DEF RelayInv, RelayTypeOK, SuccessorIsServed, relayVars
<1>2. ASSUME NEW p \in Pages, AcceptBrowser(p) PROVE RelayInv'
  BY <1>2 DEF AcceptBrowser, RelayInv, RelayTypeOK, SuccessorIsServed
<1>3. ASSUME NEW k \in Kids, AcceptNode(k) PROVE RelayInv'
  BY <1>3 DEF AcceptNode, RelayInv, RelayTypeOK, SuccessorIsServed
<1>4. ASSUME NEW p \in Pages, TearDownBrowser(p) PROVE RelayInv'
  BY <1>4 DEF TearDownBrowser, Detached, RelayInv, RelayTypeOK, SuccessorIsServed
<1>5. ASSUME NEW k \in Kids, TearDownNode(k) PROVE RelayInv'
  BY <1>5 DEF TearDownNode, Detached, RelayInv, RelayTypeOK, SuccessorIsServed
<1>6. CASE OperatorStep
  BY <1>1, <1>2, <1>6 DEF OperatorStep, Opens, Closes, Arrives
<1>7. CASE RelayNotices
  BY <1>4, <1>5, <1>7 DEF RelayNotices, LosesPage, LosesChild
<1>8. CASE Fault
  BY <1>1, <1>5, <1>8 DEF Fault, LosesChild, Crash, ConnectFails, SpawnFails
<1>9. CASE ChildStep
  BY <1>1, <1>3, <1>9 DEF ChildStep, Hello, Connects
<1>10. CASE SupervisorStep
  BY <1>1, <1>10 DEF SupervisorStep, Leaves, Reaps, BeginsSpawn, Spawn, Handle
<1>11. CASE Elapses \/ LoopStep
  BY <1>1, <1>11 DEF Elapses, LoopStep, BackoffElapses, GrowsStale, ConsumeEstop
<1>12. CASE Stops \/ StopStep
  BY <1>1, <1>12 DEF Stops, StopStep, StopBegins, StopShutsChild, StopJoins, StopSweeps
<1>13. CASE UNCHANGED vars
  BY <1>1, <1>13 DEF vars
<1> QED
  BY <1>6, <1>7, <1>8, <1>9, <1>10, <1>11, <1>12, <1>13 DEF Next

(* Whoever connected last is served for as long as the connection lives,    *)
(* however many others leave before or after.                               *)
THEOREM SuccessorStays == Spec => []SuccessorIsServed
<1>1. Init => RelayInv
  BY DEF Init, RelayInit, RelayInv, RelayTypeOK, SuccessorIsServed
<1>2. RelayInv /\ [Next]_vars => RelayInv'
  BY RelayStep
<1>3. RelayInv => SuccessorIsServed
  BY DEF RelayInv
<1> QED BY <1>1, <1>2, <1>3, PTL DEF Spec

=============================================================================
