--------------------------- MODULE TurnStartProofs ---------------------------
(***************************************************************************)
(* Proofs about TurnStart, for any number of turns, attempts, claims,      *)
(* workers, packages, builds and faults.                                   *)
(*                                                                         *)
(* Of the conversation the inductive invariant says which turns a stored   *)
(* conversation, an agent and a late request can know of: a request that   *)
(* is not of the active turn changes nothing, and one that is brings what  *)
(* the agent of that turn remembers, which is what is stored and the turn  *)
(* itself (MemoryInv).  Every baseline anywhere hides only what was done   *)
(* before there was one (DiffInv).                                         *)
(*                                                                         *)
(* Of the machine it says that the image and the provider are pinned       *)
(* together and whoever starts a machine has read or pinned them (PinInv); *)
(* that a template has one purpose (TemplateInv); that each read of an     *)
(* attempt contains what was required throughout (WindowInv); and that a   *)
(* claim has one attempt, which is the one that attaches (RecordInv).      *)
(***************************************************************************)
EXTENDS TurnStart, WellFoundedInduction, TLAPS

-----------------------------------------------------------------------------
(* The conversation. *)

\* What the agent remembers is in the order of the turns, so that it is no longer
\* than the number of the last one it knows.
Story(s) ==
  /\ \A i, j \in DOMAIN s : i < j => s[i] < s[j]
  /\ s # <<>> => Len(s) <= s[Len(s)]

Stories == {s \in Seq(C!Turns) : Story(s)}

ChatRow ==
  [active : {0} \cup C!Turns, operation : {"none", "parking"}, talk : Stories,
   base : C!Optional(C!Revisions), workspace : C!Optional(C!Checkouts)]

TurnRow ==
  [status : {"unasked", "queued", "running"} \cup C!Terminal,
   source : {"manual", "github"}, early : BOOLEAN]

MachineRow ==
  [turn : {0} \cup C!Turns, stage : C!Stages, resumed : BOOLEAN, checkout : C!Checkouts,
   given : C!Optional(C!Revisions), base : C!Optional(C!Revisions), talk : Stories,
   tries : 0 .. ATTEMPTS - 1]

Message ==
  [kind : {"baseline", "save", "diff", "status"}, turn : C!Turns, ok : BOOLEAN,
   base : C!Optional(C!Revisions), tree : C!Revisions, talk : Stories]

\* The types, of the machine and the requests field by field.
TalkTypes ==
  /\ chat \in ChatRow
  /\ turn \in [C!Turns -> TurnRow]
  /\ machine \in MachineRow
  /\ wire \subseteq Message
  /\ diffs \subseteq [turn : C!Turns, hidden : C!Revisions]
  /\ faults \in 0 .. MaxFaults

Begun(t) == turn[t].status \notin {"unasked", "queued"}

\* Where the agent may have been prompted.
After == {"save", "diff", "done", "error", "exit"}

\* Turns are asked for in their order; a machine is the active turn's.
OrderInv ==
  /\ \A t, u \in C!Turns : u < t /\ turn[t].status # "unasked" => turn[u].status # "unasked"
  /\ machine.stage = "off" <=> machine.turn = 0
  /\ machine.turn # 0 => machine.turn = chat.active /\ Begun(machine.turn)
  /\ chat.operation = "parking" => chat.active # 0

\* What is remembered was said by a turn that is not to come. While a turn works
\* the session has what its agent has, but for the turn itself until that is saved.
TalkInv ==
  /\ \A x \in ToSet(chat.talk) :
       /\ Begun(x)
       /\ chat.active # 0 => x <= chat.active
       /\ x = chat.active => machine.turn = x /\ machine.stage \in After
  /\ machine.stage = "agent" => machine.talk = chat.talk
  /\ machine.stage = "save" => machine.talk \in {chat.talk, Append(chat.talk, machine.turn)}
  /\ machine.stage \in {"diff", "done"} => machine.talk = chat.talk
  /\ machine.stage \in {"save", "diff", "done"} => machine.turn \in ToSet(machine.talk)

\* A request m is no news to the session, unless it is the active turn's.
Fits(m) ==
  /\ Begun(m.turn)
  /\ m.turn = chat.active => machine.turn = m.turn
  /\ m.kind = "save" /\ m.turn = chat.active =>
       /\ machine.stage \in After /\ m.talk = machine.talk
       /\ machine.talk \in {chat.talk, Append(chat.talk, machine.turn)}
  /\ m.kind = "status" /\ m.ok => m.turn \in ToSet(chat.talk)

Remembered == \A t \in C!Turns : turn[t].status = "succeeded" => t \in ToSet(chat.talk)

\* The invariant of the conversation.
MemoryInv == OrderInv /\ TalkInv /\ (\A m \in wire : Fits(m)) /\ Remembered

\* Every turn in R had its agent at work before there was a baseline.
Early(R) == \A t \in R : turn[t].early

\* A baseline hides only what was done before there was one. Until there is one,
\* everything was.
DiffInv ==
  /\ \A R \in chat.base \cup machine.given \cup machine.base : Early(R)
  /\ \A m \in wire : \A R \in m.base : Early(R)
  /\ chat.base = {} =>
       /\ Early(machine.checkout.head) /\ Early(machine.checkout.tree)
       /\ \A w \in chat.workspace : Early(w.head) /\ Early(w.tree)
  /\ machine.stage \in {"prepare", "cloning", "baseline"} /\ machine.given = {} =>
       Early(machine.checkout.head)
  /\ \A d \in diffs : Early(d.hidden)
  /\ \A t \in C!Turns : turn[t].status \in {"unasked", "queued"} => ~turn[t].early
  /\ machine.stage \notin After \cup {"off"} => ~turn[machine.turn].early

-----------------------------------------------------------------------------
(* What the agents remember. *)

NatLess == {p \in Nat \X Nat : p[1] < p[2]}

\* A set of numbers has a least one.
LEMMA LeastOf ==
  ASSUME NEW S \in SUBSET Nat, S # {}
  PROVE  \E u \in S : \A w \in S : u <= w
<1>1. IsWellFoundedOn(NatLess, Nat)
  BY NatLessThanWellFounded DEF OpToRel, NatLess
<1>2. PICK x \in S : \A y \in S : ~ (<<y, x>> \in NatLess)
  BY <1>1, WFMin
<1>3. ASSUME NEW w \in S PROVE x <= w
  <2>1. w \in Nat /\ x \in Nat
    OBVIOUS
  <2>2. ~ (w < x)
    BY <1>2, <2>1 DEF NatLess
  <2>. QED BY <2>1, <2>2
<1>. QED BY <1>3

\* What the assumption on the constants says of the turns.
LEMMA TurnsAre ==
  /\ C!Turns = 1 .. LastTurn /\ LastTurn \in Nat \ {0} /\ C!Turns \subseteq Nat \ {0}
  /\ MaxFaults \in Nat /\ ATTEMPTS \in Nat \ {0}
BY ConcernAssumption DEF C!ConversationAssumption, C!Turns

\* The turn a park makes active is queued, and later than the one that was.
LEMMA FollowingIs ==
  ASSUME TalkTypes
  PROVE  \/ C!Following = 0
         \/ /\ C!Following \in C!Turns /\ C!Following > chat.active
            /\ turn[C!Following].status = "queued"
<1>. DEFINE queued == {t \in C!Turns : turn[t].status = "queued" /\ t > chat.active}
<1>1. CASE queued = {}
  BY <1>1 DEF C!Following
<1>2. CASE queued # {}
  <2>1. queued \in SUBSET Nat
    BY TurnsAre
  <2>2. \E t \in queued : \A u \in queued : t <= u
    BY <1>2, <2>1, LeastOf
  <2>3. C!Following = CHOOSE t \in queued : \A u \in queued : t <= u
    BY <1>2 DEF C!Following
  <2>4. C!Following \in queued
    BY <2>2, <2>3
  <2>. QED BY <2>4
<1>. QED BY <1>1, <1>2

\* What an agent remembers is one of the talks of the type invariant.
LEMMA StoryTalk ==
  ASSUME NEW s \in Stories
  PROVE  s \in C!Talks
<1>1. s \in Seq(C!Turns) /\ Story(s)
  BY DEF Stories
<1>2. Len(s) \in 0 .. LastTurn
  <2>1. CASE s = <<>>
    BY <2>1, TurnsAre
  <2>2. CASE s # <<>>
    <3>1. Len(s) \in 1 .. Len(s) /\ s[Len(s)] \in C!Turns
      BY <1>1, <2>2
    <3>. QED BY <1>1, <2>2, <3>1, TurnsAre DEF Story
  <2>. QED BY <2>1, <2>2
<1>3. s \in [1 .. Len(s) -> C!Turns]
  BY <1>1
<1>4. s \in UNION {[1 .. n -> C!Turns] : n \in 0 .. LastTurn}
  BY <1>2, <1>3
<1>. QED BY <1>1, <1>4 DEF Story, C!Talks

\* A turn may tell what only earlier turns have told before it,
LEMMA StoryGrows ==
  ASSUME NEW s \in Stories, NEW t \in C!Turns, \A x \in ToSet(s) : x < t
  PROVE  Append(s, t) \in Stories
<1>1. s \in Seq(C!Turns) /\ Story(s) /\ t \in Nat
  BY TurnsAre DEF Stories
<1>. DEFINE a == Append(s, t)
<1>2. a \in Seq(C!Turns) /\ Len(a) = Len(s) + 1 /\ Len(s) \in Nat /\ DOMAIN s = 1 .. Len(s) /\ DOMAIN a = 1 .. Len(s) + 1
  BY <1>1
<1>3. (\A i \in 1 .. Len(s) : a[i] = s[i]) /\ a[Len(s) + 1] = t
  BY <1>1
<1>4. \A i \in 1 .. Len(s) : s[i] < t /\ s[i] \in Nat
  BY <1>1, <1>2, TurnsAre DEF ToSet
<1>5. \A i, j \in DOMAIN a : i < j => a[i] < a[j]
  <2>. SUFFICES ASSUME NEW i \in DOMAIN a, NEW j \in DOMAIN a, i < j PROVE a[i] < a[j]
    OBVIOUS
  <2>1. CASE j \in 1 .. Len(s)
    <3>1. i \in 1 .. Len(s)
      BY <1>2, <2>1
    <3>. QED BY <1>1, <1>2, <1>3, <2>1, <3>1 DEF Story
  <2>2. CASE j = Len(s) + 1
    <3>1. i \in 1 .. Len(s)
      BY <1>2, <2>2
    <3>. QED BY <1>3, <1>4, <2>2, <3>1
  <2>. QED BY <1>2, <2>1, <2>2
<1>6. Len(a) <= a[Len(a)]
  <2>1. CASE s = <<>>
    BY <1>2, <1>3, <2>1, TurnsAre
  <2>2. CASE s # <<>>
    <3>1. Len(s) \in 1 .. Len(s) /\ Len(s) <= s[Len(s)]
      BY <1>1, <1>2, <2>2 DEF Story
    <3>. QED BY <1>1, <1>2, <1>3, <1>4, <3>1
  <2>. QED BY <2>1, <2>2
<1>7. a \in Stories
  BY <1>2, <1>5, <1>6 DEF Stories, Story
<1>. QED BY <1>7

\* and thereby adds itself and takes nothing away.
LEMMA AppendIs ==
  ASSUME NEW s \in Stories, NEW t \in C!Turns
  PROVE  ToSet(Append(s, t)) = ToSet(s) \cup {t} /\ IsPrefix(s, Append(s, t))
<1>1. s \in Seq(C!Turns)
  BY DEF Stories
<1>. DEFINE a == Append(s, t)
<1>2. a \in Seq(C!Turns) /\ Len(a) = Len(s) + 1 /\ Len(s) \in Nat /\ DOMAIN s = 1 .. Len(s) /\ DOMAIN a = 1 .. Len(s) + 1
  BY <1>1
<1>3. (\A i \in 1 .. Len(s) : a[i] = s[i]) /\ a[Len(s) + 1] = t
  BY <1>1
<1>8. ToSet(a) = ToSet(s) \cup {t}
  BY <1>2, <1>3 DEF ToSet
<1>9. IsPrefix(s, a)
  <2>1. SubSeq(s, 1, Len(s)) = s /\ SubSeq(a, 1, Len(s)) = s
    BY <1>1, <1>2, <1>3
  <2>. QED BY <2>1, <1>2 DEF IsPrefix
<1>. QED BY <1>8, <1>9

\* A talk goes on from itself.
LEMMA PrefixRefl == \A s \in Stories : IsPrefix(s, s)
<1>. SUFFICES ASSUME NEW s \in Stories PROVE IsPrefix(s, s)
  OBVIOUS
<1>1. Len(s) \in Nat
  BY DEF Stories
<1>. QED BY <1>1 DEF IsPrefix

\* What the machine has but for its stage.
Carried ==
  /\ machine'.turn = machine.turn /\ machine'.checkout = machine.checkout
  /\ machine'.given = machine.given /\ machine'.base = machine.base
  /\ machine'.talk = machine.talk

\* A runtime that goes on, or tries again, only changes its stage.
LEMMA GoesTo ==
  ASSUME machine \in MachineRow, NEW s \in C!Stages
  PROVE  /\ C!To(s) => machine' \in MachineRow /\ Carried /\ machine'.stage = s
         /\ C!Retry(s) => machine' \in MachineRow /\ Carried /\ machine'.stage \in {machine.stage, s}
<1>1. C!To(s) => machine' \in MachineRow /\ Carried /\ machine'.stage = s
  <2>1. [machine EXCEPT !.stage = s] \in MachineRow
    BY DEF MachineRow
  <2>2. \A r \in MachineRow : [r EXCEPT !.tries = 0] \in MachineRow
    BY TurnsAre DEF MachineRow
  <2>3. [machine EXCEPT !.stage = s, !.tries = 0] \in MachineRow
    BY <2>1, <2>2
  <2>4. C!To(s) => Carried /\ machine'.stage = s
    BY DEF C!To, MachineRow, Carried
  <2>. QED BY <2>3, <2>4 DEF C!To
<1>2. CASE machine.tries + 1 < ATTEMPTS
  BY <1>1, <1>2, TurnsAre DEF C!Retry, MachineRow, Carried
<1>3. CASE ~(machine.tries + 1 < ATTEMPTS)
  BY <1>1, <1>3 DEF C!Retry
<1>. QED BY <1>1, <1>2, <1>3

\* What a handler does with the request m.
HandledAs(m) ==
  /\ chat' \in ChatRow /\ turn' \in [C!Turns -> TurnRow]
  /\ diffs' \subseteq [turn : C!Turns, hidden : C!Revisions]
  /\ chat'.active = chat.active /\ chat'.workspace = chat.workspace
  /\ chat'.operation = chat.operation
  /\ \/ chat'.talk = chat.talk
     \/ m.kind = "save" /\ m.turn = chat.active /\ chat'.talk = m.talk
  /\ chat'.base = chat.base \/ (chat.base = {} /\ chat'.base = m.base)
  /\ \A t \in C!Turns :
       /\ turn'[t].early = turn[t].early
       /\ \/ turn'[t].status = turn[t].status
          \/ turn[t].status = "running" /\ turn'[t].status = "failed"
          \/ /\ turn[t].status = "running" /\ turn'[t].status = "succeeded"
             /\ t = m.turn /\ m.kind = "status" /\ m.ok
  /\ \A d \in diffs' : d \in diffs \/ d.hidden \subseteq UNION m.base

\* A handler does what HandledAs says; so does a request that is lost. An accepted
\* save stores what it brings.
LEMMA Handles ==
  ASSUME TalkTypes, NEW m \in Message
  PROVE  /\ C!Handle(m) => HandledAs(m)
         /\ UNCHANGED <<chat, turn, diffs>> => HandledAs(m)
         /\ C!Handle(m) /\ C!Accepted(m) /\ m.kind = "save" => chat'.talk = m.talk
<1>t. /\ chat \in ChatRow /\ turn \in [C!Turns -> TurnRow]
      /\ diffs \subseteq [turn : C!Turns, hidden : C!Revisions]
  BY DEF TalkTypes
<1>m. /\ m.turn \in C!Turns /\ m.base \in C!Optional(C!Revisions) /\ m.tree \in C!Revisions
      /\ m.talk \in Stories /\ m.ok \in BOOLEAN
  BY DEF Message
<1>1. UNCHANGED <<chat, turn, diffs>> => HandledAs(m)
  BY <1>t DEF HandledAs
<1>2. ASSUME C!SaveDiffBase(m)
      PROVE  /\ chat' \in ChatRow /\ chat'.active = chat.active /\ chat'.workspace = chat.workspace
             /\ chat'.operation = chat.operation
             /\ chat'.talk = chat.talk
             /\ chat'.base = chat.base \/ (chat.base = {} /\ chat'.base = m.base)
  BY <1>t, <1>m, <1>2 DEF C!SaveDiffBase, ChatRow
<1>3. ASSUME C!Handle(m), m.kind = "baseline" PROVE HandledAs(m)
  <2>1. C!SaveDiffBase(m) /\ UNCHANGED <<turn, diffs>>
    BY <1>3 DEF C!Handle
  <2>. QED BY <1>t, <1>2, <2>1 DEF HandledAs
<1>4. ASSUME C!Handle(m), m.kind = "diff" PROVE HandledAs(m)
  <2>. DEFINE d == [turn |-> m.turn, hidden |-> m.tree \cap UNION m.base]
  <2>1. C!SaveDiffBase(m) /\ UNCHANGED turn /\ diffs' = diffs \cup {d}
    BY <1>4 DEF C!Handle
  <2>2. d \in [turn : C!Turns, hidden : C!Revisions] /\ d.hidden \subseteq UNION m.base
    BY <1>m DEF C!Revisions
  <2>. HIDE DEF d
  <2>. QED BY <1>t, <1>2, <2>1, <2>2 DEF HandledAs
<1>5. ASSUME C!Handle(m), m.kind = "save" PROVE HandledAs(m)
  <2>1. /\ UNCHANGED <<turn, diffs>>
        /\ chat' = IF C!MayWrite(m.turn) THEN [chat EXCEPT !.talk = m.talk] ELSE chat
    BY <1>5 DEF C!Handle
  <2>2. CASE C!MayWrite(m.turn)
    <3>1. m.turn = chat.active
      BY <2>2 DEF C!MayWrite
    <3>2. chat' \in ChatRow /\ chat'.talk = m.talk /\ chat'.active = chat.active
          /\ chat'.workspace = chat.workspace /\ chat'.base = chat.base
          /\ chat'.operation = chat.operation
      BY <1>t, <1>m, <2>1, <2>2 DEF ChatRow
    <3>. QED BY <1>t, <1>5, <2>1, <3>1, <3>2 DEF HandledAs
  <2>3. CASE ~C!MayWrite(m.turn)
    BY <1>1, <2>1, <2>3
  <2>. QED BY <2>2, <2>3
<1>6. ASSUME C!Handle(m), m.kind = "status" PROVE HandledAs(m)
  <2>1. /\ UNCHANGED <<chat, diffs>>
        /\ turn' = IF turn[m.turn].status = "running"
                     THEN [turn EXCEPT ![m.turn].status = C!NormalizeStatus(m)] ELSE turn
    BY <1>6 DEF C!Handle
  <2>2. CASE turn[m.turn].status = "running"
    <3>1. C!NormalizeStatus(m) \in {"succeeded", "failed"} /\ (C!NormalizeStatus(m) = "succeeded" => m.ok)
      BY DEF C!NormalizeStatus
    <3>2. turn' \in [C!Turns -> TurnRow] /\ \A t \in C!Turns :
            /\ turn'[t].early = turn[t].early
            /\ turn'[t].status = IF t = m.turn THEN C!NormalizeStatus(m) ELSE turn[t].status
      BY <1>t, <1>m, <2>1, <2>2, <3>1 DEF TurnRow, C!Terminal
    <3>. QED BY <1>t, <1>6, <2>1, <2>2, <3>1, <3>2 DEF HandledAs
  <2>3. CASE turn[m.turn].status # "running"
    BY <1>1, <2>1, <2>3
  <2>. QED BY <2>2, <2>3
<1>7. C!Handle(m) => HandledAs(m)
  BY <1>3, <1>4, <1>5, <1>6 DEF C!Handle
<1>8. ASSUME C!Handle(m), C!Accepted(m), m.kind = "save" PROVE chat'.talk = m.talk
  BY <1>t, <1>8 DEF C!Handle, C!Accepted, ChatRow
<1>. QED BY <1>1, <1>7, <1>8

\* A request that is sent is handled, fails or is late; the runtime goes on only
\* when it is answered, and gives up otherwise.
LEMMA SendIs ==
  ASSUME TalkTypes, NEW m \in Message, NEW next \in C!Stages, NEW givenUp \in C!Stages,
         C!Send(m, next, givenUp)
  PROVE  /\ TalkTypes' /\ Carried /\ HandledAs(m) /\ wire' \subseteq wire \cup {m}
         /\ \/ machine'.stage \in {machine.stage, givenUp}
            \/ /\ machine'.stage = next
               /\ (m.kind = "save" => chat'.talk = m.talk)
<1>t. machine \in MachineRow /\ wire \subseteq Message /\ faults \in 0 .. MaxFaults
  BY DEF TalkTypes
<1>g. machine' \in MachineRow /\ Carried
      /\ \/ machine'.stage \in {machine.stage, givenUp}
         \/ (machine'.stage = next /\ C!Handle(m) /\ C!Accepted(m))
  BY <1>t, GoesTo DEF C!Send
<1>h. HandledAs(m)
  BY Handles DEF C!Send
<1>w. wire' \subseteq wire \cup {m} /\ faults' \in 0 .. MaxFaults
  BY <1>t, TurnsAre DEF C!Send, C!Fault
<1>k. TalkTypes'
  BY <1>t, <1>g, <1>h, <1>w DEF TalkTypes, HandledAs
<1>. QED BY <1>g, <1>h, <1>w, <1>k, Handles

\* A handled request that fits keeps the memory, now or later, and takes nothing
\* away from the conversation.
LEMMA HandledKeeps ==
  ASSUME TalkTypes, TalkTypes', MemoryInv, NEW m \in Message, Fits(m), HandledAs(m), Carried,
         wire' \subseteq wire \cup {m},
         machine'.stage = "off" <=> machine.stage = "off",
         machine.stage \in After => machine'.stage \in After,
         \/ machine'.stage \in {machine.stage, "restore", "error", "exit"}
         \/ machine.stage = "save" /\ machine'.stage = "diff" /\ chat'.talk = machine.talk
         \/ machine.stage = "diff" /\ machine'.stage = "done"
  PROVE  MemoryInv' /\ IsPrefix(chat.talk, chat'.talk)
<1>t. /\ chat \in ChatRow /\ chat' \in ChatRow /\ turn \in [C!Turns -> TurnRow]
      /\ machine \in MachineRow /\ wire \subseteq Message
      /\ chat.talk \in Stories /\ chat'.talk \in Stories /\ machine.talk \in Stories
      /\ machine.turn \in {0} \cup C!Turns /\ chat.active \in {0} \cup C!Turns
      /\ m.turn \in C!Turns /\ 0 \notin C!Turns
  BY TurnsAre DEF TalkTypes, ChatRow, MachineRow, Message
<1>i. OrderInv /\ TalkInv /\ (\A k \in wire : Fits(k)) /\ Remembered
  BY DEF MemoryInv
<1>1. \/ chat'.talk = chat.talk
      \/ /\ machine.stage \in After /\ chat'.talk = machine.talk /\ machine.turn \in C!Turns
         /\ machine.turn = chat.active
         /\ machine.talk \in {chat.talk, Append(chat.talk, machine.turn)}
  BY <1>t DEF HandledAs, Fits
<1>2. /\ \A x \in ToSet(chat'.talk) :
           x \in ToSet(chat.talk) \/ (x = machine.turn /\ x = chat.active /\ machine.stage \in After)
      /\ \A x \in ToSet(chat.talk) : x \in ToSet(chat'.talk)
      /\ IsPrefix(chat.talk, chat'.talk)
  <2>1. CASE chat'.talk = chat.talk
    BY <1>t, <2>1, PrefixRefl
  <2>2. CASE /\ chat'.talk = Append(chat.talk, machine.turn) /\ machine.turn \in C!Turns
             /\ machine.stage \in After /\ machine.turn = chat.active
    <3>1. /\ ToSet(chat'.talk) = ToSet(chat.talk) \cup {machine.turn}
          /\ IsPrefix(chat.talk, chat'.talk)
      BY <1>t, <2>2, AppendIs
    <3>. QED BY <2>2, <3>1
  <2>. QED BY <1>1, <2>1, <2>2
<1>3. \A t \in C!Turns : /\ Begun(t) => Begun(t)'
                         /\ turn'[t].status = "unasked" <=> turn[t].status = "unasked"
  BY DEF HandledAs, Begun
<1>4. \A x \in ToSet(chat.talk) : x \in C!Turns
  BY <1>t DEF Stories, ToSet
<1>5. OrderInv'
  BY <1>3, <1>i, <1>t DEF OrderInv, HandledAs, Carried
<1>6. TalkInv'
  <2>1. ASSUME NEW x \in ToSet(chat'.talk)
        PROVE  /\ Begun(x)' /\ (chat'.active # 0 => x <= chat'.active)
               /\ x = chat'.active => machine'.turn = x /\ machine'.stage \in After
    <3>1. CASE x \in ToSet(chat.talk)
      BY <1>3, <1>4, <1>i, <3>1 DEF TalkInv, HandledAs, Carried
    <3>2. CASE x = machine.turn /\ x = chat.active /\ machine.stage \in After
      <4>1. Begun(x) /\ x \in C!Turns
        BY <1>t, <1>i, <3>2 DEF OrderInv, After
      <4>. QED BY <1>3, <3>2, <4>1, TurnsAre DEF HandledAs, Carried
    <3>. QED BY <1>2, <3>1, <3>2
  <2>2. machine'.stage = "agent" => machine.stage = "agent" /\ chat'.talk = chat.talk
    BY <1>1 DEF After
  <2>3. machine'.stage = "agent" => machine'.talk = chat'.talk
    BY <2>2, <1>i DEF TalkInv, Carried
  <2>4. machine'.stage = "save" => machine'.talk \in {chat'.talk, Append(chat'.talk, machine'.turn)}
    BY <1>1, <1>i DEF TalkInv, Carried
  <2>5. machine'.stage \in {"diff", "done"} => machine'.talk = chat'.talk
    BY <1>1, <1>i DEF TalkInv, Carried
  <2>6. machine'.stage \in {"save", "diff", "done"} => machine'.turn \in ToSet(machine'.talk)
    BY <1>i DEF TalkInv, Carried
  <2>. QED BY <2>1, <2>3, <2>4, <2>5, <2>6 DEF TalkInv
<1>7. ASSUME NEW k \in wire'
      PROVE  Fits(k)'
  <2>1. Fits(k) /\ k \in Message /\ k.turn \in C!Turns
    BY <1>i, <1>t DEF Message
  <2>2. Begun(k.turn)' /\ (k.turn = chat'.active => machine'.turn = k.turn)
    BY <1>3, <2>1 DEF Fits, HandledAs, Carried
  <2>3. k.kind = "save" /\ k.turn = chat'.active =>
          /\ machine'.stage \in After /\ k.talk = machine'.talk
          /\ machine'.talk \in {chat'.talk, Append(chat'.talk, machine'.turn)}
    BY <1>1, <2>1 DEF Fits, HandledAs, Carried
  <2>4. k.kind = "status" /\ k.ok => k.turn \in ToSet(chat'.talk)
    BY <1>2, <2>1 DEF Fits
  <2>. QED BY <2>2, <2>3, <2>4 DEF Fits
<1>8. Remembered'
  BY <1>2, <1>i DEF Remembered, HandledAs, Fits
<1>. QED BY <1>2, <1>5, <1>6, <1>7, <1>8 DEF MemoryInv

\* They had, after the step.
EarlyThen(R) == \A t \in R : turn'[t].early

\* A handled request that brings a baseline from before the baseline hides no edit.
LEMMA HandledKeepsDiffs ==
  ASSUME TalkTypes, TalkTypes', OrderInv, DiffInv, NEW m \in Message, HandledAs(m), Carried,
         \A R \in m.base : Early(R),
         wire' \subseteq wire \cup {m},
         machine.stage \in After \cup {"off"} => machine'.stage \in After \cup {"off"},
         machine'.stage = machine.stage \/ machine'.stage \notin {"prepare", "cloning", "baseline"}
  PROVE  DiffInv'
<1>t. /\ chat \in ChatRow /\ turn \in [C!Turns -> TurnRow] /\ machine \in MachineRow /\ wire \subseteq Message
      /\ diffs' \subseteq [turn : C!Turns, hidden : C!Revisions]
      /\ chat.base \subseteq C!Revisions
  BY DEF TalkTypes, HandledAs, ChatRow, C!Optional
<1>1. \A t \in C!Turns : turn'[t].early = turn[t].early
  BY DEF HandledAs
<1>2. \A R \in C!Revisions : Early(R) => EarlyThen(R)
  BY <1>1 DEF Early, EarlyThen, C!Revisions
<1>c. /\ machine.given \subseteq C!Revisions /\ machine.base \subseteq C!Revisions
      /\ m.base \subseteq C!Revisions /\ \A k \in wire : k.base \subseteq C!Revisions
  BY <1>t DEF MachineRow, Message, C!Optional
<1>d. /\ machine.checkout.head \in C!Revisions /\ machine.checkout.tree \in C!Revisions
      /\ \A w \in chat.workspace : w.head \in C!Revisions /\ w.tree \in C!Revisions
  BY <1>t DEF MachineRow, ChatRow, C!Optional, C!Checkouts
<1>3. \A R \in chat'.base \cup machine'.given \cup machine'.base : EarlyThen(R)
  BY <1>t, <1>2, <1>c DEF DiffInv, HandledAs, Carried
<1>4. \A k \in wire' : \A R \in k.base : EarlyThen(R)
  BY <1>2, <1>c DEF DiffInv
<1>5. chat'.base = {} =>
       /\ EarlyThen(machine'.checkout.head) /\ EarlyThen(machine'.checkout.tree)
       /\ \A w \in chat'.workspace : EarlyThen(w.head) /\ EarlyThen(w.tree)
  BY <1>2, <1>d DEF DiffInv, HandledAs, Carried
<1>6. machine'.stage \in {"prepare", "cloning", "baseline"} /\ machine'.given = {} =>
       EarlyThen(machine'.checkout.head)
  BY <1>2, <1>d DEF DiffInv, Carried
<1>7. \A d \in diffs' : EarlyThen(d.hidden)
  <2>. SUFFICES ASSUME NEW d \in diffs' PROVE EarlyThen(d.hidden)
    OBVIOUS
  <2>1. d.hidden \in C!Revisions
    BY <1>t
  <2>2. Early(d.hidden)
    <3>1. CASE d \in diffs
      BY <3>1 DEF DiffInv
    <3>2. CASE d.hidden \subseteq UNION m.base
      BY <3>2 DEF Early
    <3>. QED BY <3>1, <3>2 DEF HandledAs
  <2>. QED BY <1>2, <2>1, <2>2
<1>8. \A t \in C!Turns : turn'[t].status \in {"unasked", "queued"} => ~turn'[t].early
  BY <1>1 DEF DiffInv, HandledAs
<1>9. machine'.stage \notin After \cup {"off"} => ~turn'[machine'.turn].early
  <2>. SUFFICES ASSUME machine'.stage \notin After \cup {"off"} PROVE ~turn'[machine'.turn].early
    OBVIOUS
  <2>1. machine.turn \in C!Turns
    BY <1>t DEF OrderInv, MachineRow
  <2>. QED BY <1>1, <2>1 DEF DiffInv, Carried
<1>. QED BY <1>3, <1>4, <1>5, <1>6, <1>7, <1>8, <1>9 DEF DiffInv, Early, EarlyThen

\* What the runtime sends is of the active turn.
LEMMA RequestIs ==
  ASSUME TalkTypes, OrderInv, machine.stage # "off"
  PROVE  /\ \A kind \in {"baseline", "save", "diff", "status"} : C!Request(kind) \in Message
         /\ machine.turn \in C!Turns /\ Begun(machine.turn) /\ machine.turn = chat.active
<1>1. machine.turn \in C!Turns
  BY DEF TalkTypes, OrderInv, MachineRow
<1>2. {} \in C!Optional(C!Revisions) /\ {} \in C!Revisions
  BY DEF C!Optional, C!Revisions
<1>3. <<>> \in Stories
  BY DEF Stories, Story
<1>4. 0 \notin C!Turns
  BY TurnsAre
<1>. QED BY <1>1, <1>2, <1>3, <1>4 DEF Message, C!Request, C!Now, OrderInv

\* The invariant of the conversation, of what is remembered and what is hidden.
ChatInv == TalkTypes /\ MemoryInv /\ DiffInv

\* What a step does to the conversation.
Forward == IsPrefix(chat.talk, chat'.talk)

\* A request that was given up keeps the invariant when it arrives at last.
LEMMA LateKeeps ==
  ASSUME ChatInv, C!HandleLate
  PROVE  ChatInv' /\ Forward
<1>1. PICK m \in wire : C!Handle(m) /\ wire' = wire \ {m} /\ UNCHANGED <<machine, faults>>
  BY DEF C!HandleLate
<1>2. m \in Message /\ Fits(m) /\ (\A R \in m.base : Early(R)) /\ OrderInv
  BY DEF ChatInv, TalkTypes, MemoryInv, DiffInv
<1>3. HandledAs(m)
  BY <1>1, <1>2, Handles DEF ChatInv
<1>4. TalkTypes' /\ Carried /\ machine'.stage = machine.stage
  BY <1>1, <1>3 DEF ChatInv, TalkTypes, HandledAs, Carried
<1>5. MemoryInv' /\ Forward
  BY <1>1, <1>2, <1>3, <1>4, HandledKeeps DEF ChatInv, Forward
<1>6. DiffInv'
  BY <1>1, <1>2, <1>3, <1>4, HandledKeepsDiffs DEF ChatInv
<1>. QED BY <1>4, <1>5, <1>6 DEF ChatInv

\* The report of the baseline keeps the invariant,
LEMMA BaselineKeeps ==
  ASSUME ChatInv, C!SendBaseline
  PROVE  ChatInv' /\ Forward
<1>. DEFINE m == [C!Request("baseline") EXCEPT !.base = machine.base]
<1>s. machine.stage = "baseline" /\ C!Send(m, "restore", "restore")
  BY DEF C!SendBaseline
<1>i. TalkTypes /\ MemoryInv /\ OrderInv /\ DiffInv
  BY DEF ChatInv, MemoryInv
<1>1. C!Request("baseline") \in Message /\ Begun(machine.turn) /\ machine.turn = chat.active
  BY <1>i, <1>s, RequestIs
<1>2. m \in Message /\ m.base = machine.base /\ m.kind = "baseline" /\ m.turn = machine.turn
  BY <1>i, <1>1 DEF TalkTypes, MachineRow, Message, C!Request, C!Now
<1>. HIDE DEF m
<1>3. Fits(m) /\ \A R \in m.base : Early(R)
  BY <1>i, <1>1, <1>2 DEF Fits, DiffInv
<1>4. /\ TalkTypes' /\ Carried /\ HandledAs(m) /\ wire' \subseteq wire \cup {m}
      /\ machine'.stage \in {machine.stage, "restore"}
  BY <1>i, <1>2, <1>s, SendIs DEF C!Stages
<1>5. MemoryInv' /\ Forward
  BY <1>i, <1>s, <1>2, <1>3, <1>4, HandledKeeps DEF Forward, After
<1>6. DiffInv'
  BY <1>i, <1>s, <1>2, <1>3, <1>4, HandledKeepsDiffs DEF After
<1>. QED BY <1>4, <1>5, <1>6 DEF ChatInv

\* and so does that of the conversation,
LEMMA SaveKeeps ==
  ASSUME ChatInv, C!SaveSessionCheckpoint
  PROVE  ChatInv' /\ Forward
<1>. DEFINE m == [C!Request("save") EXCEPT !.talk = machine.talk]
<1>s. machine.stage = "save" /\ C!Send(m, "diff", "error")
  BY DEF C!SaveSessionCheckpoint, C!CannotSave
<1>i. TalkTypes /\ MemoryInv /\ OrderInv /\ DiffInv /\ TalkInv
  BY DEF ChatInv, MemoryInv
<1>1. C!Request("save") \in Message /\ Begun(machine.turn) /\ machine.turn = chat.active
  BY <1>i, <1>s, RequestIs
<1>2. /\ m \in Message /\ m.base = {} /\ m.kind = "save" /\ m.turn = machine.turn
      /\ m.talk = machine.talk
  BY <1>i, <1>1 DEF TalkTypes, MachineRow, Message, C!Request, C!Now
<1>. HIDE DEF m
<1>3. Fits(m) /\ \A R \in m.base : Early(R)
  BY <1>i, <1>s, <1>1, <1>2 DEF Fits, TalkInv, After
<1>4. /\ TalkTypes' /\ Carried /\ HandledAs(m) /\ wire' \subseteq wire \cup {m}
      /\ \/ machine'.stage \in {machine.stage, "error"}
         \/ machine'.stage = "diff" /\ chat'.talk = machine.talk
  BY <1>i, <1>2, <1>s, SendIs DEF C!Stages
<1>5. MemoryInv' /\ Forward
  BY <1>i, <1>s, <1>2, <1>3, <1>4, HandledKeeps DEF Forward, After
<1>6. DiffInv'
  BY <1>i, <1>s, <1>2, <1>3, <1>4, HandledKeepsDiffs DEF After
<1>. QED BY <1>4, <1>5, <1>6 DEF ChatInv

\* that of the diff,
LEMMA GitDiffKeeps ==
  ASSUME ChatInv, C!GitDiff
  PROVE  ChatInv' /\ Forward
<1>. DEFINE m == [C!Request("diff") EXCEPT !.base = machine.base, !.tree = machine.checkout.tree]
<1>s. machine.stage = "diff" /\ C!Send(m, "done", "done")
  BY DEF C!GitDiff
<1>i. TalkTypes /\ MemoryInv /\ OrderInv /\ DiffInv
  BY DEF ChatInv, MemoryInv
<1>1. C!Request("diff") \in Message /\ Begun(machine.turn) /\ machine.turn = chat.active
  BY <1>i, <1>s, RequestIs
<1>2. m \in Message /\ m.base = machine.base /\ m.kind = "diff" /\ m.turn = machine.turn
  <2>1. machine.base \in C!Optional(C!Revisions) /\ machine.checkout.tree \in C!Revisions
    BY <1>i DEF TalkTypes, MachineRow, C!Checkouts
  <2>. QED BY <1>1, <2>1 DEF Message, C!Request, C!Now
<1>. HIDE DEF m
<1>3. Fits(m) /\ \A R \in m.base : Early(R)
  BY <1>i, <1>1, <1>2 DEF Fits, DiffInv
<1>4. /\ TalkTypes' /\ Carried /\ HandledAs(m) /\ wire' \subseteq wire \cup {m}
      /\ machine'.stage \in {machine.stage, "done"}
  BY <1>i, <1>2, <1>s, SendIs DEF C!Stages
<1>5. MemoryInv' /\ Forward
  BY <1>i, <1>s, <1>2, <1>3, <1>4, HandledKeeps DEF Forward, After
<1>6. DiffInv'
  BY <1>i, <1>s, <1>2, <1>3, <1>4, HandledKeepsDiffs DEF After
<1>. QED BY <1>4, <1>5, <1>6 DEF ChatInv

\* and that of the status: only a turn that saved its conversation succeeds.
LEMMA StatusKeeps ==
  ASSUME ChatInv, C!Status
  PROVE  ChatInv' /\ Forward
<1>. DEFINE m == [C!Request("status") EXCEPT !.ok = machine.stage = "done"]
<1>s. machine.stage \in {"done", "error"} /\ C!Send(m, "exit", "exit")
  BY DEF C!Status
<1>i. TalkTypes /\ MemoryInv /\ OrderInv /\ DiffInv /\ TalkInv
  BY DEF ChatInv, MemoryInv
<1>1. C!Request("status") \in Message /\ Begun(machine.turn) /\ machine.turn = chat.active
  BY <1>i, <1>s, RequestIs
<1>2. /\ m \in Message /\ m.base = {} /\ m.kind = "status" /\ m.turn = machine.turn
      /\ m.ok => machine.stage = "done"
  BY <1>i, <1>1 DEF Message, C!Request, C!Now
<1>. HIDE DEF m
<1>3. Fits(m) /\ \A R \in m.base : Early(R)
  BY <1>i, <1>s, <1>1, <1>2 DEF Fits, TalkInv
<1>4. /\ TalkTypes' /\ Carried /\ HandledAs(m) /\ wire' \subseteq wire \cup {m}
      /\ machine'.stage \in {machine.stage, "exit"}
  BY <1>i, <1>2, <1>s, SendIs DEF C!Stages
<1>5. MemoryInv' /\ Forward
  BY <1>i, <1>s, <1>2, <1>3, <1>4, HandledKeeps DEF Forward, After
<1>6. DiffInv'
  BY <1>i, <1>s, <1>2, <1>3, <1>4, HandledKeepsDiffs DEF After
<1>. QED BY <1>4, <1>5, <1>6 DEF ChatInv

\* A runtime that sends nothing keeps the memory, whether it goes on or fails.
LEMMA MachineMoves ==
  ASSUME MemoryInv, UNCHANGED <<chat, turn, wire>>, machine'.turn = machine.turn,
         machine.stage # "off", machine'.stage # "off",
         machine.stage \in After => machine'.stage \in After /\ machine'.talk = machine.talk,
         \/ machine'.stage \in {"error", "baseline", "cloning", "restore"}
         \/ machine'.stage = machine.stage /\ machine'.talk = machine.talk
         \/ machine'.stage = "agent" /\ machine'.talk = chat.talk
  PROVE  MemoryInv'
<1>1. OrderInv'
  BY DEF MemoryInv, OrderInv, Begun
<1>2. TalkInv'
  BY DEF MemoryInv, TalkInv, Begun, After
<1>3. \A k \in wire' : Fits(k)'
  BY DEF MemoryInv, Fits, Begun
<1>. QED BY <1>1, <1>2, <1>3 DEF MemoryInv, Remembered

\* It hides no edit, if its baseline hides none and its disk is the same or new.
LEMMA MachineMovesDiffs ==
  ASSUME DiffInv, UNCHANGED <<chat, turn, wire, diffs>>,
         machine'.turn = machine.turn, machine'.given = machine.given,
         \A R \in machine'.base : Early(R),
         machine'.checkout = machine.checkout \/ (machine'.checkout.head = {} /\ machine'.checkout.tree = {}),
         machine.stage \in After \cup {"off"} => machine'.stage \in After,
         machine.stage \in {"prepare", "cloning", "baseline"}
           \/ machine'.stage \notin {"prepare", "cloning", "baseline"}
  PROVE  DiffInv'
<1>1. \A t \in C!Turns : turn'[t].early = turn[t].early
  OBVIOUS
<1>2. \A R \in chat'.base \cup machine'.given \cup machine'.base : Early(R)
  BY DEF DiffInv
<1>3. chat'.base = {} =>
       /\ Early(machine'.checkout.head) /\ Early(machine'.checkout.tree)
       /\ \A w \in chat'.workspace : Early(w.head) /\ Early(w.tree)
  BY DEF DiffInv, Early
<1>4. machine'.stage \in {"prepare", "cloning", "baseline"} /\ machine'.given = {} =>
       Early(machine'.checkout.head)
  BY DEF DiffInv, Early
<1>5. machine'.stage \notin After \cup {"off"} => ~turn'[machine'.turn].early
  BY DEF DiffInv
<1>. QED BY <1>2, <1>3, <1>4, <1>5 DEF DiffInv, Early

\* A new conversation.
LEMMA NoStory == <<>> \in Stories
BY DEF Stories, Story

\* New disks have no edits.
LEMMA NoCheckoutIs ==
  /\ C!NoCheckout \in C!Checkouts /\ C!NoCheckout.head = {} /\ C!NoCheckout.tree = {}
  /\ C!Clone \in C!Checkouts /\ C!Clone.head = {} /\ C!Clone.tree = {}
  /\ LET c == [C!NoCheckout EXCEPT !.git = "partial"] IN
       c \in C!Checkouts /\ c.head = {} /\ c.tree = {}
BY DEF C!NoCheckout, C!Clone, C!Checkouts, C!Revisions

\* Making or reusing the checkout keeps the invariant,
LEMMA PrepareKeeps ==
  ASSUME ChatInv, C!PrepareCheckout \/ C!CloneFreshCheckout
  PROVE  ChatInv' /\ Forward
<1>i. TalkTypes /\ MemoryInv /\ DiffInv /\ machine \in MachineRow /\ UNCHANGED <<chat, turn, wire, diffs>>
  BY DEF ChatInv, TalkTypes, C!PrepareCheckout, C!CloneFreshCheckout
<1>s. machine.stage \in {"prepare", "cloning"}
  BY DEF C!PrepareCheckout, C!CloneFreshCheckout
<1>1. /\ machine' \in MachineRow /\ machine'.turn = machine.turn /\ machine'.given = machine.given
      /\ machine'.base = machine.base /\ machine'.stage \in {"error", "baseline", "cloning"}
      /\ machine'.checkout = machine.checkout \/ (machine'.checkout.head = {} /\ machine'.checkout.tree = {})
  <2>1. ASSUME NEW k \in C!Checkouts, k.head = {} /\ k.tree = {},
               NEW s \in {"baseline", "error", "cloning"},
               machine' = [machine EXCEPT !.stage = s, !.checkout = k]
        PROVE  /\ machine' \in MachineRow /\ machine'.turn = machine.turn
               /\ machine'.given = machine.given /\ machine'.base = machine.base
               /\ machine'.stage \in {"error", "baseline", "cloning"}
               /\ machine'.checkout.head = {} /\ machine'.checkout.tree = {}
    <3>1. s \in C!Stages
      BY DEF C!Stages
    <3>2. machine' \in MachineRow
      BY <1>i, <2>1, <3>1 DEF MachineRow
    <3>3. machine'.checkout = k /\ machine'.stage = s
      BY <1>i, <2>1 DEF MachineRow
    <3>. QED BY <1>i, <2>1, <3>2, <3>3 DEF MachineRow
  <2>2. CASE C!PrepareCheckout /\ machine.resumed
    <3>1. PICK s \in {"error", "baseline"} : C!To(s)
      BY <2>2 DEF C!PrepareCheckout
    <3>. QED BY <1>i, <3>1, GoesTo DEF Carried, C!Stages
  <2>3. CASE C!PrepareCheckout /\ ~machine.resumed
    <3>. DEFINE k == [C!NoCheckout EXCEPT !.git = "partial"]
    <3>1. k \in C!Checkouts /\ k.head = {} /\ k.tree = {}
      BY NoCheckoutIs
    <3>2. machine' = [machine EXCEPT !.stage = "cloning", !.checkout = k]
      BY <2>3 DEF C!PrepareCheckout
    <3>. HIDE DEF k
    <3>. QED BY <2>1, <3>1, <3>2 DEF C!Stages
  <2>4. CASE C!CloneFreshCheckout
    <3>1. PICK k \in {C!Clone, C!NoCheckout}, stage \in {"baseline", "error"} :
            machine' = [machine EXCEPT !.stage = stage, !.checkout = k]
      BY <2>4 DEF C!CloneFreshCheckout
    <3>2. k \in C!Checkouts /\ k.head = {} /\ k.tree = {}
      BY NoCheckoutIs
    <3>. QED BY <2>1, <3>1, <3>2 DEF C!Stages
  <2>. QED BY <2>2, <2>3, <2>4
<1>2. faults' \in 0 .. MaxFaults
  BY TurnsAre DEF C!PrepareCheckout, C!CloneFreshCheckout, C!Fault, ChatInv, TalkTypes
<1>3. TalkTypes'
  BY <1>i, <1>1, <1>2 DEF TalkTypes
<1>4. MemoryInv'
  BY <1>i, <1>1, <1>s, MachineMoves DEF After
<1>5. DiffInv'
  BY <1>i, <1>1, <1>s, MachineMovesDiffs DEF After, DiffInv
<1>6. Forward
  BY <1>i, PrefixRefl DEF Forward, TalkTypes, ChatRow
<1>. QED BY <1>3, <1>4, <1>5, <1>6 DEF ChatInv

\* and so does choosing the baseline,
LEMMA ReportKeeps ==
  ASSUME ChatInv, C!ReportBaseline
  PROVE  ChatInv' /\ Forward
<1>i. /\ TalkTypes /\ MemoryInv /\ DiffInv /\ machine \in MachineRow
      /\ UNCHANGED <<chat, turn, wire, diffs, faults>> /\ machine.stage = "baseline"
      /\ machine' = [machine EXCEPT !.base = C!Baseline]
  BY DEF ChatInv, TalkTypes, C!ReportBaseline
<1>1. C!Baseline \in C!Optional(C!Revisions) /\ \A R \in C!Baseline : Early(R)
  <2>1. machine.checkout.head \in C!Revisions
    BY <1>i DEF MachineRow, C!Checkouts
  <2>2. {machine.checkout.head} \in C!Optional(C!Revisions)
    BY <2>1 DEF C!Optional
  <2>. QED BY <1>i, <2>2 DEF C!Baseline, DiffInv, MachineRow
<1>2. /\ machine' \in MachineRow /\ machine'.turn = machine.turn /\ machine'.given = machine.given
      /\ machine'.stage = machine.stage /\ machine'.talk = machine.talk
      /\ machine'.checkout = machine.checkout /\ machine'.base = C!Baseline
  BY <1>i, <1>1 DEF MachineRow
<1>3. TalkTypes'
  BY <1>i, <1>2 DEF TalkTypes
<1>4. MemoryInv'
  BY <1>i, <1>2, MachineMoves
<1>5. DiffInv'
  BY <1>i, <1>1, <1>2, MachineMovesDiffs DEF After
<1>6. Forward
  BY <1>i, PrefixRefl DEF Forward, TalkTypes, ChatRow
<1>. QED BY <1>3, <1>4, <1>5, <1>6 DEF ChatInv

\* restoring the conversation, or failing to, and an agent that fails.
LEMMA LoadKeeps ==
  ASSUME ChatInv, C!LoadSessionManager \/ C!AgentFails
  PROVE  ChatInv' /\ Forward
<1>i. TalkTypes /\ MemoryInv /\ DiffInv /\ machine \in MachineRow /\ UNCHANGED <<chat, turn, wire, diffs>>
  BY DEF ChatInv, TalkTypes, C!LoadSessionManager, C!AgentFails
<1>c. chat.talk \in Stories
  BY <1>i DEF TalkTypes, ChatRow
<1>1. /\ machine' \in MachineRow /\ machine'.turn = machine.turn /\ machine'.given = machine.given
      /\ machine'.base = machine.base /\ machine'.checkout = machine.checkout
      /\ \/ machine.stage = "restore" /\ machine'.stage = "agent" /\ machine'.talk = chat.talk
         \/ machine.stage = "restore" /\ machine'.stage \in {"restore", "error"} /\ machine'.talk = machine.talk
         \/ machine.stage = "save" /\ machine'.stage = "error" /\ machine'.talk = machine.talk
  <2>0. LET r == [machine EXCEPT !.stage = "agent", !.talk = chat.talk, !.tries = 0] IN
          /\ r \in MachineRow /\ r.turn = machine.turn /\ r.given = machine.given
          /\ r.base = machine.base /\ r.checkout = machine.checkout
          /\ r.stage = "agent" /\ r.talk = chat.talk
    <3>1. 0 \in 0 .. ATTEMPTS - 1 /\ "agent" \in C!Stages
      BY TurnsAre DEF C!Stages
    <3>. QED BY <1>i, <1>c, <3>1 DEF MachineRow
  <2>1. CASE C!AgentFails
    BY <1>i, <2>1, GoesTo DEF C!AgentFails, Carried, C!Stages
  <2>2. CASE C!LoadSessionManager /\ C!Fault("error")
    <3>1. C!Retry("error") \/ (machine' = [machine EXCEPT !.stage = "agent", !.talk = chat.talk, !.tries = 0] /\ machine.stage = "restore")
      BY <2>2 DEF C!LoadSessionManager, C!CannotRestore
    <3>2. CASE C!Retry("error")
      BY <1>i, <2>2, <3>2, GoesTo DEF C!LoadSessionManager, Carried, C!Stages
    <3>3. CASE machine' = [machine EXCEPT !.stage = "agent", !.talk = chat.talk, !.tries = 0] /\ machine.stage = "restore"
      BY <2>0, <3>3
    <3>. QED BY <3>1, <3>2, <3>3
  <2>3. CASE C!LoadSessionManager /\ ~C!Fault("error")
    <3>1. machine' = [machine EXCEPT !.stage = "agent", !.talk = chat.talk, !.tries = 0] /\ machine.stage = "restore"
      BY <2>3 DEF C!LoadSessionManager
    <3>. QED BY <2>0, <3>1
  <2>. QED BY <2>1, <2>2, <2>3
<1>2. faults' \in 0 .. MaxFaults
  BY TurnsAre DEF C!LoadSessionManager, C!AgentFails, C!Fault, ChatInv, TalkTypes
<1>3. TalkTypes'
  BY <1>i, <1>1, <1>2 DEF TalkTypes
<1>4. MemoryInv'
  BY <1>i, <1>1, MachineMoves DEF After
<1>5. DiffInv'
  BY <1>i, <1>1, MachineMovesDiffs DEF After, DiffInv
<1>6. Forward
  BY <1>i, <1>c, PrefixRefl DEF Forward
<1>. QED BY <1>3, <1>4, <1>5, <1>6 DEF ChatInv

\* An agent at work adds its turn to what was restored, which is all that is stored.
\* If there is no baseline yet, its turn began early.
LEMMA PromptKeeps ==
  ASSUME ChatInv, C!Prompt
  PROVE  ChatInv' /\ Forward
<1>i. /\ TalkTypes /\ OrderInv /\ TalkInv /\ (\A k \in wire : Fits(k)) /\ Remembered /\ DiffInv
      /\ machine \in MachineRow /\ chat \in ChatRow /\ turn \in [C!Turns -> TurnRow]
      /\ UNCHANGED <<chat, wire, diffs, faults>> /\ machine.stage = "agent"
  BY DEF ChatInv, MemoryInv, TalkTypes, C!Prompt
<1>n. machine.turn \in C!Turns /\ Begun(machine.turn) /\ machine.turn = chat.active
  BY <1>i, RequestIs
<1>c. chat.talk \in Stories /\ machine.talk = chat.talk
  BY <1>i DEF TalkInv, ChatRow
<1>1. Append(machine.talk, machine.turn) \in Stories
  <2>1. \A x \in ToSet(chat.talk) : x < machine.turn
    <3>. SUFFICES ASSUME NEW x \in ToSet(chat.talk) PROVE x < machine.turn
      OBVIOUS
    <3>1. x \in C!Turns
      BY <1>c DEF Stories, ToSet
    <3>2. x <= machine.turn /\ x # machine.turn
      BY <1>i, <1>n, TurnsAre DEF TalkInv, After
    <3>. QED BY <3>1, <3>2, <1>n, TurnsAre
  <2>. QED BY <1>c, <1>n, <2>1, StoryGrows
<1>. DEFINE talk == Append(machine.talk, machine.turn)
            tree == machine.checkout.tree \cup {machine.turn}
<1>2. PICK head \in {tree, machine.checkout.head} :
        machine' = [machine EXCEPT !.stage = "save", !.talk = talk, !.checkout.tree = tree, !.checkout.head = head]
  BY DEF C!Prompt, C!Now
<1>3. /\ machine.checkout \in C!Checkouts /\ tree \in C!Revisions /\ head \in C!Revisions
      /\ machine.checkout.tree \in C!Revisions /\ machine.checkout.head \in C!Revisions
  BY <1>i, <1>n, <1>2 DEF MachineRow, C!Checkouts, C!Revisions
<1>4. [machine.checkout EXCEPT !.tree = tree, !.head = head] \in C!Checkouts
  BY <1>3 DEF C!Checkouts
<1>5. /\ machine' \in MachineRow /\ machine'.stage = "save" /\ machine'.talk = talk
      /\ machine'.turn = machine.turn /\ machine'.given = machine.given /\ machine'.base = machine.base
      /\ machine'.checkout.tree = tree /\ machine'.checkout.head = head
  <2>1. machine' = [machine EXCEPT !.stage = "save", !.talk = talk,
                     !.checkout = [machine.checkout EXCEPT !.tree = tree, !.head = head]]
    BY <1>i, <1>2, <1>3 DEF MachineRow, C!Checkouts
  <2>. HIDE DEF talk, tree
  <2>. DEFINE k == [machine.checkout EXCEPT !.tree = tree, !.head = head]
  <2>3. k.tree = tree /\ k.head = head
    BY <1>3 DEF C!Checkouts
  <2>. HIDE DEF k
  <2>. QED BY <1>1, <1>4, <1>i, <2>1, <2>3 DEF MachineRow, C!Stages, talk, k
<1>. HIDE DEF talk, tree
<1>6. /\ turn' \in [C!Turns -> TurnRow]
      /\ \A t \in C!Turns : /\ turn'[t].status = turn[t].status
                            /\ t # machine.turn => turn'[t].early = turn[t].early
      /\ turn'[machine.turn].early <=> chat.base = {}
  <2>. DEFINE early == chat.base = {}
              row == [turn[machine.turn] EXCEPT !.early = early]
  <2>1. turn' = [turn EXCEPT ![machine.turn] = row]
    BY <1>i, <1>n DEF C!Prompt, C!Now
  <2>2. row \in TurnRow /\ row.status = turn[machine.turn].status /\ (row.early <=> early)
    <3>1. turn[machine.turn] \in TurnRow /\ early \in BOOLEAN
      BY <1>i, <1>n
    <3>. HIDE DEF early
    <3>. QED BY <3>1 DEF TurnRow
  <2>. HIDE DEF row
  <2>. QED BY <1>i, <1>n, <2>1, <2>2
<1>7. TalkTypes'
  BY <1>i, <1>5, <1>6 DEF TalkTypes
<1>8. MemoryInv'
  <2>0. \A t \in C!Turns : Begun(t)' <=> Begun(t)
    BY <1>6 DEF Begun
  <2>1. OrderInv'
    BY <1>i, <1>n, <1>5, <1>6, <2>0, TurnsAre DEF OrderInv
  <2>2. TalkInv'
    <3>1. ToSet(talk) = ToSet(machine.talk) \cup {machine.turn}
      BY <1>c, <1>n, AppendIs DEF talk
    <3>2. \A x \in ToSet(chat.talk) : x \in C!Turns
      BY <1>c DEF Stories, ToSet
    <3>. QED BY <1>i, <1>n, <1>c, <1>5, <2>0, <3>1, <3>2 DEF TalkInv, After, talk
  <2>3. ASSUME NEW k \in wire' PROVE Fits(k)'
    <3>1. k.turn \in C!Turns /\ Fits(k)
      BY <1>i DEF TalkTypes, Message
    <3>. QED BY <1>i, <1>n, <1>5, <2>0, <3>1 DEF Fits, After
  <2>4. Remembered'
    BY <1>i, <1>6 DEF Remembered
  <2>. QED BY <2>1, <2>2, <2>3, <2>4 DEF MemoryInv
<1>9. DiffInv'
  <2>1. ~turn[machine.turn].early
    BY <1>i DEF DiffInv, After
  <2>2. \A R \in C!Revisions : Early(R) => EarlyThen(R)
    BY <1>6, <2>1 DEF Early, EarlyThen, C!Revisions
  <2>3. /\ chat.base \subseteq C!Revisions /\ machine.given \subseteq C!Revisions
        /\ machine.base \subseteq C!Revisions /\ (\A k \in wire : k.base \subseteq C!Revisions)
        /\ \A w \in chat.workspace : w.head \in C!Revisions /\ w.tree \in C!Revisions
        /\ \A d \in diffs : d.hidden \in C!Revisions
    BY <1>i DEF TalkTypes, MachineRow, ChatRow, Message, C!Optional, C!Checkouts
  <2>4. \A R \in chat'.base \cup machine'.given \cup machine'.base : EarlyThen(R)
    BY <1>i, <1>5, <2>2, <2>3 DEF DiffInv
  <2>5. \A k \in wire' : \A R \in k.base : EarlyThen(R)
    BY <1>i, <2>2, <2>3 DEF DiffInv
  <2>6. chat'.base = {} =>
       /\ EarlyThen(machine'.checkout.head) /\ EarlyThen(machine'.checkout.tree)
       /\ \A w \in chat'.workspace : EarlyThen(w.head) /\ EarlyThen(w.tree)
    <3>. SUFFICES ASSUME chat.base = {}
                  PROVE  /\ EarlyThen(head) /\ EarlyThen(tree)
                         /\ \A w \in chat.workspace : EarlyThen(w.head) /\ EarlyThen(w.tree)
      BY <1>i, <1>5
    <3>1. EarlyThen(machine.checkout.head) /\ EarlyThen(machine.checkout.tree)
          /\ \A w \in chat.workspace : EarlyThen(w.head) /\ EarlyThen(w.tree)
      BY <1>i, <1>3, <2>2, <2>3 DEF DiffInv
    <3>2. EarlyThen(tree)
      BY <1>6, <3>1 DEF EarlyThen, tree
    <3>. QED BY <1>2, <3>1, <3>2
  <2>7. \A d \in diffs' : EarlyThen(d.hidden)
    BY <1>i, <2>2, <2>3 DEF DiffInv
  <2>8. \A t \in C!Turns : turn'[t].status \in {"unasked", "queued"} => ~turn'[t].early
    BY <1>i, <1>n, <1>6 DEF DiffInv, Begun
  <2>. QED BY <1>5, <2>4, <2>5, <2>6, <2>7, <2>8 DEF DiffInv, Early, EarlyThen, After
<1>10. Forward
  BY <1>i, <1>c, PrefixRefl DEF Forward
<1>. QED BY <1>7, <1>8, <1>9, <1>10 DEF ChatInv

\* Turns that are asked for, cancelled or expire hide no edit.
LEMMA StagesKeepDiffs ==
  ASSUME TalkTypes, OrderInv, DiffInv, UNCHANGED <<machine, wire, diffs>>,
         chat'.base = chat.base, chat'.workspace \subseteq chat.workspace,
         \A t \in C!Turns :
           /\ turn'[t].early = turn[t].early
           /\ turn'[t].status \in {"unasked", "queued"} => turn[t].status \in {"unasked", "queued"}
  PROVE  DiffInv'
<1>1. \A R \in C!Revisions : Early(R) => EarlyThen(R)
  BY DEF Early, EarlyThen, C!Revisions
<1>2. /\ chat.base \subseteq C!Revisions /\ machine.given \subseteq C!Revisions
      /\ machine.base \subseteq C!Revisions /\ (\A k \in wire : k.base \subseteq C!Revisions)
      /\ machine.checkout.head \in C!Revisions /\ machine.checkout.tree \in C!Revisions
      /\ (\A w \in chat.workspace : w.head \in C!Revisions /\ w.tree \in C!Revisions)
      /\ \A d \in diffs : d.hidden \in C!Revisions
  BY DEF TalkTypes, MachineRow, ChatRow, Message, C!Optional, C!Checkouts
<1>3. \A R \in chat'.base \cup machine'.given \cup machine'.base : EarlyThen(R)
  BY <1>1, <1>2 DEF DiffInv
<1>4. \A k \in wire' : \A R \in k.base : EarlyThen(R)
  BY <1>1, <1>2 DEF DiffInv
<1>5. chat'.base = {} =>
     /\ EarlyThen(machine'.checkout.head) /\ EarlyThen(machine'.checkout.tree)
     /\ \A w \in chat'.workspace : EarlyThen(w.head) /\ EarlyThen(w.tree)
  BY <1>1, <1>2 DEF DiffInv
<1>6. machine'.stage \in {"prepare", "cloning", "baseline"} /\ machine'.given = {} =>
     EarlyThen(machine'.checkout.head)
  BY <1>1, <1>2 DEF DiffInv
<1>7. \A d \in diffs' : EarlyThen(d.hidden)
  BY <1>1, <1>2 DEF DiffInv
<1>8. \A t \in C!Turns : turn'[t].status \in {"unasked", "queued"} => ~turn'[t].early
  BY DEF DiffInv
<1>9. machine'.stage \notin After \cup {"off"} => ~turn'[machine'.turn].early
  <2>1. machine.stage # "off" => machine.turn \in C!Turns
    BY DEF OrderInv, TalkTypes, MachineRow
  <2>. QED BY <2>1 DEF DiffInv
<1>. QED BY <1>3, <1>4, <1>5, <1>6, <1>7, <1>8, <1>9 DEF DiffInv, Early, EarlyThen

\* Neither the end of a turn nor a claim of the session, nor a workspace that is
\* forgotten, touches the conversation.
LEMMA AroundKeeps ==
  ASSUME ChatInv, UNCHANGED <<machine, wire, diffs, faults>>,
         chat' \in ChatRow, turn' \in [C!Turns -> TurnRow],
         chat'.active = chat.active, chat'.talk = chat.talk, chat'.base = chat.base,
         chat'.workspace \subseteq chat.workspace,
         chat'.operation = "parking" => chat.active # 0,
         \A t \in C!Turns :
           /\ turn'[t].early = turn[t].early
           /\ \/ turn'[t].status = turn[t].status
              \/ turn[t].status # "unasked" /\ turn'[t].status \in {"failed", "cancelled"}
  PROVE  ChatInv' /\ Forward
<1>i. /\ TalkTypes /\ OrderInv /\ TalkInv /\ (\A k \in wire : Fits(k)) /\ Remembered /\ DiffInv
      /\ wire \subseteq Message /\ chat.talk \in Stories /\ machine.turn \in {0} \cup C!Turns
  BY DEF ChatInv, MemoryInv, TalkTypes, ChatRow, MachineRow
<1>1. TalkTypes'
  BY <1>i DEF TalkTypes
<1>2. \A t \in C!Turns : /\ Begun(t) => Begun(t)'
                         /\ turn'[t].status = "unasked" <=> turn[t].status = "unasked"
  BY DEF Begun
<1>3. \A x \in ToSet(chat.talk) : x \in C!Turns
  BY <1>i DEF Stories, ToSet
<1>4. OrderInv'
  BY <1>i, <1>2 DEF OrderInv
<1>5. TalkInv'
  BY <1>i, <1>2, <1>3 DEF TalkInv
<1>6. ASSUME NEW k \in wire' PROVE Fits(k)'
  <2>1. k.turn \in C!Turns /\ Fits(k)
    BY <1>i DEF Message
  <2>. QED BY <1>2, <2>1 DEF Fits
<1>7. Remembered'
  BY <1>i DEF Remembered
<1>8. DiffInv'
  BY <1>i, StagesKeepDiffs
<1>9. Forward
  BY <1>i, PrefixRefl DEF Forward
<1>. QED BY <1>1, <1>4, <1>5, <1>6, <1>7, <1>8, <1>9 DEF ChatInv, MemoryInv

\* Cancellation and expiry keep the invariant,
LEMMA CancelKeeps ==
  ASSUME ChatInv, C!CancelOrExpire
  PROVE  ChatInv' /\ Forward
<1>1. /\ turn \in [C!Turns -> TurnRow] /\ chat \in ChatRow /\ OrderInv
      /\ UNCHANGED <<chat, machine, wire, diffs, faults>>
  BY DEF ChatInv, MemoryInv, TalkTypes, C!CancelOrExpire
<1>2. PICK t \in C!Turns, s \in {"cancelled", "failed"} :
        turn[t].status \in {"queued", "running"} /\ turn' = [turn EXCEPT ![t].status = s]
  BY DEF C!CancelOrExpire
<1>3. /\ turn' \in [C!Turns -> TurnRow]
      /\ \A u \in C!Turns : /\ turn'[u].early = turn[u].early
                            /\ turn'[u].status = IF u = t THEN s ELSE turn[u].status
  <2>. DEFINE row == [turn[t] EXCEPT !.status = s]
  <2>1. turn' = [turn EXCEPT ![t] = row]
    BY <1>2
  <2>2. row \in TurnRow /\ row.status = s /\ row.early = turn[t].early
    <3>1. turn[t] \in TurnRow
      BY <1>1
    <3>. QED BY <3>1 DEF TurnRow, C!Terminal
  <2>. HIDE DEF row
  <2>. QED BY <1>1, <2>1, <2>2
<1>. QED BY <1>1, <1>2, <1>3, AroundKeeps DEF OrderInv

\* and so do the claim of a park
LEMMA BeginKeeps ==
  ASSUME ChatInv, C!BeginParking
  PROVE  ChatInv' /\ Forward
<1>1. /\ turn \in [C!Turns -> TurnRow] /\ chat \in ChatRow /\ chat.active # 0
      /\ UNCHANGED <<turn, machine, wire, diffs, faults>>
      /\ chat' = [chat EXCEPT !.operation = "parking"]
  BY DEF ChatInv, TalkTypes, C!BeginParking, C!Ended
<1>2. /\ chat' \in ChatRow /\ chat'.active = chat.active /\ chat'.talk = chat.talk
      /\ chat'.base = chat.base /\ chat'.workspace = chat.workspace
  BY <1>1 DEF ChatRow
<1>. QED BY <1>1, <1>2, AroundKeeps

\* and the loss of the workspace.
LEMMA ForgetKeeps ==
  ASSUME ChatInv, C!ForgetWorkspace
  PROVE  ChatInv' /\ Forward
<1>1. /\ turn \in [C!Turns -> TurnRow] /\ chat \in ChatRow /\ chat.operation = "none"
      /\ UNCHANGED <<turn, machine, wire, diffs, faults>>
      /\ chat' = [chat EXCEPT !.workspace = {}]
  BY DEF ChatInv, TalkTypes, C!ForgetWorkspace
<1>2. /\ chat' \in ChatRow /\ chat'.active = chat.active /\ chat'.talk = chat.talk
      /\ chat'.base = chat.base /\ chat'.workspace = {} /\ chat'.operation = "none"
  BY <1>1 DEF ChatRow, C!Optional
<1>. QED BY <1>1, <1>2, AroundKeeps

\* A new turn is later than all that is remembered, so that it keeps the invariant.
LEMMA CreateKeeps ==
  ASSUME ChatInv, C!CreateTurn
  PROVE  ChatInv' /\ Forward
<1>i. /\ TalkTypes /\ OrderInv /\ TalkInv /\ (\A k \in wire : Fits(k)) /\ Remembered /\ DiffInv
      /\ chat \in ChatRow /\ turn \in [C!Turns -> TurnRow]
      /\ wire \subseteq Message /\ chat.talk \in Stories /\ machine.turn \in {0} \cup C!Turns
      /\ chat.operation = "none" /\ UNCHANGED <<machine, wire, diffs, faults>>
      /\ chat.active \in {0} \cup C!Turns
  BY DEF ChatInv, MemoryInv, TalkTypes, ChatRow, MachineRow, C!CreateTurn
<1>1. PICK t \in C!Turns :
        /\ turn[t].status = "unasked"
        /\ t > 1 => turn[t - 1].status # "unasked"
        /\ \E source \in {"manual", "github"} :
             turn' = [turn EXCEPT ![t].status = "queued", ![t].source = source]
        /\ chat' = [chat EXCEPT !.active = IF @ = 0 THEN t ELSE @]
  BY DEF C!CreateTurn
<1>2. /\ turn' \in [C!Turns -> TurnRow]
      /\ \A u \in C!Turns : /\ turn'[u].early = turn[u].early
                            /\ turn'[u].status = IF u = t THEN "queued" ELSE turn[u].status
  <2>0. PICK source \in {"manual", "github"} :
             turn' = [turn EXCEPT ![t].status = "queued", ![t].source = source]
    BY <1>1
  <2>. DEFINE row == [turn[t] EXCEPT !.status = "queued", !.source = source]
  <2>1. turn' = [turn EXCEPT ![t] = row]
    BY <1>i, <2>0
  <2>2. row \in TurnRow /\ row.status = "queued" /\ row.early = turn[t].early
    <3>1. turn[t] \in TurnRow
      BY <1>i
    <3>. QED BY <3>1 DEF TurnRow, C!Terminal
  <2>. HIDE DEF row
  <2>. QED BY <1>i, <2>1, <2>2
<1>3. /\ chat' \in ChatRow /\ chat'.talk = chat.talk /\ chat'.base = chat.base
      /\ chat'.workspace = chat.workspace /\ chat'.operation = chat.operation
      /\ chat'.active = IF chat.active = 0 THEN t ELSE chat.active
  BY <1>i, <1>1 DEF ChatRow
<1>4. TalkTypes'
  BY <1>i, <1>2, <1>3 DEF TalkTypes
<1>5. \A u \in C!Turns : (Begun(u)' <=> Begun(u)) /\ (Begun(u) => u < t \/ chat.active # 0)
  <2>1. ASSUME NEW u \in C!Turns PROVE Begun(u)' <=> Begun(u)
    BY <1>1, <1>2 DEF Begun
  <2>2. ASSUME NEW u \in C!Turns, Begun(u) PROVE u < t
    <3>1. turn[u].status # "unasked" /\ u # t
      BY <1>1, <2>2 DEF Begun
    <3>2. ~ (t < u)
      BY <1>i, <1>1, <3>1 DEF OrderInv
    <3>. QED BY <3>1, <3>2, TurnsAre
  <2>. QED BY <2>1, <2>2
<1>6. OrderInv'
  <2>1. ASSUME NEW u \in C!Turns, u < t PROVE turn[u].status # "unasked"
    <3>1. t \in Nat /\ u \in Nat /\ t - 1 \in C!Turns /\ (u = t - 1 \/ u < t - 1) /\ t > 1
      BY <2>1, TurnsAre
    <3>. QED BY <1>i, <1>1, <3>1 DEF OrderInv
  <2>2. \A v, u \in C!Turns : u < v /\ turn'[v].status # "unasked" => turn'[u].status # "unasked"
    BY <1>i, <1>2, <2>1 DEF OrderInv
  <2>3. machine.turn # 0 => chat'.active = chat.active
    BY <1>i, <1>3 DEF OrderInv
  <2>4. machine'.turn # 0 => machine'.turn = chat'.active /\ Begun(machine.turn)'
    BY <1>i, <1>5, <2>3 DEF OrderInv
  <2>. QED BY <1>i, <1>3, <2>2, <2>4 DEF OrderInv
<1>7. \A u \in C!Turns : Begun(u) /\ u = chat'.active => u = chat.active
  BY <1>3, <1>5, TurnsAre
<1>8. TalkInv'
  <2>1. ASSUME NEW x \in ToSet(chat'.talk)
        PROVE  /\ Begun(x)' /\ (chat'.active # 0 => x <= chat'.active)
               /\ x = chat'.active => machine'.turn = x /\ machine'.stage \in After
    <3>1. x \in C!Turns /\ x \in ToSet(chat.talk)
      BY <1>i, <1>3 DEF Stories, ToSet
    <3>2. Begun(x) /\ (chat.active # 0 => x <= chat.active) /\ (x = chat.active => machine.turn = x /\ machine.stage \in After)
      BY <1>i, <3>1 DEF TalkInv
    <3>3. chat'.active # 0 => x <= chat'.active
      BY <1>3, <1>5, <3>1, <3>2, TurnsAre
    <3>. QED BY <1>i, <1>5, <1>7, <3>1, <3>2, <3>3
  <2>. QED BY <1>i, <1>3, <2>1 DEF TalkInv
<1>9. ASSUME NEW k \in wire' PROVE Fits(k)'
  <2>1. k.turn \in C!Turns /\ Fits(k)
    BY <1>i DEF Message
  <2>. QED BY <1>i, <1>3, <1>5, <1>7, <2>1 DEF Fits
<1>10. Remembered'
  BY <1>i, <1>2, <1>3 DEF Remembered
<1>11. DiffInv'
  <2>1. ASSUME NEW R \in C!Revisions PROVE Early(R) <=> EarlyThen(R)
    BY <1>2 DEF Early, EarlyThen, C!Revisions
  <2>. QED BY <1>i, <1>1, <1>2, <1>3, <2>1, StagesKeepDiffs DEF OrderInv
<1>12. Forward
  BY <1>i, <1>3, PrefixRefl DEF Forward
<1>. QED BY <1>4, <1>6, <1>8, <1>9, <1>10, <1>11, <1>12 DEF ChatInv, MemoryInv

\* Once the machine is gone, the next turn is one of which nothing has been heard.
LEMMA ParkedKeeps ==
  ASSUME ChatInv, NEW workspace \in C!Optional(C!Checkouts), chat' = C!Parked(workspace),
         machine' = C!Off, UNCHANGED <<turn, wire, diffs>>, faults' \in 0 .. MaxFaults,
         chat.active # 0,
         chat.base = {} => \A w \in workspace : Early(w.head) /\ Early(w.tree)
  PROVE  ChatInv' /\ Forward
<1>i. /\ TalkTypes /\ OrderInv /\ TalkInv /\ (\A k \in wire : Fits(k)) /\ Remembered /\ DiffInv
      /\ chat \in ChatRow /\ turn \in [C!Turns -> TurnRow]
      /\ wire \subseteq Message /\ chat.talk \in Stories
      /\ chat.active \in C!Turns
  BY DEF ChatInv, MemoryInv, TalkTypes, ChatRow
<1>1. \/ C!Following = 0
      \/ C!Following \in C!Turns /\ C!Following > chat.active /\ ~Begun(C!Following)
  BY <1>i, FollowingIs DEF Begun
<1>2. /\ chat' \in ChatRow /\ chat'.talk = chat.talk /\ chat'.base = chat.base
      /\ chat'.workspace = workspace /\ chat'.operation = "none" /\ chat'.active = C!Following
  <2>1. C!Following \in {0} \cup C!Turns
    BY <1>1
  <2>. HIDE DEF C!Following
  <2>. QED BY <1>i, <2>1 DEF C!Parked, ChatRow
<1>3. /\ machine' \in MachineRow /\ machine'.turn = 0 /\ machine'.stage = "off"
      /\ machine'.given = {} /\ machine'.base = {}
      /\ machine'.checkout.head = {} /\ machine'.checkout.tree = {}
  BY TurnsAre, NoCheckoutIs, NoStory DEF C!Off, MachineRow, C!Stages, C!Optional
<1>4. TalkTypes'
  BY <1>i, <1>2, <1>3 DEF TalkTypes
<1>5. OrderInv'
  BY <1>i, <1>2, <1>3 DEF OrderInv
<1>6. TalkInv'
  <2>1. ASSUME NEW x \in ToSet(chat'.talk)
        PROVE  /\ Begun(x)' /\ (chat'.active # 0 => x <= chat'.active)
               /\ x # chat'.active
    <3>1. x \in C!Turns /\ Begun(x) /\ x <= chat.active /\ (Begun(x)' <=> Begun(x))
      BY <1>i, <1>2 DEF Stories, ToSet, TalkInv, Begun
    <3>. QED BY <1>i, <1>1, <1>2, <3>1, TurnsAre
  <2>. QED BY <1>3, <2>1 DEF TalkInv
<1>7. ASSUME NEW k \in wire' PROVE Fits(k)'
  <2>1. /\ k.turn \in C!Turns /\ Fits(k) /\ Begun(k.turn) /\ (Begun(k.turn)' <=> Begun(k.turn))
    BY <1>i DEF Message, Fits, Begun
  <2>2. k.turn # chat'.active
    BY <1>1, <1>2, <2>1, TurnsAre
  <2>. QED BY <1>2, <2>1, <2>2 DEF Fits
<1>8. Remembered'
  BY <1>i, <1>2 DEF Remembered
<1>9. DiffInv'
  BY <1>i, <1>2, <1>3 DEF DiffInv, Early
<1>10. Forward
  BY <1>i, <1>2, PrefixRefl DEF Forward
<1>. QED BY <1>4, <1>5, <1>6, <1>7, <1>8, <1>9, <1>10 DEF ChatInv, MemoryInv

\* Parks keep the invariant, with a machine or without.
LEMMA EndKeeps ==
  ASSUME ChatInv, C!ParkUnstarted \/ C!EndParking
  PROVE  ChatInv' /\ Forward
<1>i. /\ TalkTypes /\ chat \in ChatRow /\ machine \in MachineRow /\ faults \in 0 .. MaxFaults
      /\ OrderInv /\ DiffInv
  BY DEF ChatInv, MemoryInv, TalkTypes
<1>1. chat.active # 0 /\ UNCHANGED <<turn, wire, diffs>> /\ machine' = C!Off
  BY <1>i DEF C!ParkUnstarted, C!EndParking, C!Ended, OrderInv
<1>2. /\ chat.workspace \in C!Optional(C!Checkouts)
      /\ {machine.checkout} \in C!Optional(C!Checkouts)
  BY <1>i DEF ChatRow, MachineRow, C!Optional
<1>3. chat.base = {} =>
        /\ \A w \in chat.workspace : Early(w.head) /\ Early(w.tree)
        /\ \A w \in {machine.checkout} : Early(w.head) /\ Early(w.tree)
  BY <1>i DEF DiffInv
<1>4. faults' \in 0 .. MaxFaults
  BY <1>i, TurnsAre DEF C!ParkUnstarted, C!EndParking, C!Fault
<1>5. CASE chat' = C!Parked(chat.workspace)
  BY <1>1, <1>2, <1>3, <1>4, <1>5, ParkedKeeps
<1>6. CASE chat' = C!Parked({machine.checkout})
  BY <1>1, <1>2, <1>3, <1>4, <1>6, ParkedKeeps
<1>. QED BY <1>5, <1>6 DEF C!ParkUnstarted, C!EndParking

\* A new machine is told the baseline, unless there is none or its disk is new.
LEMMA ProvisionKeeps ==
  ASSUME ChatInv, C!Provision
  PROVE  ChatInv' /\ Forward
<1>i. /\ TalkTypes /\ OrderInv /\ TalkInv /\ (\A k \in wire : Fits(k)) /\ Remembered /\ DiffInv
      /\ chat \in ChatRow /\ turn \in [C!Turns -> TurnRow] /\ machine \in MachineRow
      /\ wire \subseteq Message /\ chat.talk \in Stories
      /\ machine.turn = 0 /\ UNCHANGED <<chat, wire, diffs, faults>>
      /\ chat.active \in C!Turns /\ turn[chat.active].status = "queued"
      /\ chat.operation = "none"
  BY DEF ChatInv, MemoryInv, TalkTypes, ChatRow, C!Provision, OrderInv
<1>. DEFINE t == chat.active
            allow == turn[t].source # "github"
            resumed == allow /\ chat.workspace # {}
            given == IF allow THEN chat.base ELSE {}
            disk == IF resumed THEN CHOOSE c \in chat.workspace : TRUE ELSE C!NoCheckout
<1>1. /\ turn' = [turn EXCEPT ![t].status = "running"]
      /\ machine' = C!Booted(t, resumed, given)
  BY DEF C!Provision
<1>2. /\ disk \in C!Checkouts /\ given \in C!Optional(C!Revisions) /\ resumed \in BOOLEAN
      /\ given \in {chat.base, {}} /\ disk \in chat.workspace \cup {C!NoCheckout}
      /\ (given = {} => chat.base = {} \/ disk = C!NoCheckout)
  <2>1. \A w \in chat.workspace : w \in C!Checkouts
    BY <1>i DEF ChatRow, C!Optional
  <2>2. disk \in chat.workspace \cup {C!NoCheckout}
    <3>1. resumed => (CHOOSE c \in chat.workspace : TRUE) \in chat.workspace
      OBVIOUS
    <3>. QED BY <3>1
  <2>3. chat.base \in C!Optional(C!Revisions) /\ {} \in C!Optional(C!Revisions)
    BY <1>i DEF ChatRow, C!Optional
  <2>4. disk \in C!Checkouts
    BY <2>1, <2>2, NoCheckoutIs
  <2>. QED BY <2>2, <2>3, <2>4
<1>3. /\ machine' \in MachineRow /\ machine'.turn = t /\ machine'.stage = "prepare"
      /\ machine'.given = given /\ machine'.base = {} /\ machine'.checkout = disk
  <2>1. machine' = [C!Off EXCEPT !.turn = t, !.stage = "prepare", !.resumed = resumed,
                                 !.given = given, !.checkout = disk]
    BY <1>1 DEF C!Booted, C!Off
  <2>2. /\ C!Off \in MachineRow /\ C!Off.base = {}
    BY TurnsAre, NoCheckoutIs, NoStory DEF C!Off, MachineRow, C!Stages, C!Optional
  <2>. HIDE DEF disk, given, resumed
  <2>. QED BY <1>i, <1>2, <2>1, <2>2 DEF MachineRow, C!Stages
<1>4. /\ turn' \in [C!Turns -> TurnRow]
      /\ \A u \in C!Turns : /\ turn'[u].early = turn[u].early
                            /\ turn'[u].status = IF u = t THEN "running" ELSE turn[u].status
  <2>. DEFINE row == [turn[t] EXCEPT !.status = "running"]
  <2>1. turn' = [turn EXCEPT ![t] = row]
    BY <1>1
  <2>2. row \in TurnRow /\ row.status = "running" /\ row.early = turn[t].early
    <3>1. turn[t] \in TurnRow
      BY <1>i
    <3>. QED BY <3>1 DEF TurnRow, C!Terminal
  <2>. HIDE DEF row
  <2>. QED BY <1>i, <2>1, <2>2
<1>. HIDE DEF disk, given, resumed, allow
<1>5. TalkTypes'
  BY <1>i, <1>3, <1>4 DEF TalkTypes
<1>6. /\ \A u \in C!Turns : Begun(u) => Begun(u)'
      /\ Begun(t)' /\ ~Begun(t) /\ t # 0
  BY <1>i, <1>4, TurnsAre DEF Begun
<1>7. OrderInv'
  BY <1>i, <1>3, <1>4, <1>6 DEF OrderInv
<1>8. TalkInv'
  <2>1. ASSUME NEW x \in ToSet(chat.talk)
        PROVE  Begun(x)' /\ x <= t /\ x # t
    <3>1. x \in C!Turns /\ Begun(x) /\ x <= t
      BY <1>i, <1>6 DEF Stories, ToSet, TalkInv
    <3>. QED BY <1>6, <3>1
  <2>. QED BY <1>i, <1>3, <1>6, <2>1 DEF TalkInv
<1>9. ASSUME NEW k \in wire' PROVE Fits(k)'
  <2>1. k.turn \in C!Turns /\ Fits(k) /\ Begun(k.turn)
    BY <1>i DEF Message, Fits
  <2>2. k.turn # chat.active /\ Begun(k.turn)'
    BY <1>6, <2>1
  <2>. QED BY <1>i, <2>1, <2>2 DEF Fits
<1>10. Remembered'
  BY <1>i, <1>4 DEF Remembered
<1>11. DiffInv'
  <2>1. ASSUME NEW R \in C!Revisions PROVE Early(R) <=> EarlyThen(R)
    BY <1>4 DEF Early, EarlyThen, C!Revisions
  <2>2. /\ chat.base \subseteq C!Revisions /\ (\A k \in wire : k.base \subseteq C!Revisions)
        /\ disk.head \in C!Revisions /\ disk.tree \in C!Revisions
        /\ (\A w \in chat.workspace : w.head \in C!Revisions /\ w.tree \in C!Revisions)
        /\ \A d \in diffs : d.hidden \in C!Revisions
    BY <1>i, <1>2 DEF TalkTypes, ChatRow, Message, C!Optional, C!Checkouts
  <2>3. \A R \in chat'.base \cup machine'.given \cup machine'.base : EarlyThen(R)
    BY <1>i, <1>2, <1>3, <2>1, <2>2 DEF DiffInv
  <2>4. \A k \in wire' : \A R \in k.base : EarlyThen(R)
    BY <1>i, <2>1, <2>2 DEF DiffInv
  <2>5. chat'.base = {} =>
       /\ EarlyThen(machine'.checkout.head) /\ EarlyThen(machine'.checkout.tree)
       /\ \A w \in chat'.workspace : EarlyThen(w.head) /\ EarlyThen(w.tree)
    BY <1>i, <1>2, <1>3, <2>1, <2>2, NoCheckoutIs DEF DiffInv, EarlyThen
  <2>6. machine'.given = {} => EarlyThen(machine'.checkout.head)
    BY <1>i, <1>2, <1>3, <2>1, <2>2, NoCheckoutIs DEF DiffInv, EarlyThen
  <2>7. \A d \in diffs' : EarlyThen(d.hidden)
    BY <1>i, <2>1, <2>2 DEF DiffInv
  <2>8. \A u \in C!Turns : turn'[u].status \in {"unasked", "queued"} => ~turn'[u].early
    BY <1>i, <1>4 DEF DiffInv
  <2>9. ~turn'[machine'.turn].early
    BY <1>i, <1>3, <1>4 DEF DiffInv
  <2>. QED BY <2>3, <2>4, <2>5, <2>6, <2>7, <2>8, <2>9 DEF DiffInv, Early, EarlyThen
<1>12. Forward
  BY <1>i, PrefixRefl DEF Forward
<1>. QED BY <1>5, <1>7, <1>8, <1>9, <1>10, <1>11, <1>12 DEF ChatInv, MemoryInv

\* The invariant holds in the beginning.
LEMMA TalkStarts ==
  ASSUME C!ConversationInit
  PROVE  ChatInv
<1>1. chat \in ChatRow
  BY NoStory DEF C!ConversationInit, ChatRow, C!Optional
<1>2. turn \in [C!Turns -> TurnRow]
  BY DEF C!ConversationInit, TurnRow
<1>3. /\ machine \in MachineRow /\ machine.turn = 0 /\ machine.stage = "off"
      /\ machine.given = {} /\ machine.base = {}
      /\ machine.checkout.head = {} /\ machine.checkout.tree = {}
  BY TurnsAre, NoCheckoutIs, NoStory DEF C!ConversationInit, C!Off, MachineRow, C!Stages, C!Optional
<1>4. TalkTypes
  <2>1. wire = {} /\ diffs = {} /\ faults \in 0 .. MaxFaults
    BY TurnsAre DEF C!ConversationInit
  <2>. QED BY <1>1, <1>2, <1>3, <2>1 DEF TalkTypes
<1>5. OrderInv
  BY <1>3, TurnsAre DEF C!ConversationInit, OrderInv, C!Turns
<1>6. TalkInv /\ Remembered
  BY <1>3 DEF C!ConversationInit, TalkInv, Remembered, ToSet
<1>7. DiffInv
  BY <1>3 DEF C!ConversationInit, DiffInv, Early
<1>. QED BY <1>4, <1>5, <1>6, <1>7 DEF ChatInv, MemoryInv, C!ConversationInit

\* Every step of the conversation keeps it.
LEMMA TalkKeeps ==
  ASSUME ChatInv, Talk
  PROVE  ChatInv' /\ Forward
<1>1. C!ConversationNext
  BY DEF Talk
<1>. QED BY <1>1, LateKeeps, BaselineKeeps, SaveKeeps, GitDiffKeeps, StatusKeeps, PrepareKeeps,
           ReportKeeps, LoadKeeps, PromptKeeps, CancelKeeps, BeginKeeps, ForgetKeeps,
           CreateKeeps, EndKeeps, ProvisionKeeps
        DEF C!ConversationNext, C!Runtime

\* It is about nothing else.
LEMMA TalkFrame ==
  ASSUME ChatInv, UNCHANGED conversationVars
  PROVE  ChatInv'
BY DEF conversationVars, ChatInv, TalkTypes, MemoryInv, OrderInv, TalkInv, Fits, Remembered,
       DiffInv, Early, Begun

\* The invariant of the conversation holds: cancelled, parked or late, no request
\* of a turn is taken for one of another.
THEOREM ConversationHolds == StartSpec => []ChatInv
<1>1. StartInit => ChatInv
  BY TalkStarts DEF StartInit
<1>2. ChatInv /\ [StartNext]_<<concern, vars, conversationVars>> => ChatInv'
  BY TalkKeeps, TalkFrame DEF StartNext, Machine
<1>. QED BY <1>1, <1>2, PTL DEF StartSpec

\* A turn whose status is succeeded is in the stored conversation and in the
\* memory of every later agent (normalizeStatus, saveSessionCheckpoint).
THEOREM SuccessesAreRemembered == StartSpec => []SuccessIsRemembered
<1>1. ASSUME ChatInv PROVE SuccessIsRemembered
  <2>. SUFFICES ASSUME NEW t \in C!Turns, turn[t].status = "succeeded"
                PROVE  /\ t \in ToSet(chat.talk)
                       /\ machine.turn > t /\ machine.stage \in {"save", "diff"} => t \in ToSet(machine.talk)
    BY DEF SuccessIsRemembered, C!Turns, Turns
  <2>1. t \in ToSet(chat.talk)
    BY <1>1 DEF ChatInv, MemoryInv, Remembered
  <2>2. machine.stage \in {"save", "diff"} => machine.talk \in {chat.talk, Append(chat.talk, machine.turn)}
    BY <1>1 DEF ChatInv, MemoryInv, TalkInv
  <2>3. CASE machine.talk = chat.talk
    BY <2>1, <2>3
  <2>4. CASE machine.talk = Append(chat.talk, machine.turn) /\ machine.stage \in {"save", "diff"}
    <3>1. chat.talk \in Stories /\ machine.turn \in C!Turns
      BY <1>1, <2>4 DEF ChatInv, TalkTypes, ChatRow, MachineRow, MemoryInv, OrderInv
    <3>. QED BY <2>1, <2>4, <3>1, AppendIs
  <2>. QED BY <2>1, <2>2, <2>3, <2>4
<1>. QED BY <1>1, ConversationHolds, PTL

\* A diff hides only edits of turns whose agent began before the controller had a
\* baseline (saveSessionDiffBaseSha).
THEOREM DiffsShowEveryEdit == StartSpec => []DiffShowsEveryEdit
<1>1. ASSUME ChatInv PROVE DiffShowsEveryEdit
  BY <1>1 DEF ChatInv, DiffInv, Early, DiffShowsEveryEdit
<1>. QED BY <1>1, ConversationHolds, PTL

\* The stored conversation is only ever added to.
THEOREM ConversationMovesForward == StartSpec => TalkMovesForward
<1>1. ChatInv /\ [StartNext]_<<concern, vars, conversationVars>> => [Forward]_chat
  BY TalkKeeps DEF StartNext, Machine, conversationVars
<1>. QED BY <1>1, ConversationHolds, PTL DEF StartSpec, TalkMovesForward, Forward

\* The types of the conversation follow.
LEMMA ConversationTypes ==
  ASSUME ChatInv
  PROVE  C!ConversationTypeOK
<1>1. TalkTypes
  BY DEF ChatInv
<1>2. chat \in [active : {0} \cup C!Turns, operation : {"none", "parking"},
                talk : C!Talks, base : C!Optional(C!Revisions), workspace : C!Optional(C!Checkouts)]
  BY <1>1, StoryTalk DEF TalkTypes, ChatRow
<1>3. machine.talk \in C!Talks /\ \A m \in wire : m.turn \in C!Turns /\ m.talk \in C!Talks
  BY <1>1, StoryTalk DEF TalkTypes, MachineRow, Message
<1>. QED BY <1>1, <1>2, <1>3 DEF TalkTypes, TurnRow, MachineRow, C!ConversationTypeOK

-----------------------------------------------------------------------------
(* The machine. *)

\* An attempt, the session, the run and a window, field by field.
AttemptRow ==
  [phase : Phases, turn : {0} \cup Turns, attempt : Claims, catalog : SUBSET Packages,
   modes : [Names -> Modes \cup {Nothing}], plugins : SUBSET Packages,
   image : Images \cup {NoImage}, provider : Providers \cup {Nothing}, resume : BOOLEAN]

SessionRow ==
  [workspace : Providers \cup {Nothing}, image : Images \cup {NoImage},
   provider : Providers \cup {Nothing}, operation : BOOLEAN]

RunRow ==
  [turn : Turns, status : {"queued", "provisioning", "running", "ended", "parked"},
   attempt : Claims, source : {"user", "github"}, plugins : SUBSET Packages,
   machine : Providers \cup {Nothing}, given : SUBSET Packages, overtaken : BOOLEAN]

WindowRow == [must : SUBSET Packages, may : SUBSET Packages]

\* The types of what attempts read and write.
PrepareTypes ==
  /\ scope \in [about : {"plugins", "image"}, workers : SUBSET Workers, changes : 0 .. MaxChanges]
  /\ session \in SessionRow
  /\ environment \in {"default", "own"}
  /\ run \in RunRow
  /\ attempt \in [Workers -> AttemptRow]
  /\ window \in [Workers -> WindowRow]
  /\ template \in [Builds -> {"none", "building", "ready", "deleted"}]
  /\ pending \in [Workers -> {0} \cup Builds]
  /\ test \in {0} \cup Builds
  /\ machines \subseteq [provider : Providers, image : Images]

\* Where an attempt goes on with the pair that is pinned.
Pinned == {"start", "attach", "mark"}

\* The template of an image of the user's.
Template(i) == i[2]
Built(i) == i \in {<<"own", b>> : b \in Builds}

\* The image and the provider are pinned together, and whoever starts, attaches or
\* resumes a machine has the pinned pair.
PinInv ==
  /\ session.image = NoImage <=> session.provider = Nothing
  /\ session.workspace \in {Nothing, session.provider}
  /\ run.machine \in {Nothing, session.provider}
  /\ \A m \in machines : m.image = session.image /\ m.provider = session.provider
  /\ \A w \in Workers : attempt[w].phase \in Pinned =>
       /\ session.image # NoImage
       /\ attempt[w].image = session.image /\ attempt[w].provider = session.provider
  /\ \A w \in Workers : attempt[w].phase \in {"resolve", "building", "pin"} =>
       attempt[w].image # NoImage /\ attempt[w].provider # Nothing

\* A template that a session, an attempt or a resolution has is not the one under test.
TemplateInv ==
  /\ test # 0 => template[test] \in {"building", "ready"}
  /\ Built(session.image) =>
       template[Template(session.image)] = "ready" /\ test # Template(session.image)
  /\ \A w \in Workers :
       /\ attempt[w].phase = "resolve" => attempt[w].image \in {Default, <<"own", 0>>}
       /\ attempt[w].phase = "building" => Built(attempt[w].image)
       /\ attempt[w].phase \in {"building", "pin"} /\ Built(attempt[w].image) =>
            LET b == Template(attempt[w].image) IN
            /\ template[b] \in {"building", "ready"} /\ test # b
            /\ attempt[w].phase = "pin" => template[b] = "ready"
       /\ pending[w] # 0 => template[pending[w]] = "building" /\ test # pending[w]

\* What the catalogue must have given an attempt is required as long as it reads, and
\* what it may have given is all that was approved.
WindowInv == \A w \in Workers :
  LET a == attempt[w] IN
  /\ Reading(w) => window[w].must \subseteq Required /\ Approved \subseteq window[w].may
  /\ a.phase \in {"settings", "rows"} =>
       window[w].must \subseteq a.catalog /\ a.catalog \subseteq window[w].may
  /\ a.phase = "rows" => \A p \in window[w].must : a.modes[p[1]] = "required"

\* Worker w prepares the machine under the claim that the row names.
Current(w) ==
  attempt[w].phase # "idle" /\ attempt[w].turn = run.turn /\ attempt[w].attempt = run.attempt

Recorded == {"session", "resolve", "building", "pin", "start", "attach", "mark"}

\* A claim has one attempt, and what it recorded is what it goes on with, unless
\* another recorded after it; the attempt that attached keeps its claim.
RecordInv ==
  /\ \A w \in Workers : attempt[w].phase # "idle" =>
       /\ attempt[w].turn <= run.turn
       /\ attempt[w].turn = run.turn => attempt[w].attempt <= run.attempt
  /\ \A w, v \in Workers : Current(w) /\ Current(v) => w = v
  /\ \A w \in Workers : Current(w) =>
       /\ run.machine # Nothing => attempt[w].phase = "mark"
       /\ attempt[w].phase \in Recorded /\ ~run.overtaken => run.plugins = attempt[w].plugins
  /\ \A w \in Workers : attempt[w].phase = "mark" /\ attempt[w].turn = run.turn =>
       run.machine # Nothing
  /\ run.machine # Nothing /\ ~run.overtaken => run.plugins = run.given
  /\ run.status = "queued" => run.machine = Nothing
  /\ run.status = "running" => run.machine # Nothing
  /\ scope.about = "image" =>
       /\ run.plugins = {}
       /\ \A w \in Workers : attempt[w].phase \in {"idle"} \cup Recorded /\ attempt[w].plugins = {}

PrepareInv == PrepareTypes /\ PinInv /\ TemplateInv /\ WindowInv /\ PluginsAreAsSet /\ RecordInv

-----------------------------------------------------------------------------
\* What the assumptions say of the bounds and the providers.
LEMMA BoundsAre ==
  /\ LastTurn \in Nat \ {0} /\ MaxClaims \in Nat \ {0} /\ MaxBuilds \in Nat \ {0}
  /\ Turns \subseteq Nat \ {0} /\ Claims \subseteq Nat /\ Builds \subseteq Nat \ {0}
  /\ 0 \in Claims /\ 1 \in Turns /\ MaxChanges \in Nat
  /\ \A w \in Workers : Configured[w] \in Providers
  /\ Nothing \notin Providers /\ NoImage \notin Images
BY PreparationAssumption, MarketplaceAssumption
   DEF Turns, Claims, Builds, Providers, Nothing, NoImage, Images, Default

\* A worker without an attempt.
LEMMA NoAttemptIs ==
  NoAttempt \in AttemptRow /\ NoAttempt.phase = "idle" /\ NoAttempt.plugins = {} /\ Closed \in WindowRow
BY BoundsAre DEF NoAttempt, AttemptRow, Phases, Closed, WindowRow

\* Worker w's attempt is now a; the others' are as they were.
Moves(w, a) ==
  /\ a \in AttemptRow /\ attempt' \in [Workers -> AttemptRow]
  /\ attempt'[w] = a
  /\ \A v \in Workers : v # w => attempt'[v] = attempt[v]

\* Assigning an attempt moves one worker.
LEMMA MovesTo ==
  ASSUME attempt \in [Workers -> AttemptRow], NEW w \in Workers, NEW a \in AttemptRow,
         attempt' = [attempt EXCEPT ![w] = a]
  PROVE  Moves(w, a)
BY DEF Moves

\* An attempt a that differs from b in its phase, and the catalogue it has.
Alike(a, b) ==
  /\ a.turn = b.turn /\ a.attempt = b.attempt /\ a.plugins = b.plugins
  /\ a.image = b.image /\ a.provider = b.provider

\* An attempt at another phase has what it had,
LEMMA AtIs ==
  ASSUME attempt \in [Workers -> AttemptRow], NEW w \in Workers, NEW ph \in Phases
  PROVE  /\ At(w, ph) \in AttemptRow /\ At(w, ph).phase = ph /\ Alike(At(w, ph), attempt[w])
         /\ At(w, ph).catalog = attempt[w].catalog /\ At(w, ph).modes = attempt[w].modes
<1>1. attempt[w] \in AttemptRow
  OBVIOUS
<1>. QED BY <1>1 DEF At, AttemptRow, Alike

\* and so it has after a step that only changes its phase.
LEMMA StepIs ==
  ASSUME attempt \in [Workers -> AttemptRow], NEW w \in Workers, NEW from \in Phases, NEW to \in Phases,
         Step(w, from, At(w, to))
  PROVE  /\ attempt'[w].phase = to /\ Alike(attempt'[w], attempt[w]) /\ attempt[w].phase = from
         /\ attempt' \in [Workers -> AttemptRow]
         /\ \A v \in Workers : v = w \/ attempt'[v] = attempt[v]
BY AtIs, MovesTo DEF Step, Moves

\* Of the row of the run only the status is another.
Restatus ==
  /\ run' \in RunRow
  /\ run'.turn = run.turn /\ run'.attempt = run.attempt /\ run'.source = run.source
  /\ run'.plugins = run.plugins /\ run'.machine = run.machine /\ run'.given = run.given
  /\ run'.overtaken = run.overtaken

\* Setting the status changes nothing else of the run.
LEMMA RestatusIs ==
  ASSUME run \in RunRow, NEW s \in {"queued", "provisioning", "running", "ended", "parked"},
         run' = [run EXCEPT !.status = s]
  PROVE  Restatus /\ run'.status = s
<1>1. [run EXCEPT !.status = s] \in RunRow
  BY DEF RunRow
<1>. QED BY <1>1 DEF Restatus, RunRow

\* An attempt that fails ends; its run ends too, or is queued if it has no machine,
\* or belongs to another attempt and stays as it is.
LEMMA FailureIs ==
  ASSUME PrepareTypes, NEW w \in Workers, NEW retryable \in BOOLEAN, HandleFailure(w, retryable)
  PROVE  /\ Moves(w, NoAttempt)
         /\ window' \in [Workers -> WindowRow] /\ \A v \in Workers : v # w => window'[v] = window[v]
         /\ Restatus
         /\ \/ run'.status \in {run.status, "ended"}
            \/ run'.status = "queued" /\ run.machine = Nothing
<1>t. attempt \in [Workers -> AttemptRow] /\ window \in [Workers -> WindowRow] /\ run \in RunRow
  BY DEF PrepareTypes
<1>1. Moves(w, NoAttempt)
  BY <1>t, NoAttemptIs, MovesTo DEF HandleFailure
<1>2. window' \in [Workers -> WindowRow] /\ \A v \in Workers : v # w => window'[v] = window[v]
  BY <1>t, NoAttemptIs DEF HandleFailure
<1>3. CASE run' = run
  BY <1>t, <1>1, <1>2, <1>3 DEF Restatus
<1>4. CASE run' = [run EXCEPT !.status = "queued"] /\ run.machine = Nothing
  BY <1>t, <1>1, <1>2, <1>4, RestatusIs
<1>5. CASE run' = [run EXCEPT !.status = "ended"]
  BY <1>t, <1>1, <1>2, <1>5, RestatusIs
<1>. QED BY <1>3, <1>4, <1>5 DEF HandleFailure

-----------------------------------------------------------------------------
(* What keeps each part. *)

\* The pair stays pinned when no attempt comes to start a machine but with that
\* pair, and none to pin without one.
LEMMA PinStays ==
  ASSUME PinInv, session'.image = session.image, session'.provider = session.provider,
         session'.workspace \in {session.workspace, run.machine, Nothing},
         run'.machine \in {run.machine, Nothing}, machines' = machines,
         \A v \in Workers :
           \/ attempt'[v] = attempt[v]
           \/ attempt'[v].phase \notin Pinned \cup {"resolve", "building", "pin"}
           \/ /\ attempt'[v].phase \in Pinned /\ session.image # NoImage
              /\ attempt'[v].image = session.image /\ attempt'[v].provider = session.provider
           \/ /\ attempt'[v].phase \in {"resolve", "building", "pin"}
              /\ attempt'[v].image # NoImage /\ attempt'[v].provider # Nothing
  PROVE  PinInv'
<1>1. ASSUME NEW v \in Workers, attempt'[v].phase \in Pinned
      PROVE  /\ session'.image # NoImage
             /\ attempt'[v].image = session'.image /\ attempt'[v].provider = session'.provider
  BY <1>1 DEF PinInv, Pinned
<1>2. ASSUME NEW v \in Workers, attempt'[v].phase \in {"resolve", "building", "pin"}
      PROVE  attempt'[v].image # NoImage /\ attempt'[v].provider # Nothing
  BY <1>2 DEF PinInv, Pinned
<1>3. /\ session'.workspace \in {Nothing, session'.provider}
      /\ run'.machine \in {Nothing, session'.provider}
  BY DEF PinInv
<1>. QED BY <1>1, <1>2, <1>3 DEF PinInv

\* Templates stay when none begins or ends, and an attempt comes to pin only with
\* one that is built.
LEMMA TemplatesStay ==
  ASSUME TemplateInv, session'.image = session.image, template' = template, test' = test,
         \A v \in Workers : pending'[v] \in {pending[v], 0},
         \A v \in Workers :
           \/ attempt'[v] = attempt[v]
           \/ attempt'[v].phase \notin {"resolve", "building", "pin"}
           \/ /\ attempt'[v].phase \in {"resolve", "pin"}
              /\ attempt'[v].image \in {Default, <<"own", 0>>}
           \/ /\ attempt[v].phase = "building" /\ attempt'[v].phase = "pin"
              /\ attempt'[v].image = attempt[v].image
              /\ template[Template(attempt[v].image)] # "building"
  PROVE  TemplateInv'
<1>1. ~Built(Default) /\ ~Built(<<"own", 0>>)
  BY BoundsAre DEF Built, Default
<1>2. ASSUME NEW w \in Workers
      PROVE  /\ attempt'[w].phase = "resolve" => attempt'[w].image \in {Default, <<"own", 0>>}
             /\ attempt'[w].phase = "building" => Built(attempt'[w].image)
             /\ attempt'[w].phase \in {"building", "pin"} /\ Built(attempt'[w].image) =>
                  LET b == Template(attempt'[w].image) IN
                  /\ template'[b] \in {"building", "ready"} /\ test' # b
                  /\ attempt'[w].phase = "pin" => template'[b] = "ready"
             /\ pending'[w] # 0 => template'[pending'[w]] = "building" /\ test' # pending'[w]
  BY <1>1 DEF TemplateInv
<1>3. /\ test' # 0 => template'[test'] \in {"building", "ready"}
      /\ Built(session'.image) =>
           template'[Template(session'.image)] = "ready" /\ test' # Template(session'.image)
  BY DEF TemplateInv
<1>. QED BY <1>2, <1>3 DEF TemplateInv, Built, Template

\* What must and what may attach stays when nothing is read.
LEMMA WindowsStay ==
  ASSUME WindowInv, PluginsAreAsSet, UNCHANGED <<package, mode>>,
         \A v \in Workers :
           \/ attempt'[v] = attempt[v] /\ window'[v] = window[v]
           \/ attempt'[v].phase \notin {"catalog", "settings", "rows", "variables", "record"}
           \/ /\ attempt[v].phase = "variables" /\ attempt'[v].phase = "record"
              /\ Alike(attempt'[v], attempt[v]) /\ window'[v] = window[v]
  PROVE  WindowInv' /\ PluginsAreAsSet'
BY DEF WindowInv, PluginsAreAsSet, Reading, Required, Approved, Alike

\* What is recorded stays when attempts go on, short of attaching, or end.
LEMMA RecordStays ==
  ASSUME PrepareTypes, RecordInv, Restatus, scope' = scope,
         \/ run'.status \in {run.status, "ended", "parked"}
         \/ run'.status = "queued" /\ run.machine = Nothing
         \/ run'.status = "running" /\ run.machine # Nothing,
         \A v \in Workers :
           \/ attempt'[v] = attempt[v]
           \/ attempt'[v].phase = "idle" /\ attempt'[v].plugins = {}
           \/ /\ attempt'[v].turn = attempt[v].turn /\ attempt'[v].attempt = attempt[v].attempt
              /\ attempt'[v].plugins = attempt[v].plugins
              /\ attempt[v].phase \notin {"idle", "mark"}
              /\ attempt[v].phase \in Recorded <=> attempt'[v].phase \in Recorded
              /\ attempt'[v].phase \notin {"idle", "mark"}
           \/ /\ attempt'[v].turn = attempt[v].turn /\ attempt'[v].attempt = attempt[v].attempt
              /\ attempt[v].phase \notin Recorded \cup {"idle"}
              /\ attempt'[v].phase \notin Recorded \cup {"idle"}
  PROVE  RecordInv'
<1>1. \A v \in Workers : Current(v)' => Current(v)
  BY DEF Current, Restatus, Alike, Recorded
<1>2. \A v \in Workers : attempt'[v].phase # "idle" =>
       /\ attempt[v].phase # "idle"
       /\ attempt'[v].turn = attempt[v].turn /\ attempt'[v].attempt = attempt[v].attempt
       /\ attempt'[v].phase = "mark" <=> attempt[v].phase = "mark"
       /\ attempt'[v].phase \in Recorded => /\ attempt[v].phase \in Recorded
                                            /\ attempt'[v].plugins = attempt[v].plugins
  BY DEF Alike, Recorded
<1>3. /\ \A w \in Workers : attempt'[w].phase # "idle" =>
         /\ attempt'[w].turn <= run'.turn
         /\ attempt'[w].turn = run'.turn => attempt'[w].attempt <= run'.attempt
      /\ \A w, v \in Workers : Current(w)' /\ Current(v)' => w = v
  BY <1>1, <1>2 DEF RecordInv, Restatus
<1>4. \A w \in Workers : Current(w)' =>
       /\ run'.machine # Nothing => attempt'[w].phase = "mark"
       /\ attempt'[w].phase \in Recorded /\ ~run'.overtaken => run'.plugins = attempt'[w].plugins
  BY <1>1, <1>2 DEF RecordInv, Restatus, Current
<1>5. /\ \A w \in Workers : attempt'[w].phase = "mark" /\ attempt'[w].turn = run'.turn =>
            run'.machine # Nothing
      /\ run'.machine # Nothing /\ ~run'.overtaken => run'.plugins = run'.given
      /\ run'.status = "queued" => run'.machine = Nothing
      /\ run'.status = "running" => run'.machine # Nothing
  BY <1>2 DEF RecordInv, Restatus
<1>6. scope'.about = "image" =>
       /\ run'.plugins = {}
       /\ \A w \in Workers : attempt'[w].phase \in {"idle"} \cup Recorded /\ attempt'[w].plugins = {}
  BY DEF RecordInv, Restatus, Alike
<1>. QED BY <1>3, <1>4, <1>5, <1>6 DEF RecordInv

-----------------------------------------------------------------------------
(* The marketplace. *)

\* Types of a package,
LEMMA PackageRows ==
  ASSUME package \in [Packages -> PackageRow], NEW p \in Packages,
         \/ \E b \in BOOLEAN : package' = [package EXCEPT ![p].whole = b]
         \/ \E s \in {"draft", "approved", "yanked"} : package' = [package EXCEPT ![p].status = s]
  PROVE  package' \in [Packages -> PackageRow]
<1>0. package[p] \in PackageRow
  OBVIOUS
<1>1. CASE \E b \in BOOLEAN : package' = [package EXCEPT ![p].whole = b]
  <2>1. PICK b \in BOOLEAN : package' = [package EXCEPT ![p].whole = b]
    BY <1>1
  <2>. DEFINE r == [package[p] EXCEPT !.whole = b]
  <2>2. r \in PackageRow
    BY <1>0 DEF PackageRow
  <2>3. package' = [package EXCEPT ![p] = r]
    BY <2>1
  <2>. HIDE DEF r
  <2>. QED BY <2>2, <2>3
<1>2. CASE \E s \in {"draft", "approved", "yanked"} : package' = [package EXCEPT ![p].status = s]
  <2>1. PICK s \in {"draft", "approved", "yanked"} : package' = [package EXCEPT ![p].status = s]
    BY <1>2
  <2>. DEFINE r == [package[p] EXCEPT !.status = s]
  <2>2. r \in PackageRow
    BY <1>0 DEF PackageRow
  <2>3. package' = [package EXCEPT ![p] = r]
    BY <2>1
  <2>. HIDE DEF r
  <2>. QED BY <2>2, <2>3
<1>. QED BY <1>1, <1>2

\* of a publication,
LEMMA PublisherTypes ==
  ASSUME MarketplaceTypeOK,
         ClearArtifact \/ CopyArtifact \/ ListVersion \/ SettleMode \/ StopPublishing
  PROVE  MarketplaceTypeOK'
<1>t. /\ package \in [Packages -> PackageRow] /\ mode \in [Names -> Modes]
      /\ publisher \in {NoPublication} \cup Publication /\ changes \in 0 .. MaxChanges
      /\ own \in [Names -> OwnRow] /\ variable \in [Names -> BOOLEAN]
      /\ asked \in [Names -> {NoRequest} \cup Request]
  BY DEF MarketplaceTypeOK
<1>c. Change => changes' \in 0 .. MaxChanges
  BY <1>t, BoundsAre DEF Change
<1>p. publisher.phase \in {"cleared", "copied", "listed"} =>
        /\ publisher \in Publication /\ publisher.package \in Packages /\ publisher.mode \in Modes
        /\ publisher.status \in {"draft", "approved"}
        /\ [publisher EXCEPT !.phase = "copied"] \in Publication
        /\ [publisher EXCEPT !.phase = "listed"] \in Publication
        /\ publisher.package[1] \in Names
  BY <1>t DEF NoPublication, Publication, Packages
<1>1. CASE ClearArtifact
  <2>1. PICK p \in Packages, s \in {"draft", "approved"}, m \in Modes :
       /\ publisher' = [phase |-> "cleared", package |-> p, status |-> s, mode |-> m]
       /\ package' = [package EXCEPT ![p].whole = FALSE]
    BY <1>1 DEF ClearArtifact
  <2>2. package' \in [Packages -> PackageRow] /\ publisher' \in Publication
    BY <1>t, <2>1, PackageRows DEF Publication
  <2>. QED BY <1>t, <1>c, <1>1, <2>2 DEF ClearArtifact, MarketplaceTypeOK
<1>2. CASE CopyArtifact
  <2>1. package' \in [Packages -> PackageRow] /\ publisher' \in Publication
    BY <1>t, <1>p, <1>2, PackageRows DEF CopyArtifact
  <2>. QED BY <1>t, <1>2, <2>1 DEF CopyArtifact, MarketplaceTypeOK
<1>3. CASE ListVersion
  <2>1. package' \in [Packages -> PackageRow] /\ publisher' \in Publication
    BY <1>t, <1>p, <1>3, PackageRows DEF ListVersion
  <2>. QED BY <1>t, <1>3, <2>1 DEF ListVersion, MarketplaceTypeOK
<1>4. CASE SettleMode
  BY <1>t, <1>p, <1>4 DEF SettleMode, MarketplaceTypeOK
<1>5. CASE StopPublishing
  BY <1>t, <1>5 DEF StopPublishing, MarketplaceTypeOK
<1>. QED BY <1>1, <1>2, <1>3, <1>4, <1>5

\* of reviews, modes and variables,
LEMMA ReviewTypes ==
  ASSUME MarketplaceTypeOK,
         \/ \E p \in Packages, s \in {"draft", "approved", "yanked"} : SetReviewStatus(p, s)
         \/ \E n \in Names, m \in Modes : SetInstallMode(n, m)
         \/ \E n \in Names : Configure(n)
  PROVE  MarketplaceTypeOK'
<1>t. /\ package \in [Packages -> PackageRow] /\ mode \in [Names -> Modes]
      /\ publisher \in {NoPublication} \cup Publication /\ changes \in 0 .. MaxChanges
      /\ own \in [Names -> OwnRow] /\ variable \in [Names -> BOOLEAN]
      /\ asked \in [Names -> {NoRequest} \cup Request]
  BY DEF MarketplaceTypeOK
<1>c. Change => changes' \in 0 .. MaxChanges
  BY <1>t, BoundsAre DEF Change
<1>1. ASSUME NEW p \in Packages, NEW s \in {"draft", "approved", "yanked"}, SetReviewStatus(p, s)
      PROVE  MarketplaceTypeOK'
  <2>1. package' \in [Packages -> PackageRow]
    BY <1>t, <1>1, PackageRows DEF SetReviewStatus
  <2>. QED BY <1>t, <1>c, <1>1, <2>1 DEF SetReviewStatus, MarketplaceTypeOK
<1>2. ASSUME NEW n \in Names, NEW m \in Modes, SetInstallMode(n, m)
      PROVE  MarketplaceTypeOK'
  BY <1>t, <1>c, <1>2 DEF SetInstallMode, MarketplaceTypeOK
<1>3. ASSUME NEW n \in Names, Configure(n)
      PROVE  MarketplaceTypeOK'
  BY <1>t, <1>c, <1>3 DEF Configure, MarketplaceTypeOK
<1>. QED BY <1>1, <1>2, <1>3

\* and of the user's requests:
LEMMA RequestTypes ==
  ASSUME MarketplaceTypeOK, NEW n \in Names,
         \/ \E enable \in BOOLEAN : AskInstall(n, enable)
         \/ StoreInstall(n) \/ AskUninstall(n) \/ RemoveVariables(n) \/ ForgetInstall(n)
  PROVE  MarketplaceTypeOK'
<1>t. /\ package \in [Packages -> PackageRow] /\ mode \in [Names -> Modes]
      /\ publisher \in {NoPublication} \cup Publication /\ changes \in 0 .. MaxChanges
      /\ own \in [Names -> OwnRow] /\ variable \in [Names -> BOOLEAN]
      /\ asked \in [Names -> {NoRequest} \cup Request] /\ asked[n] \in {NoRequest} \cup Request
  BY DEF MarketplaceTypeOK
<1>c. Change => changes' \in 0 .. MaxChanges
  BY <1>t, BoundsAre DEF Change
<1>1. ASSUME NEW phase \in {"store", "remove"}, NEW enable \in BOOLEAN, Ask(n, phase, enable),
             UNCHANGED <<package, mode, own, variable, publisher>>
      PROVE  MarketplaceTypeOK'
  <2>1. PICK v \in ApprovedVersions(n) : asked' = [asked EXCEPT ![n] =
          [phase |-> phase, enable |-> enable, version |-> v]]
    BY <1>1 DEF Ask
  <2>2. v \in Versions
    BY DEF ApprovedVersions, Approved, Packages
  <2>. DEFINE q == [phase |-> phase, enable |-> enable, version |-> v]
  <2>3. q \in Request
    BY <2>2 DEF Request
  <2>. HIDE DEF q
  <2>4. asked' \in [Names -> {NoRequest} \cup Request]
    BY <1>t, <2>1, <2>3 DEF q
  <2>. QED BY <1>t, <1>c, <1>1, <2>4 DEF Ask, MarketplaceTypeOK
<1>2. CASE StoreInstall(n)
  <2>1. asked[n] \in Request /\ asked[n].version \in Versions
    BY <1>t, <1>2 DEF StoreInstall, NoRequest, Request
  <2>. DEFINE r == [override |-> IF asked[n].enable THEN "enabled" ELSE "disabled",
                    version |-> asked[n].version]
  <2>2. r \in OwnRow
    BY <2>1 DEF OwnRow
  <2>. HIDE DEF r
  <2>3. own' \in [Names -> OwnRow] /\ asked' \in [Names -> {NoRequest} \cup Request]
    BY <1>t, <1>2, <2>2 DEF StoreInstall, r
  <2>. QED BY <1>t, <1>2, <2>3 DEF StoreInstall, MarketplaceTypeOK
<1>3. CASE RemoveVariables(n)
  <2>. DEFINE q == [asked[n] EXCEPT !.phase = "forget"]
  <2>1. q \in Request
    BY <1>t, <1>3 DEF RemoveVariables, NoRequest, Request
  <2>2. asked' = [asked EXCEPT ![n] = q]
    BY <1>3 DEF RemoveVariables
  <2>. HIDE DEF q
  <2>3. asked' \in [Names -> {NoRequest} \cup Request] /\ variable' \in [Names -> BOOLEAN]
    BY <1>t, <1>3, <2>1, <2>2 DEF RemoveVariables
  <2>. QED BY <1>t, <1>3, <2>3 DEF RemoveVariables, MarketplaceTypeOK
<1>4. CASE ForgetInstall(n)
  <2>1. NoRow \in OwnRow
    BY DEF NoRow, OwnRow
  <2>. QED BY <1>t, <1>4, <2>1 DEF ForgetInstall, MarketplaceTypeOK
<1>. QED BY <1>1, <1>2, <1>3, <1>4 DEF AskInstall, AskUninstall

\* every step of the marketplace keeps its types.
LEMMA MarketplaceTypes ==
  ASSUME MarketplaceTypeOK, MarketplaceNext
  PROVE  MarketplaceTypeOK'
BY PublisherTypes, ReviewTypes, RequestTypes DEF MarketplaceNext

-----------------------------------------------------------------------------
(* What happens around the attempts. *)

\* Whatever leaves the attempts and the pinned pair alone keeps the invariant,
LEMMA RowsKeep ==
  ASSUME PrepareInv,
         UNCHANGED <<scope, package, mode, attempt, window, template, pending, test, machines>>,
         environment' \in {"default", "own"}, session' \in SessionRow,
         session'.image = session.image, session'.provider = session.provider,
         session'.workspace \in {session.workspace, run.machine, Nothing},
         Restatus,
         \/ run'.status \in {run.status, "ended", "parked"}
         \/ run'.status = "queued" /\ run.machine = Nothing
  PROVE  PrepareInv'
<1>i. PrepareTypes /\ PinInv /\ TemplateInv /\ WindowInv /\ PluginsAreAsSet /\ RecordInv
  BY DEF PrepareInv
<1>1. PrepareTypes'
  BY <1>i DEF PrepareTypes, Restatus
<1>2. PinInv'
  BY <1>i, PinStays DEF Restatus
<1>3. TemplateInv'
  BY <1>i, TemplatesStay
<1>4. WindowInv' /\ PluginsAreAsSet'
  BY <1>i, WindowsStay
<1>5. RecordInv'
  BY <1>i, RecordStays
<1>. QED BY <1>1, <1>2, <1>3, <1>4, <1>5 DEF PrepareInv

\* as do a new image of the user, the ends and the parks of turns, and an expiry.
LEMMA SessionAroundKeeps ==
  ASSUME PrepareInv,
         SaveImage \/ Requeue \/ EndTurn \/ ParkUnstarted \/ BeginParking \/ EndParking \/ Expire
  PROVE  PrepareInv'
<1>t. session \in SessionRow /\ run \in RunRow /\ environment \in {"default", "own"}
  BY DEF PrepareInv, PrepareTypes
<1>s. Restatus \/ run' # run
  BY <1>t DEF Restatus
<1>w. ASSUME NEW x \in {run.machine, Nothing}, NEW o \in BOOLEAN,
             session' = [session EXCEPT !.operation = o, !.workspace = x]
      PROVE  /\ session' \in SessionRow /\ session'.workspace = x
             /\ session'.image = session.image /\ session'.provider = session.provider
  <2>1. x \in Providers \cup {Nothing}
    BY <1>t DEF RunRow
  <2>. QED BY <1>t, <1>w, <2>1 DEF SessionRow
<1>1. CASE SaveImage
  BY <1>t, <1>s, <1>1, RowsKeep DEF SaveImage, marketplaceVars
<1>2. CASE Requeue
  <2>1. Restatus /\ run'.status = "queued"
    BY <1>t, <1>2, RestatusIs DEF Requeue
  <2>. QED BY <1>t, <1>2, <2>1, RowsKeep DEF Requeue, marketplaceVars, imageVars
<1>3. CASE EndTurn
  <2>1. Restatus /\ run'.status = "ended"
    BY <1>t, <1>3, RestatusIs DEF EndTurn
  <2>. QED BY <1>t, <1>3, <2>1, RowsKeep DEF EndTurn, marketplaceVars, imageVars
<1>4. CASE ParkUnstarted
  <2>1. Restatus /\ run'.status = "parked"
    BY <1>t, <1>4, RestatusIs DEF ParkUnstarted
  <2>. QED BY <1>t, <1>4, <2>1, RowsKeep DEF ParkUnstarted, marketplaceVars, imageVars
<1>5. CASE BeginParking
  <2>1. /\ session' \in SessionRow /\ session'.workspace = session.workspace
        /\ session'.image = session.image /\ session'.provider = session.provider
    BY <1>t, <1>5 DEF BeginParking, SessionRow
  <2>. QED BY <1>t, <1>s, <1>5, <2>1, RowsKeep DEF BeginParking, marketplaceVars, imageVars
<1>6. CASE EndParking
  <2>1. Restatus /\ run'.status = "parked"
    BY <1>t, <1>6, RestatusIs DEF EndParking
  <2>2. PICK x \in {run.machine, Nothing} : session' = [session EXCEPT !.operation = FALSE, !.workspace = x]
    BY <1>6 DEF EndParking
  <2>3. /\ session' \in SessionRow /\ session'.workspace = x
        /\ session'.image = session.image /\ session'.provider = session.provider
    BY <1>w, <2>2
  <2>. QED BY <1>t, <1>6, <2>1, <2>3, RowsKeep DEF EndParking, marketplaceVars, imageVars
<1>7. CASE Expire
  <2>1. /\ session' \in SessionRow /\ session'.workspace = Nothing
        /\ session'.image = session.image /\ session'.provider = session.provider
    BY <1>t, <1>7 DEF Expire, SessionRow
  <2>. QED BY <1>t, <1>s, <1>7, <2>1, RowsKeep DEF Expire, marketplaceVars, imageVars
<1>. QED BY <1>1, <1>2, <1>3, <1>4, <1>5, <1>6, <1>7

\* To the next turn every attempt is of an earlier one.
LEMMA NextTurnKeeps ==
  ASSUME PrepareInv, NextTurn
  PROVE  PrepareInv'
<1>i. /\ PrepareTypes /\ PinInv /\ TemplateInv /\ WindowInv /\ PluginsAreAsSet /\ RecordInv
      /\ run \in RunRow /\ attempt \in [Workers -> AttemptRow] /\ scope.about = "image"
      /\ UNCHANGED <<scope, package, mode, session, environment, attempt, window, template,
                     pending, test, machines>>
  BY DEF PrepareInv, PrepareTypes, NextTurn, marketplaceVars, imageVars
<1>1. /\ run' \in RunRow /\ run'.turn = run.turn + 1 /\ run'.machine = Nothing
      /\ run'.status = "queued" /\ run'.plugins = {} /\ run'.overtaken = FALSE
  <2>1. PICK source \in {"user", "github"} : run' = Queued(run.turn + 1, source)
    BY DEF NextTurn
  <2>2. run.turn + 1 \in Turns
    BY <1>i, BoundsAre DEF NextTurn, RunRow, Turns
  <2>. QED BY <2>1, <2>2, BoundsAre DEF Queued, RunRow
<1>2. PrepareTypes'
  BY <1>i, <1>1 DEF PrepareTypes
<1>3. PinInv'
  BY <1>i, <1>1, PinStays
<1>4. TemplateInv' /\ WindowInv' /\ PluginsAreAsSet'
  BY <1>i, TemplatesStay, WindowsStay
<1>5. RecordInv'
  <2>1. ASSUME NEW w \in Workers, attempt[w].phase # "idle" PROVE attempt[w].turn <= run'.turn /\ attempt[w].turn # run'.turn
    <3>1. attempt[w].turn <= run.turn /\ attempt[w].turn \in Nat /\ run.turn \in Nat
      BY <1>i, <2>1, BoundsAre DEF RecordInv, AttemptRow, RunRow
    <3>. QED BY <1>1, <3>1
  <2>. QED BY <1>i, <1>1, <2>1 DEF RecordInv, Current
<1>. QED BY <1>2, <1>3, <1>4, <1>5 DEF PrepareInv

\* The test of an image deletes its own template, which nobody else has; a build
\* that ends is one that others may pin.
LEMMA TemplatesKeep ==
  ASSUME PrepareInv, BeginTest \/ EndTest \/ \E b \in Builds : EndBuild(b)
  PROVE  PrepareInv'
<1>i. /\ PrepareTypes /\ PinInv /\ TemplateInv /\ WindowInv /\ PluginsAreAsSet /\ RecordInv
      /\ UNCHANGED <<scope, package, mode, session, environment, run, attempt, window, machines>>
  BY DEF PrepareInv, BeginTest, EndTest, EndBuild, marketplaceVars
<1>t. /\ template \in [Builds -> {"none", "building", "ready", "deleted"}]
      /\ pending \in [Workers -> {0} \cup Builds] /\ test \in {0} \cup Builds /\ 0 \notin Builds
  BY <1>i, BoundsAre DEF PrepareTypes
<1>b. \A i : Built(i) => Template(i) \in Builds
  BY DEF Built, Template
<1>1. /\ template' \in [Builds -> {"none", "building", "ready", "deleted"}]
      /\ pending' \in [Workers -> {0} \cup Builds] /\ test' \in {0} \cup Builds
  BY <1>t DEF BeginTest, EndTest, EndBuild
<1>2. PrepareTypes'
  BY <1>i, <1>1 DEF PrepareTypes
<1>3. PinInv' /\ WindowInv' /\ PluginsAreAsSet'
  BY <1>i, PinStays, WindowsStay
<1>4. RecordInv'
  BY <1>i DEF RecordInv, Current
<1>5. TemplateInv'
  <2>1. CASE BeginTest
    <3>1. PICK b \in Builds : /\ template[b] = "none" /\ template' = [template EXCEPT ![b] = "building"]
                              /\ test' = b /\ pending' = pending
      BY <2>1 DEF BeginTest, NewTemplate
    <3>. QED BY <1>i, <1>t, <1>b, <3>1 DEF TemplateInv
  <2>2. CASE EndTest
    <3>1. /\ test \in Builds /\ template' = [template EXCEPT ![test] = "deleted"]
          /\ test' = 0 /\ pending' = pending
      BY <1>t, <2>2 DEF EndTest
    <3>. QED BY <1>i, <1>t, <1>b, <3>1 DEF TemplateInv
  <2>3. ASSUME NEW b \in Builds, EndBuild(b) PROVE TemplateInv'
    <3>1. /\ template[b] = "building" /\ template' = [template EXCEPT ![b] = "ready"]
          /\ test' = test /\ \A w \in Workers : pending'[w] = IF pending[w] = b THEN 0 ELSE pending[w]
      BY <2>3 DEF EndBuild
    <3>. QED BY <1>i, <1>t, <1>b, <3>1 DEF TemplateInv
  <2>. QED BY <2>1, <2>2, <2>3
<1>. QED BY <1>2, <1>3, <1>4, <1>5 DEF PrepareInv

\* The window follows the catalogue while attempts read.
LEMMA CatalogueKeeps ==
  ASSUME PrepareInv, Catalogue
  PROVE  PrepareInv'
<1>i. /\ PrepareTypes /\ PinInv /\ TemplateInv /\ WindowInv /\ PluginsAreAsSet /\ RecordInv
      /\ window \in [Workers -> WindowRow]
      /\ UNCHANGED <<scope, session, environment, template, pending, test, run, attempt, machines>>
  BY DEF PrepareInv, PrepareTypes, Catalogue, imageVars
<1>1. \A w \in Workers : window'[w] =
        IF Reading(w) THEN [must |-> window[w].must \cap Required', may |-> window[w].may \cup Approved']
                      ELSE window[w]
  BY DEF Catalogue
<1>2. Required' \subseteq Packages /\ Approved' \subseteq Packages
  BY DEF Required, Approved
<1>3. window' \in [Workers -> WindowRow]
  <2>1. \A w \in Workers : [must |-> window[w].must \cap Required', may |-> window[w].may \cup Approved'] \in WindowRow
    BY <1>i, <1>2 DEF WindowRow
  <2>2. window' = [w \in Workers |-> window'[w]]
    BY DEF Catalogue
  <2>. QED BY <1>i, <1>1, <2>1, <2>2
<1>4. PrepareTypes'
  BY <1>i, <1>3 DEF PrepareTypes
<1>5. PinInv' /\ TemplateInv'
  BY <1>i, PinStays, TemplatesStay
<1>6. RecordInv'
  BY <1>i DEF RecordInv, Current
<1>7. ASSUME NEW w \in Workers, Reading(w)
      PROVE  /\ window'[w].must \subseteq Required' /\ Approved' \subseteq window'[w].may
             /\ window'[w].must \subseteq window[w].must /\ window[w].may \subseteq window'[w].may
  <2>0. window'[w] = [must |-> window[w].must \cap Required', may |-> window[w].may \cup Approved']
    BY <1>1, <1>7, Zenon
  <2>1. window'[w].must = window[w].must \cap Required' /\ window'[w].may = window[w].may \cup Approved'
    BY <2>0
  <2>2. \A R, A : /\ window[w].must \cap R \subseteq R /\ window[w].must \cap R \subseteq window[w].must
                 /\ A \subseteq window[w].may \cup A /\ window[w].may \subseteq window[w].may \cup A
    OBVIOUS
  <2>. QED BY <2>1, <2>2, Zenon
<1>8. WindowInv'
  BY <1>i, <1>7 DEF WindowInv, Reading
<1>9. PluginsAreAsSet'
  BY <1>i, <1>1 DEF PluginsAreAsSet, Reading
<1>. QED BY <1>4, <1>5, <1>6, <1>8, <1>9 DEF PrepareInv

-----------------------------------------------------------------------------
(* What an attempt does. *)

\* An attempt that ends keeps the invariant,
LEMMA EndsKeep ==
  ASSUME PrepareInv, NEW w \in Workers, Moves(w, NoAttempt),
         UNCHANGED <<scope, package, mode, session, environment, template, test, machines>>,
         pending' \in [Workers -> {0} \cup Builds], \A v \in Workers : pending'[v] \in {pending[v], 0},
         window' \in [Workers -> WindowRow], \A v \in Workers : v # w => window'[v] = window[v],
         Restatus,
         \/ run'.status \in {run.status, "ended"}
         \/ run'.status = "queued" /\ run.machine = Nothing
         \/ run'.status = "running" /\ run.machine # Nothing
  PROVE  PrepareInv'
<1>i. PrepareTypes /\ PinInv /\ TemplateInv /\ WindowInv /\ PluginsAreAsSet /\ RecordInv
  BY DEF PrepareInv
<1>a. \A v \in Workers : \/ attempt'[v] = attempt[v] /\ v # w
                         \/ attempt'[v].phase = "idle" /\ attempt'[v].plugins = {} /\ v = w
  BY NoAttemptIs DEF Moves
<1>1. PrepareTypes'
  BY <1>i DEF PrepareTypes, Restatus, Moves
<1>2. PinInv'
  BY <1>i, <1>a, PinStays DEF Restatus, Pinned
<1>3. TemplateInv'
  BY <1>i, <1>a, TemplatesStay
<1>4. WindowInv' /\ PluginsAreAsSet'
  BY <1>i, <1>a, WindowsStay
<1>5. RecordInv'
  BY <1>i, <1>a, RecordStays
<1>. QED BY <1>1, <1>2, <1>3, <1>4, <1>5 DEF PrepareInv

\* by a failure
LEMMA FailureKeeps ==
  ASSUME PrepareInv, NEW w \in Workers, NEW retryable \in BOOLEAN, HandleFailure(w, retryable),
         UNCHANGED <<scope, package, mode, session, environment, template, pending, test, machines>>
  PROVE  PrepareInv'
<1>1. PrepareTypes /\ pending \in [Workers -> {0} \cup Builds]
  BY DEF PrepareInv, PrepareTypes
<1>. QED BY <1>1, FailureIs, EndsKeep

\* or because the controller is stopped or the turn is running.
LEMMA StopKeeps ==
  ASSUME PrepareInv, NEW w \in Workers, Fail(w) \/ Stop(w) \/ MarkRunning(w)
  PROVE  PrepareInv'
<1>t. /\ attempt \in [Workers -> AttemptRow] /\ pending \in [Workers -> {0} \cup Builds]
      /\ window \in [Workers -> WindowRow] /\ run \in RunRow
  BY DEF PrepareInv, PrepareTypes
<1>1. CASE Fail(w)
  BY <1>1, FailureKeeps DEF Fail, marketplaceVars, imageVars
<1>2. CASE Stop(w)
  <2>1. Moves(w, NoAttempt)
    BY <1>t, <1>2, NoAttemptIs, MovesTo DEF Stop
  <2>2. /\ pending' \in [Workers -> {0} \cup Builds] /\ \A v \in Workers : pending'[v] \in {pending[v], 0}
        /\ window' \in [Workers -> WindowRow] /\ \A v \in Workers : v # w => window'[v] = window[v]
    BY <1>t, <1>2, NoAttemptIs DEF Stop
  <2>3. Restatus /\ run'.status = run.status
    BY <1>t, <1>2 DEF Stop, Restatus
  <2>. QED BY <1>2, <2>1, <2>2, <2>3, EndsKeep DEF Stop, marketplaceVars
<1>3. CASE MarkRunning(w)
  <2>1. Moves(w, NoAttempt) /\ attempt[w].phase = "mark"
    BY <1>t, <1>3, NoAttemptIs, MovesTo DEF MarkRunning, Step
  <2>2. CASE run.turn = attempt[w].turn /\ run' = [run EXCEPT !.status = "running"]
    <3>1. run.machine # Nothing
      BY <2>1, <2>2 DEF PrepareInv, RecordInv
    <3>2. Restatus /\ run'.status = "running"
      BY <1>t, <2>2, RestatusIs
    <3>. QED BY <1>3, <1>t, <2>1, <3>1, <3>2, EndsKeep DEF MarkRunning, marketplaceVars, imageVars
  <2>3. CASE run' = run
    <3>1. Restatus /\ run'.status = run.status
      BY <1>t, <2>3 DEF Restatus
    <3>. QED BY <1>3, <1>t, <2>1, <3>1, EndsKeep DEF MarkRunning, marketplaceVars, imageVars
  <2>. QED BY <1>3, <2>2, <2>3 DEF MarkRunning
<1>. QED BY <1>1, <1>2, <1>3

\* A claim begins the only attempt that has its number, and opens its window.
LEMMA ClaimKeeps ==
  ASSUME PrepareInv, NEW w \in Workers, Claim(w)
  PROVE  PrepareInv'
<1>i. /\ PrepareTypes /\ PinInv /\ TemplateInv /\ WindowInv /\ PluginsAreAsSet /\ RecordInv
      /\ run \in RunRow /\ attempt \in [Workers -> AttemptRow] /\ window \in [Workers -> WindowRow]
      /\ UNCHANGED <<scope, package, mode, session, environment, template, pending, test, machines>>
      /\ attempt[w].phase = "idle" /\ run.status = "queued"
  BY DEF PrepareInv, PrepareTypes, Claim, Step, marketplaceVars, imageVars
<1>. DEFINE ph == IF scope.about = "image" THEN "session" ELSE "catalog"
            a == [NoAttempt EXCEPT !.phase = ph, !.turn = run.turn, !.attempt = run.attempt + 1]
            s == IF scope.about = "image" THEN Closed ELSE [must |-> Required, may |-> Approved]
<1>1. run.attempt + 1 \in Claims /\ run.turn \in Turns /\ run.turn \in Nat /\ run.attempt \in Nat
  BY <1>i, BoundsAre DEF Claim, RunRow, Claims
<1>2. /\ a \in AttemptRow /\ a.phase = ph /\ a.turn = run.turn /\ a.attempt = run.attempt + 1
      /\ a.plugins = {}
  BY <1>1, NoAttemptIs DEF AttemptRow, Phases
<1>3. attempt' = [attempt EXCEPT ![w] = a] /\ window' = [window EXCEPT ![w] = s]
  BY DEF Claim, Step
<1>. HIDE DEF a
<1>4. Moves(w, a)
  BY <1>i, <1>2, <1>3, MovesTo
<1>5. s \in WindowRow
  BY DEF Closed, WindowRow, Required, Approved
<1>6. window'[w] = s /\ window' \in [Workers -> WindowRow] /\ \A v \in Workers : v # w => window'[v] = window[v]
  BY <1>i, <1>3, <1>5
<1>7. /\ run' \in RunRow /\ run'.turn = run.turn /\ run'.attempt = run.attempt + 1
      /\ run'.plugins = run.plugins /\ run'.machine = run.machine /\ run'.status = "provisioning"
  <2>1. run' = [run EXCEPT !.status = "provisioning", !.attempt = run.attempt + 1]
    BY <1>i DEF Claim
  <2>. QED BY <1>i, <1>1, <2>1 DEF RunRow
<1>8. PrepareTypes'
  BY <1>i, <1>4, <1>6, <1>7 DEF PrepareTypes, Moves
<1>9. PinInv' /\ TemplateInv'
  BY <1>i, <1>2, <1>4, <1>7, PinStays, TemplatesStay DEF Moves, Pinned
<1>10. ASSUME NEW v \in Workers, v # w
       PROVE  attempt'[v] = attempt[v] /\ window'[v] = window[v]
  BY <1>4, <1>6, <1>10 DEF Moves
<1>11. \/ attempt'[w].phase = "session"
       \/ attempt'[w].phase = "catalog" /\ window'[w].must = Required /\ window'[w].may = Approved
  BY <1>2, <1>4, <1>6 DEF Moves
<1>12. WindowInv'
  BY <1>i, <1>10, <1>11 DEF WindowInv, Reading, Required, Approved
<1>13. PluginsAreAsSet'
  BY <1>i, <1>10, <1>11 DEF PluginsAreAsSet
<1>14. RecordInv'
  <2>0. run.machine = Nothing
    BY <1>i DEF RecordInv
  <2>1. ASSUME NEW v \in Workers, attempt'[v].phase # "idle", v # w
        PROVE  /\ attempt'[v].turn <= run'.turn
               /\ attempt'[v].turn = run'.turn => attempt'[v].attempt < run'.attempt
               /\ ~Current(v)'
    <3>1. attempt[v].turn \in Nat /\ attempt[v].attempt \in Nat
      BY <1>i, BoundsAre DEF AttemptRow
    <3>. QED BY <1>1, <1>i, <1>7, <1>10, <2>1, <3>1 DEF RecordInv, Current
  <2>2. ASSUME NEW v \in Workers, attempt'[v].phase = "mark" PROVE v # w
    BY <1>11, <2>2
  <2>3. attempt'[w].turn = run'.turn /\ attempt'[w].attempt = run'.attempt /\ attempt'[w].plugins = {}
    BY <1>2, <1>4, <1>7 DEF Moves
  <2>4. /\ \A v \in Workers : attempt'[v].phase # "idle" =>
             /\ attempt'[v].turn <= run'.turn
             /\ attempt'[v].turn = run'.turn => attempt'[v].attempt <= run'.attempt
        /\ \A u, v \in Workers : Current(u)' /\ Current(v)' => u = v
    <3>1. run'.turn \in Nat /\ run'.attempt \in Nat
      BY <1>7, <1>1
    <3>2. \A v \in Workers : Current(v)' => v = w
      BY <2>1 DEF Current
    <3>3. \A v \in Workers : attempt'[v].attempt \in Nat
      BY <1>8, BoundsAre DEF PrepareTypes, AttemptRow
    <3>. QED BY <2>1, <2>3, <3>1, <3>2, <3>3
  <2>5. scope.about = "image" => /\ run'.plugins = {} /\ attempt'[w].phase = "session"
    BY <1>i, <1>2, <1>4, <1>7 DEF RecordInv, Moves
  <2>6. attempt'[w].phase \in Recorded => scope.about = "image"
    BY <1>2, <1>4 DEF Moves, Recorded
  <2>7. \A v \in Workers : Current(v)' =>
         /\ run'.machine # Nothing => attempt'[v].phase = "mark"
         /\ attempt'[v].phase \in Recorded /\ ~run'.overtaken => run'.plugins = attempt'[v].plugins
    <3>2. \A v \in Workers : Current(v)' => v = w
      BY <2>1 DEF Current
    <3>. QED BY <3>2, <2>0, <1>7, <2>3, <2>5, <2>6
  <2>8. \A v \in Workers : attempt'[v].phase = "mark" /\ attempt'[v].turn = run'.turn => run'.machine # Nothing
    BY <1>i, <1>7, <1>10, <2>2 DEF RecordInv
  <2>9. scope'.about = "image" =>
       /\ run'.plugins = {}
       /\ \A v \in Workers : attempt'[v].phase \in {"idle"} \cup Recorded /\ attempt'[v].plugins = {}
    BY <1>i, <1>10, <2>3, <2>5 DEF RecordInv, Recorded
  <2>. QED BY <2>0, <1>7, <2>4, <2>7, <2>8, <2>9 DEF RecordInv
<1>. QED BY <1>8, <1>9, <1>12, <1>13, <1>14 DEF PrepareInv

\* Catalogue, settings and rows are read within the window: what is required
\* throughout is in all three.
LEMMA ReadsKeep ==
  ASSUME MarketplaceTypeOK, PrepareInv, NEW w \in Workers,
         LoadApprovedCatalog(w) \/ LoadSettings(w) \/ LoadUserStates(w)
  PROVE  PrepareInv'
<1>i. /\ PrepareTypes /\ PinInv /\ TemplateInv /\ WindowInv /\ PluginsAreAsSet /\ RecordInv
      /\ attempt \in [Workers -> AttemptRow] /\ attempt[w] \in AttemptRow
      /\ mode \in [Names -> Modes] /\ run \in RunRow
      /\ UNCHANGED <<scope, package, mode, session, environment, run, template, pending, test,
                     machines, window>>
  BY DEF PrepareInv, PrepareTypes, MarketplaceTypeOK, LoadApprovedCatalog, LoadSettings,
         LoadUserStates, marketplaceVars, imageVars
<1>1. ASSUME NEW a \in AttemptRow, attempt' = [attempt EXCEPT ![w] = a],
             a.turn = attempt[w].turn, a.attempt = attempt[w].attempt,
             attempt[w].phase \in {"catalog", "settings", "rows"},
             a.phase \in {"settings", "rows", "variables"},
             a.phase \in {"settings", "rows"} =>
               window[w].must \subseteq a.catalog /\ a.catalog \subseteq window[w].may,
             a.phase = "rows" => \A p \in window[w].must : a.modes[p[1]] = "required",
             a.phase = "variables" =>
               window[w].must \subseteq a.plugins /\ a.plugins \subseteq window[w].may
      PROVE  PrepareInv'
  <2>1. Moves(w, a)
    BY <1>i, <1>1, MovesTo
  <2>2. PrepareTypes'
    BY <1>i, <2>1 DEF PrepareTypes, Moves
  <2>3. PinInv' /\ TemplateInv'
    BY <1>i, <1>1, <2>1, PinStays, TemplatesStay DEF Moves, Pinned
  <2>4. RecordInv'
    <3>1. Restatus
      BY <1>i DEF Restatus
    <3>. QED BY <1>i, <1>1, <2>1, <3>1, RecordStays DEF Moves, Recorded
  <2>5. WindowInv'
    BY <1>i, <1>1, <2>1 DEF WindowInv, Moves, Reading, Required, Approved
  <2>6. PluginsAreAsSet'
    BY <1>i, <1>1, <2>1 DEF PluginsAreAsSet, Moves
  <2>. QED BY <2>2, <2>3, <2>4, <2>5, <2>6 DEF PrepareInv
<1>2. CASE LoadApprovedCatalog(w)
  <2>1. PICK torn \in SUBSET {p \in Approved : ~package[p].whole} :
          /\ attempt[w].phase = "catalog"
          /\ attempt' = [attempt EXCEPT ![w] =
               [At(w, "settings") EXCEPT !.catalog = {p \in Approved : package[p].whole} \cup torn]]
    BY <1>2 DEF LoadApprovedCatalog, Step
  <2>. DEFINE c == {p \in Approved : package[p].whole} \cup torn
              a == [At(w, "settings") EXCEPT !.catalog = c]
  <2>2. c \in SUBSET Packages /\ window[w].must \subseteq c /\ c \subseteq window[w].may
    BY <1>i, <2>1 DEF Approved, Required, WindowInv, Reading
  <2>. HIDE DEF c
  <2>3. /\ a \in AttemptRow /\ a.phase = "settings" /\ a.catalog = c
        /\ a.turn = attempt[w].turn /\ a.attempt = attempt[w].attempt
    BY <1>i, <2>2 DEF At, AttemptRow, Phases
  <2>4. attempt' = [attempt EXCEPT ![w] = a]
    BY <2>1 DEF c
  <2>. HIDE DEF a
  <2>. QED BY <1>1, <2>1, <2>2, <2>3, <2>4
<1>3. CASE LoadSettings(w)
  <2>. DEFINE a == [At(w, "rows") EXCEPT !.modes = mode]
  <2>1. attempt[w].phase = "settings" /\ attempt' = [attempt EXCEPT ![w] = a]
    BY <1>3 DEF LoadSettings, Step
  <2>2. /\ a \in AttemptRow /\ a.phase = "rows" /\ a.modes = mode /\ a.catalog = attempt[w].catalog
        /\ a.turn = attempt[w].turn /\ a.attempt = attempt[w].attempt
    BY <1>i DEF At, AttemptRow, Phases
  <2>. HIDE DEF a
  <2>3. /\ window[w].must \subseteq a.catalog /\ a.catalog \subseteq window[w].may
        /\ \A p \in window[w].must : a.modes[p[1]] = "required"
    BY <1>i, <2>1, <2>2 DEF WindowInv, Reading, Required
  <2>. QED BY <1>1, <2>1, <2>2, <2>3
<1>4. CASE LoadUserStates(w)
  <2>. DEFINE e == EffectivePlugins(attempt[w].catalog, attempt[w].modes, own)
              a == [At(w, "variables") EXCEPT !.catalog = {}, !.modes = NoAttempt.modes, !.plugins = e]
  <2>1. attempt[w].phase = "rows" /\ attempt' = [attempt EXCEPT ![w] = a]
    BY <1>4 DEF LoadUserStates, Step
  <2>2. e \subseteq attempt[w].catalog
    BY DEF EffectivePlugins
  <2>3. window[w].must \subseteq e
    BY <1>i, <2>1 DEF WindowInv, EffectivePlugins, IsAttached
  <2>4. e \in SUBSET Packages /\ e \subseteq window[w].may
    BY <1>i, <2>1, <2>2 DEF WindowInv, AttemptRow
  <2>. HIDE DEF e
  <2>5. /\ a \in AttemptRow /\ a.phase = "variables" /\ a.plugins = e
        /\ a.turn = attempt[w].turn /\ a.attempt = attempt[w].attempt
    BY <1>i, <2>4 DEF At, AttemptRow, Phases, NoAttempt
  <2>. HIDE DEF a
  <2>. QED BY <1>1, <2>1, <2>3, <2>4, <2>5
<1>. QED BY <1>2, <1>3, <1>4

\* Steps that change nothing but where the attempt stands keep the invariant.
LEMMA StepsKeep ==
  ASSUME PrepareInv, NEW w \in Workers, ResolveMcp(w) \/ TakesAsIs(w) \/ AwaitTemplate(w)
  PROVE  PrepareInv'
<1>i. /\ PrepareTypes /\ PinInv /\ TemplateInv /\ WindowInv /\ PluginsAreAsSet /\ RecordInv
      /\ attempt \in [Workers -> AttemptRow] /\ attempt[w] \in AttemptRow /\ run \in RunRow
      /\ UNCHANGED <<scope, package, mode, session, environment, template, pending, test, machines>>
  BY DEF PrepareInv, PrepareTypes, ResolveMcp, TakesAsIs, AwaitTemplate, marketplaceVars, imageVars
<1>1. ASSUME NEW from \in {"variables", "resolve", "building"}, NEW to \in {"record", "pin"},
             Step(w, from, At(w, to)), UNCHANGED <<run, window>>,
             from = "variables" <=> to = "record",
             from = "resolve" => attempt[w].image \in {Default, <<"own", 0>>},
             from = "building" => template[Template(attempt[w].image)] # "building"
      PROVE  PrepareInv'
  <2>1. /\ attempt'[w].phase = to /\ Alike(attempt'[w], attempt[w]) /\ attempt[w].phase = from
        /\ attempt' \in [Workers -> AttemptRow]
        /\ \A v \in Workers : v = w \/ attempt'[v] = attempt[v]
    <3>1. from \in Phases /\ to \in Phases
      BY DEF Phases
    <3>. QED BY <1>i, <1>1, <3>1, StepIs
  <2>2. PrepareTypes'
    BY <1>i, <1>1, <2>1 DEF PrepareTypes
  <2>3. PinInv'
    <3>1. to = "pin" => attempt[w].image # NoImage /\ attempt[w].provider # Nothing
      BY <1>i, <1>1, <2>1 DEF PinInv
    <3>. QED BY <1>i, <1>1, <2>1, <3>1, PinStays DEF Pinned, Alike
  <2>4. TemplateInv'
    BY <1>i, <1>1, <2>1, TemplatesStay DEF Alike
  <2>5. WindowInv' /\ PluginsAreAsSet'
    BY <1>i, <1>1, <2>1, WindowsStay
  <2>6. RecordInv'
    <3>1. Restatus
      BY <1>i, <1>1 DEF Restatus
    <3>. QED BY <1>i, <1>1, <2>1, <3>1, RecordStays DEF Alike, Recorded
  <2>. QED BY <2>2, <2>3, <2>4, <2>5, <2>6 DEF PrepareInv
<1>2. CASE ResolveMcp(w) /\ Step(w, "variables", At(w, "record")) /\ UNCHANGED <<run, window>>
  BY <1>1, <1>2
<1>3. CASE HandleFailure(w, FALSE)
  BY <1>i, <1>3, FailureKeeps
<1>4. CASE TakesAsIs(w)
  <2>1. Step(w, "resolve", At(w, "pin")) /\ UNCHANGED <<run, window>>
    BY <1>4 DEF TakesAsIs
  <2>2. attempt[w].image \in {Default, <<"own", 0>>}
    BY <1>i, <2>1 DEF Step, TemplateInv
  <2>. QED BY <1>1, <2>1, <2>2
<1>5. CASE AwaitTemplate(w)
  BY <1>1, <1>5 DEF AwaitTemplate, Template
<1>. QED BY <1>2, <1>3, <1>4, <1>5 DEF ResolveMcp

\* Plugins recorded under the claim are those of its attempt; recorded without it,
\* the run is overtaken.
LEMMA RecordKeeps ==
  ASSUME PrepareInv, NEW w \in Workers, SetRunPlugins(w)
  PROVE  PrepareInv'
<1>i. /\ PrepareTypes /\ PinInv /\ TemplateInv /\ WindowInv /\ PluginsAreAsSet /\ RecordInv
      /\ attempt \in [Workers -> AttemptRow] /\ attempt[w] \in AttemptRow /\ run \in RunRow
      /\ window \in [Workers -> WindowRow]
      /\ UNCHANGED <<scope, package, mode, session, environment, template, pending, test, machines>>
  BY DEF PrepareInv, PrepareTypes, SetRunPlugins, marketplaceVars, imageVars
<1>1. /\ attempt'[w].phase = "session" /\ Alike(attempt'[w], attempt[w]) /\ attempt[w].phase = "record"
      /\ attempt' \in [Workers -> AttemptRow]
      /\ \A v \in Workers : v = w \/ attempt'[v] = attempt[v]
  <2>1. Step(w, "record", At(w, "session")) /\ {"record", "session"} \subseteq Phases
    BY DEF SetRunPlugins, Phases
  <2>. QED BY <1>i, <2>1, StepIs
<1>2. window' \in [Workers -> WindowRow] /\ \A v \in Workers : v = w \/ window'[v] = window[v]
  BY <1>i, NoAttemptIs DEF SetRunPlugins
<1>. DEFINE late == run.attempt # attempt[w].attempt
<1>3. /\ run' \in RunRow /\ run'.turn = run.turn /\ run'.attempt = run.attempt
      /\ run'.machine = run.machine /\ run'.status = run.status /\ run'.given = run.given
      /\ run.turn = attempt[w].turn => run'.plugins = attempt[w].plugins /\ (run'.overtaken <=> late)
      /\ run.turn # attempt[w].turn => run'.plugins = run.plugins /\ (run'.overtaken <=> run.overtaken)
  <2>1. late \in BOOLEAN /\ attempt[w].plugins \in SUBSET Packages
    BY <1>i DEF AttemptRow
  <2>2. CASE run.turn = attempt[w].turn
    <3>1. run' = [run EXCEPT !.plugins = attempt[w].plugins, !.overtaken = late]
      BY <2>2 DEF SetRunPlugins
    <3>. HIDE DEF late
    <3>. QED BY <1>i, <2>1, <2>2, <3>1 DEF RunRow
  <2>3. CASE run.turn # attempt[w].turn
    BY <1>i, <2>3 DEF SetRunPlugins
  <2>. QED BY <2>2, <2>3
<1>4. PrepareTypes'
  BY <1>i, <1>1, <1>2, <1>3 DEF PrepareTypes
<1>5. PinInv' /\ TemplateInv'
  BY <1>i, <1>1, <1>3, PinStays, TemplatesStay DEF Pinned
<1>6. WindowInv' /\ PluginsAreAsSet'
  BY <1>i, <1>1, <1>2, WindowsStay
<1>7. RecordInv'
  <2>0. \A v \in Workers : /\ attempt'[v].turn = attempt[v].turn /\ attempt'[v].attempt = attempt[v].attempt
                           /\ attempt'[v].plugins = attempt[v].plugins
                           /\ attempt'[v].phase = "idle" <=> attempt[v].phase = "idle"
                           /\ attempt'[v].phase = "mark" <=> attempt[v].phase = "mark"
                           /\ v # w => attempt'[v].phase = attempt[v].phase
                           /\ Current(v)' <=> Current(v)
    BY <1>1, <1>3 DEF Alike, Current
  <2>1. scope.about # "image"
    BY <1>i, <1>1 DEF RecordInv, Recorded
  <2>2. ASSUME NEW v \in Workers, Current(v)
        PROVE  /\ run'.machine # Nothing => attempt'[v].phase = "mark"
               /\ attempt'[v].phase \in Recorded /\ ~run'.overtaken => run'.plugins = attempt'[v].plugins
    <3>1. CASE v = w
      <4>1. run.turn = attempt[w].turn /\ run.attempt = attempt[w].attempt
        BY <2>2, <3>1 DEF Current
      <4>2. run.machine = Nothing
        BY <1>i, <1>1, <2>2, <3>1 DEF RecordInv
      <4>. QED BY <1>3, <2>0, <3>1, <4>1, <4>2
    <3>2. CASE v # w
      <4>1. ~Current(w)
        BY <1>i, <2>2, <3>2 DEF RecordInv
      <4>2. run.turn = attempt[w].turn => run'.overtaken
        BY <1>1, <1>3, <4>1 DEF Current
      <4>. QED BY <1>i, <1>3, <2>0, <2>2, <3>2, <4>2 DEF RecordInv
    <3>. QED BY <3>1, <3>2
  <2>3. run'.machine # Nothing /\ ~run'.overtaken => run'.plugins = run'.given
    <3>1. CASE run.turn # attempt[w].turn
      BY <1>i, <1>3, <3>1 DEF RecordInv
    <3>2. CASE run.turn = attempt[w].turn /\ run.attempt = attempt[w].attempt
      BY <1>i, <1>1, <1>3, <3>2 DEF RecordInv, Current
    <3>3. CASE run.turn = attempt[w].turn /\ run.attempt # attempt[w].attempt
      BY <1>3, <3>3
    <3>. QED BY <3>1, <3>2, <3>3
  <2>. QED BY <1>i, <1>3, <2>0, <2>1, <2>2, <2>3 DEF RecordInv
<1>. QED BY <1>4, <1>5, <1>6, <1>7 DEF PrepareInv

\* An attempt that finds a pinned pair goes on with it, and with no other.
LEMMA SessionIsRead ==
  ASSUME PrepareInv, NEW w \in Workers, ReadSession(w)
  PROVE  PrepareInv'
<1>i. /\ PrepareTypes /\ PinInv /\ TemplateInv /\ WindowInv /\ PluginsAreAsSet /\ RecordInv
      /\ attempt \in [Workers -> AttemptRow] /\ attempt[w] \in AttemptRow /\ run \in RunRow
      /\ session \in SessionRow /\ environment \in {"default", "own"}
      /\ UNCHANGED <<scope, package, mode, session, environment, run, template, pending, test,
                     machines, window>>
  BY DEF PrepareInv, PrepareTypes, ReadSession, marketplaceVars, imageVars
<1>. DEFINE ph == IF session.image = NoImage THEN "resolve" ELSE "start"
            resume == session.workspace # Nothing /\ run.source = "user"
            provider == IF session.workspace # Nothing THEN session.workspace
                        ELSE IF session.provider # Nothing THEN session.provider
                        ELSE Configured[w]
            image == IF session.image # NoImage THEN session.image ELSE <<environment, 0>>
            a == [At(w, ph) EXCEPT !.resume = resume, !.provider = provider, !.image = image]
<1>1. attempt[w].phase = "session" /\ attempt' = [attempt EXCEPT ![w] = a]
  BY DEF ReadSession, Step
<1>2. /\ provider \in Providers /\ image \in Images /\ resume \in BOOLEAN /\ ph \in {"resolve", "start"}
      /\ ph = "start" => session.image # NoImage /\ image = session.image /\ provider = session.provider
      /\ ph = "resolve" => image \in {Default, <<"own", 0>>}
  <2>1. session.image = NoImage <=> session.provider = Nothing
    BY <1>i DEF PinInv
  <2>2. session.workspace \in {Nothing, session.provider} /\ session.provider \in Providers \cup {Nothing}
    BY <1>i DEF PinInv, SessionRow
  <2>3. <<environment, 0>> \in {Default, <<"own", 0>>} /\ {Default, <<"own", 0>>} \subseteq Images
    BY <1>i DEF Default, Images
  <2>4. session.image \in Images \cup {NoImage}
    BY <1>i DEF SessionRow
  <2>. QED BY <2>1, <2>2, <2>3, <2>4, BoundsAre
<1>. HIDE DEF ph, resume, provider, image
<1>3. /\ a \in AttemptRow /\ a.phase = ph /\ a.image = image /\ a.provider = provider
      /\ a.turn = attempt[w].turn /\ a.attempt = attempt[w].attempt /\ a.plugins = attempt[w].plugins
  BY <1>i, <1>2 DEF At, AttemptRow, Phases
<1>. HIDE DEF a
<1>4. Moves(w, a)
  BY <1>i, <1>1, <1>3, MovesTo
<1>5. PrepareTypes'
  BY <1>i, <1>4 DEF PrepareTypes, Moves
<1>6. PinInv'
  <2>1. a.image # NoImage /\ a.provider # Nothing
    BY <1>2, <1>3, BoundsAre
  <2>. QED BY <1>i, <1>2, <1>3, <1>4, <2>1, PinStays DEF Moves, Pinned
<1>7. TemplateInv'
  BY <1>i, <1>2, <1>3, <1>4, TemplatesStay DEF Moves
<1>8. WindowInv' /\ PluginsAreAsSet'
  BY <1>i, <1>2, <1>3, <1>4, WindowsStay DEF Moves
<1>9. RecordInv'
  <2>1. Restatus
    BY <1>i DEF Restatus
  <2>. QED BY <1>i, <1>1, <1>2, <1>3, <1>4, <2>1, RecordStays DEF Moves, Recorded
<1>. QED BY <1>5, <1>6, <1>7, <1>8, <1>9 DEF PrepareInv

\* A template an attempt waits for is never the one under test: a new one has no
\* other name, and a pending one is not for tests.
LEMMA ResolveKeeps ==
  ASSUME PrepareInv, NEW w \in Workers, ResolveTemplate(w)
  PROVE  PrepareInv'
<1>i. /\ PrepareTypes /\ PinInv /\ TemplateInv /\ WindowInv /\ PluginsAreAsSet /\ RecordInv
      /\ attempt \in [Workers -> AttemptRow] /\ attempt[w] \in AttemptRow /\ run \in RunRow
      /\ template \in [Builds -> {"none", "building", "ready", "deleted"}]
      /\ pending \in [Workers -> {0} \cup Builds] /\ test \in {0} \cup Builds /\ 0 \notin Builds
      /\ UNCHANGED <<scope, package, mode, session, environment, test, run, machines, window>>
  BY BoundsAre DEF PrepareInv, PrepareTypes, ResolveTemplate, marketplaceVars
<1>1. PICK b \in Builds :
       /\ IF pending[w] # 0
          THEN b = pending[w] /\ UNCHANGED <<template, pending>>
          ELSE /\ NewTemplate(b)
               /\ template' = [template EXCEPT ![b] = "building"]
               /\ pending' = [pending EXCEPT ![w] = b]
       /\ Step(w, "resolve", [At(w, "building") EXCEPT !.image = <<"own", b>>])
  BY DEF ResolveTemplate
<1>. DEFINE i == <<"own", b>>
            a == [At(w, "building") EXCEPT !.image = i]
<1>2. attempt[w].phase = "resolve" /\ attempt' = [attempt EXCEPT ![w] = a]
  BY <1>1 DEF Step
<1>3. i \in Images /\ i # NoImage /\ Built(i) /\ Template(i) = b
  BY DEF Images, Built, Template, NoImage
<1>. HIDE DEF i
<1>4. /\ a \in AttemptRow /\ a.phase = "building" /\ a.image = i /\ a.provider = attempt[w].provider
      /\ a.turn = attempt[w].turn /\ a.attempt = attempt[w].attempt /\ a.plugins = attempt[w].plugins
  BY <1>i, <1>3 DEF At, AttemptRow, Phases
<1>. HIDE DEF a
<1>5. Moves(w, a)
  BY <1>i, <1>2, <1>4, MovesTo
<1>6. /\ template' \in [Builds -> {"none", "building", "ready", "deleted"}]
      /\ pending' \in [Workers -> {0} \cup Builds]
      /\ template'[b] = "building" /\ test # b
      /\ \A c \in Builds : template'[c] = template[c] \/ (c = b /\ template[b] = "none")
      /\ \A v \in Workers : pending'[v] = pending[v] \/ pending'[v] = b
  <2>1. CASE pending[w] # 0
    BY <1>i, <1>1, <2>1 DEF TemplateInv
  <2>2. CASE pending[w] = 0
    <3>1. template[b] = "none" /\ template' = [template EXCEPT ![b] = "building"]
          /\ pending' = [pending EXCEPT ![w] = b]
      BY <1>1, <2>2 DEF NewTemplate
    <3>2. test # b
      BY <1>i, <3>1 DEF TemplateInv
    <3>. QED BY <1>i, <3>1, <3>2
  <2>. QED BY <2>1, <2>2
<1>7. PrepareTypes'
  BY <1>i, <1>5, <1>6 DEF PrepareTypes, Moves
<1>8. PinInv'
  <2>1. attempt[w].provider # Nothing
    BY <1>i, <1>2 DEF PinInv
  <2>. QED BY <1>i, <1>3, <1>4, <1>5, <2>1, PinStays DEF Moves
<1>9. TemplateInv'
  <2>0. \A j : Built(j) => Template(j) \in Builds
    BY DEF Built, Template
  <2>1. \A c \in Builds : /\ template[c] = "ready" => template'[c] = "ready"
                          /\ template[c] = "building" => template'[c] = "building"
    BY <1>6
  <2>2. /\ test' # 0 => template'[test'] \in {"building", "ready"}
        /\ Built(session'.image) =>
             template'[Template(session'.image)] = "ready" /\ test' # Template(session'.image)
    BY <1>i, <2>0, <2>1 DEF TemplateInv
  <2>3. ASSUME NEW v \in Workers
        PROVE  /\ attempt'[v].phase = "resolve" => attempt'[v].image \in {Default, <<"own", 0>>}
               /\ attempt'[v].phase = "building" => Built(attempt'[v].image)
               /\ attempt'[v].phase \in {"building", "pin"} /\ Built(attempt'[v].image) =>
                    /\ template'[Template(attempt'[v].image)] \in {"building", "ready"}
                    /\ test' # Template(attempt'[v].image)
                    /\ attempt'[v].phase = "pin" => template'[Template(attempt'[v].image)] = "ready"
    <3>1. CASE v = w
      BY <1>3, <1>4, <1>5, <1>6, <1>i, <3>1 DEF Moves
    <3>2. CASE v # w
      BY <1>i, <1>5, <2>0, <2>1, <3>2 DEF Moves, TemplateInv
    <3>. QED BY <3>1, <3>2
  <2>4. ASSUME NEW v \in Workers, pending'[v] # 0
        PROVE  template'[pending'[v]] = "building" /\ test' # pending'[v]
    BY <1>i, <1>6, <2>1, <2>4 DEF TemplateInv
  <2>. QED BY <2>2, <2>3, <2>4 DEF TemplateInv, Built, Template
<1>10. WindowInv' /\ PluginsAreAsSet'
  BY <1>i, <1>4, <1>5, WindowsStay DEF Moves
<1>11. RecordInv'
  <2>1. Restatus
    BY <1>i DEF Restatus
  <2>. QED BY <1>i, <1>2, <1>4, <1>5, <2>1, RecordStays DEF Moves, Recorded
<1>. QED BY <1>7, <1>8, <1>9, <1>10, <1>11 DEF PrepareInv

\* The first to pin decides for everybody.
LEMMA PinKeeps ==
  ASSUME PrepareInv, NEW w \in Workers, Pin(w)
  PROVE  PrepareInv'
<1>i. /\ PrepareTypes /\ PinInv /\ TemplateInv /\ WindowInv /\ PluginsAreAsSet /\ RecordInv
      /\ attempt \in [Workers -> AttemptRow] /\ attempt[w] \in AttemptRow /\ run \in RunRow
      /\ session \in SessionRow /\ attempt[w].phase = "pin"
      /\ UNCHANGED <<scope, package, mode, environment, template, pending, test, machines>>
  BY DEF PrepareInv, PrepareTypes, Pin, marketplaceVars, imageVars
<1>1. CASE HandleFailure(w, TRUE) /\ UNCHANGED session
  BY <1>i, <1>1, FailureKeeps
<1>2. CASE /\ session' = [session EXCEPT
               !.image = IF @ = NoImage THEN attempt[w].image ELSE @,
               !.provider = IF @ = Nothing THEN attempt[w].provider ELSE @]
           /\ Step(w, "pin", [At(w, "start") EXCEPT
               !.image = session'.image, !.provider = session'.provider])
           /\ UNCHANGED <<run, window>>
  <2>. DEFINE i == IF session.image = NoImage THEN attempt[w].image ELSE session.image
              p == IF session.provider = Nothing THEN attempt[w].provider ELSE session.provider
              a == [At(w, "start") EXCEPT !.image = session'.image, !.provider = session'.provider]
  <2>1. /\ i \in Images /\ p \in Providers
        /\ session.image # NoImage => i = session.image /\ p = session.provider
        /\ session.image = NoImage => i = attempt[w].image /\ p = attempt[w].provider
    BY <1>i DEF SessionRow, AttemptRow, PinInv
  <2>2. session' = [session EXCEPT !.image = i, !.provider = p]
    BY <1>i, <1>2 DEF SessionRow
  <2>. HIDE DEF i, p
  <2>3. /\ session' \in SessionRow /\ session'.image = i /\ session'.provider = p
        /\ session'.workspace = session.workspace
    BY <1>i, <2>1, <2>2 DEF SessionRow
  <2>4. attempt' = [attempt EXCEPT ![w] = a]
    BY <1>2 DEF Step
  <2>5. /\ a \in AttemptRow /\ a.phase = "start" /\ a.image = i /\ a.provider = p
        /\ a.turn = attempt[w].turn /\ a.attempt = attempt[w].attempt /\ a.plugins = attempt[w].plugins
    BY <1>i, <2>1, <2>3 DEF At, AttemptRow, Phases
  <2>. HIDE DEF a
  <2>6. Moves(w, a)
    BY <1>i, <2>4, <2>5, MovesTo
  <2>7. PrepareTypes'
    BY <1>i, <1>2, <2>3, <2>6 DEF PrepareTypes, Moves
  <2>8. PinInv'
    <3>1. ASSUME NEW v \in Workers, v # w
          PROVE  /\ attempt'[v].phase \in Pinned =>
                      /\ session'.image # NoImage
                      /\ attempt'[v].image = session'.image /\ attempt'[v].provider = session'.provider
                 /\ attempt'[v].phase \in {"resolve", "building", "pin"} =>
                      attempt'[v].image # NoImage /\ attempt'[v].provider # Nothing
      BY <1>i, <2>1, <2>3, <2>6, <3>1 DEF Moves, PinInv
    <3>2. attempt'[w].phase = "start" /\ attempt'[w].image = i /\ attempt'[w].provider = p
      BY <2>5, <2>6 DEF Moves
    <3>3. i # NoImage /\ p # Nothing
      BY <2>1, BoundsAre
    <3>4. /\ session'.workspace \in {Nothing, session'.provider}
          /\ run'.machine \in {Nothing, session'.provider}
          /\ \A m \in machines' : m.image = session'.image /\ m.provider = session'.provider
      <4>1. CASE session.image # NoImage
        BY <1>i, <1>2, <2>1, <2>3, <4>1 DEF PinInv
      <4>2. CASE session.image = NoImage
        <5>1. session.provider = Nothing
          BY <1>i, <4>2 DEF PinInv
        <5>2. \A m \in machines : m.image # NoImage
          BY <1>i, BoundsAre DEF PrepareTypes
        <5>. QED BY <1>i, <1>2, <2>3, <4>2, <5>1, <5>2 DEF PinInv
      <4>. QED BY <4>1, <4>2
    <3>. QED BY <2>3, <3>1, <3>2, <3>3, <3>4 DEF PinInv, Pinned
  <2>9. TemplateInv'
    <3>1. Built(i) => template[Template(i)] = "ready" /\ test # Template(i)
      BY <1>i, <2>1 DEF TemplateInv
    <3>2. ASSUME NEW v \in Workers
          PROVE  /\ attempt'[v].phase \in {"resolve", "building", "pin"} => attempt'[v] = attempt[v]
                 /\ attempt'[v].phase \in {"resolve", "building", "pin"} => attempt'[v].phase = attempt[v].phase
      BY <2>5, <2>6 DEF Moves
    <3>. QED BY <1>i, <2>3, <3>1, <3>2 DEF TemplateInv
  <2>10. WindowInv' /\ PluginsAreAsSet'
    BY <1>i, <1>2, <2>5, <2>6, WindowsStay DEF Moves
  <2>11. RecordInv'
    <3>1. Restatus
      BY <1>i, <1>2 DEF Restatus
    <3>. QED BY <1>i, <1>2, <2>5, <2>6, <3>1, RecordStays DEF Moves, Recorded
  <2>. QED BY <2>7, <2>8, <2>9, <2>10, <2>11 DEF PrepareInv
<1>. QED BY <1>1, <1>2 DEF Pin

\* A machine that is started has the pinned pair.
LEMMA StartKeeps ==
  ASSUME PrepareInv, NEW w \in Workers, StartSandbox(w)
  PROVE  PrepareInv'
<1>i. /\ PrepareTypes /\ PinInv /\ TemplateInv /\ WindowInv /\ PluginsAreAsSet /\ RecordInv
      /\ attempt \in [Workers -> AttemptRow] /\ attempt[w] \in AttemptRow /\ run \in RunRow
      /\ session \in SessionRow /\ machines \subseteq [provider : Providers, image : Images]
      /\ UNCHANGED <<scope, package, mode, environment, run, template, pending, test, window>>
  BY DEF PrepareInv, PrepareTypes, StartSandbox, marketplaceVars, imageVars
<1>1. /\ attempt'[w].phase = "attach" /\ Alike(attempt'[w], attempt[w]) /\ attempt[w].phase = "start"
      /\ attempt' \in [Workers -> AttemptRow]
      /\ \A v \in Workers : v = w \/ attempt'[v] = attempt[v]
  <2>1. Step(w, "start", At(w, "attach")) /\ {"start", "attach"} \subseteq Phases
    BY DEF StartSandbox, Phases
  <2>. QED BY <1>i, <2>1, StepIs
<1>2. /\ session' \in SessionRow /\ session'.image = session.image /\ session'.provider = session.provider
      /\ session'.workspace \in {session.workspace, Nothing}
  <2>1. CASE session' = session
    BY <1>i, <2>1
  <2>2. CASE session' = [session EXCEPT !.workspace = Nothing]
    BY <1>i, <2>2 DEF SessionRow
  <2>. QED BY <2>1, <2>2 DEF StartSandbox
<1>3. /\ session.image # NoImage /\ attempt[w].image = session.image
      /\ attempt[w].provider = session.provider /\ session.provider # Nothing
  BY <1>i, <1>1 DEF PinInv, Pinned
<1>. DEFINE m == [provider |-> attempt[w].provider, image |-> attempt[w].image]
<1>4. machines' = machines \cup {m} /\ m.image = session.image /\ m.provider = session.provider
  BY <1>3 DEF StartSandbox
<1>5. m \in [provider : Providers, image : Images]
  BY <1>i, <1>3 DEF SessionRow
<1>. HIDE DEF m
<1>6. PrepareTypes'
  BY <1>i, <1>1, <1>2, <1>4, <1>5 DEF PrepareTypes
<1>7. PinInv'
  <2>1. ASSUME NEW v \in Workers
        PROVE  /\ attempt'[v].phase \in Pinned =>
                    /\ session'.image # NoImage
                    /\ attempt'[v].image = session'.image /\ attempt'[v].provider = session'.provider
               /\ attempt'[v].phase \in {"resolve", "building", "pin"} =>
                    attempt'[v].image # NoImage /\ attempt'[v].provider # Nothing
    BY <1>i, <1>1, <1>2, <1>3 DEF PinInv, Alike
  <2>. QED BY <1>i, <1>2, <1>4, <2>1 DEF PinInv
<1>8. TemplateInv'
  BY <1>i, <1>1, <1>2, TemplatesStay
<1>9. WindowInv' /\ PluginsAreAsSet'
  BY <1>i, <1>1, WindowsStay
<1>10. RecordInv'
  <2>1. Restatus
    BY <1>i DEF Restatus
  <2>. QED BY <1>i, <1>1, <2>1, RecordStays DEF Alike, Recorded
<1>. QED BY <1>6, <1>7, <1>8, <1>9, <1>10 DEF PrepareInv

\* Who attaches has the claim, so that the plugins recorded are his.
LEMMA AttachKeeps ==
  ASSUME PrepareInv, NEW w \in Workers, Attach(w)
  PROVE  PrepareInv'
<1>i. /\ PrepareTypes /\ PinInv /\ TemplateInv /\ WindowInv /\ PluginsAreAsSet /\ RecordInv
      /\ attempt \in [Workers -> AttemptRow] /\ attempt[w] \in AttemptRow /\ run \in RunRow
      /\ attempt[w].phase = "attach"
      /\ UNCHANGED <<scope, package, mode, session, environment, template, pending, test, machines>>
  BY DEF PrepareInv, PrepareTypes, Attach, marketplaceVars, imageVars
<1>1. ASSUME NEW retryable \in BOOLEAN, HandleFailure(w, retryable)
      PROVE  PrepareInv'
  BY <1>i, <1>1, FailureKeeps
<1>2. CASE /\ Holds(w) /\ run.machine = Nothing
           /\ run' = [run EXCEPT !.machine = attempt[w].provider, !.given = attempt[w].plugins]
           /\ Step(w, "attach", At(w, "mark"))
           /\ UNCHANGED window
  <2>1. /\ attempt'[w].phase = "mark" /\ Alike(attempt'[w], attempt[w])
        /\ attempt' \in [Workers -> AttemptRow]
        /\ \A v \in Workers : v = w \/ attempt'[v] = attempt[v]
    <3>1. {"attach", "mark"} \subseteq Phases
      BY DEF Phases
    <3>. QED BY <1>i, <1>2, <3>1, StepIs
  <2>2. attempt[w].provider = session.provider /\ attempt[w].provider # Nothing
    BY <1>i DEF PinInv, Pinned
  <2>3. Current(w)
    BY <1>i, <1>2 DEF Current, Holds
  <2>4. /\ run' \in RunRow /\ run'.turn = run.turn /\ run'.attempt = run.attempt
        /\ run'.machine = attempt[w].provider /\ run'.given = attempt[w].plugins
        /\ run'.plugins = run.plugins /\ run'.status = run.status /\ run.status = "provisioning"
        /\ run'.overtaken = run.overtaken
    BY <1>i, <1>2 DEF RunRow, AttemptRow, Holds
  <2>5. PrepareTypes'
    BY <1>i, <1>2, <2>1, <2>4 DEF PrepareTypes
  <2>6. PinInv'
    <3>1. ASSUME NEW v \in Workers
          PROVE  /\ attempt'[v].phase \in Pinned =>
                      /\ session.image # NoImage
                      /\ attempt'[v].image = session.image /\ attempt'[v].provider = session.provider
                 /\ attempt'[v].phase \in {"resolve", "building", "pin"} =>
                      attempt'[v].image # NoImage /\ attempt'[v].provider # Nothing
      BY <1>i, <2>1 DEF PinInv, Alike, Pinned
    <3>. QED BY <1>i, <2>2, <2>4, <3>1 DEF PinInv
  <2>7. TemplateInv'
    BY <1>i, <2>1, TemplatesStay
  <2>8. WindowInv' /\ PluginsAreAsSet'
    BY <1>i, <1>2, <2>1, WindowsStay
  <2>9. RecordInv'
    <3>0. \A v \in Workers : /\ attempt'[v].turn = attempt[v].turn /\ attempt'[v].attempt = attempt[v].attempt
                             /\ attempt'[v].plugins = attempt[v].plugins
                             /\ attempt'[v].phase = "idle" <=> attempt[v].phase = "idle"
                             /\ attempt'[v].phase \in Recorded <=> attempt[v].phase \in Recorded
                             /\ v # w => attempt'[v].phase = attempt[v].phase
                             /\ Current(v)' <=> Current(v)
      BY <1>i, <2>1, <2>4 DEF Alike, Current, Recorded
    <3>1. \A v \in Workers : Current(v) => v = w
      BY <1>i, <2>3 DEF RecordInv
    <3>2. ~run.overtaken => run.plugins = attempt[w].plugins
      BY <1>i, <2>3 DEF RecordInv, Recorded
    <3>3. \A v \in Workers : Current(v)' =>
           /\ run'.machine # Nothing => attempt'[v].phase = "mark"
           /\ attempt'[v].phase \in Recorded /\ ~run'.overtaken => run'.plugins = attempt'[v].plugins
      BY <2>1, <2>4, <3>0, <3>1, <3>2
    <3>4. /\ \A v \in Workers : attempt'[v].phase # "idle" =>
               /\ attempt'[v].turn <= run'.turn
               /\ attempt'[v].turn = run'.turn => attempt'[v].attempt <= run'.attempt
          /\ \A u, v \in Workers : Current(u)' /\ Current(v)' => u = v
      BY <1>i, <2>4, <3>0, <3>1 DEF RecordInv
    <3>5. run'.machine # Nothing /\ run'.status \notin {"queued"}
      BY <2>2, <2>4
    <3>6. run'.machine # Nothing /\ ~run'.overtaken => run'.plugins = run'.given
      BY <2>4, <3>2
    <3>7. scope'.about = "image" =>
           /\ run'.plugins = {}
           /\ \A v \in Workers : attempt'[v].phase \in {"idle"} \cup Recorded /\ attempt'[v].plugins = {}
      BY <1>i, <2>4, <3>0 DEF RecordInv
    <3>. QED BY <3>3, <3>4, <3>5, <3>6, <3>7 DEF RecordInv
  <2>. QED BY <2>5, <2>6, <2>7, <2>8, <2>9 DEF PrepareInv
<1>. QED BY <1>1, <1>2 DEF Attach

\* The invariant holds in the beginning.
LEMMA PrepareStarts ==
  ASSUME Init
  PROVE  MarketplaceTypeOK /\ PrepareInv
<1>1. MarketplaceTypeOK
  <2>1. PICK v \in Versions : package = [p \in Packages |->
          IF p[2] = v THEN [status |-> "approved", whole |-> TRUE]
                      ELSE [status |-> "absent", whole |-> FALSE]]
    BY DEF Init, MarketplaceInit
  <2>2. package \in [Packages -> PackageRow]
    BY <2>1 DEF PackageRow
  <2>3. NoRow \in OwnRow /\ "default_off" \in Modes /\ 0 \in 0 .. MaxChanges
    BY BoundsAre DEF NoRow, OwnRow, Modes
  <2>. QED BY <2>2, <2>3 DEF Init, MarketplaceInit, MarketplaceTypeOK
<1>2. session \in SessionRow /\ session.workspace = Nothing
      /\ session.image \in {Default, NoImage} /\ (session.image = NoImage <=> session.provider = Nothing)
  BY DEF Init, SessionRow, Images, Providers, Default, NoImage, Nothing
<1>3. /\ run \in RunRow /\ run.machine = Nothing /\ run.plugins = {} /\ run.status = "queued"
      /\ run.overtaken = FALSE /\ run.turn = 1
  BY BoundsAre DEF Init, Queued, RunRow
<1>4. /\ attempt \in [Workers -> AttemptRow] /\ window \in [Workers -> WindowRow]
      /\ \A w \in Workers : attempt[w].phase = "idle" /\ attempt[w].plugins = {}
  BY NoAttemptIs DEF Init
<1>5. scope \in [about : {"plugins", "image"}, workers : SUBSET Workers, changes : 0 .. MaxChanges]
  BY ScopeAssumption DEF Init
<1>6. /\ template \in [Builds -> {"none", "building", "ready", "deleted"}]
      /\ pending \in [Workers -> {0} \cup Builds] /\ test = 0 /\ machines = {}
      /\ environment \in {"default", "own"} /\ \A w \in Workers : pending[w] = 0
  BY DEF Init
<1>7. PrepareTypes
  BY <1>2, <1>3, <1>4, <1>5, <1>6 DEF PrepareTypes
<1>8. PinInv
  BY <1>2, <1>3, <1>4, <1>6 DEF PinInv, Pinned
<1>9. TemplateInv
  <2>1. ~Built(session.image)
    BY <1>2, BoundsAre DEF Built, Default, NoImage
  <2>. QED BY <1>4, <1>6, <2>1 DEF TemplateInv
<1>10. WindowInv /\ PluginsAreAsSet
  BY <1>4 DEF WindowInv, PluginsAreAsSet, Reading
<1>11. RecordInv
  BY <1>3, <1>4 DEF RecordInv, Current
<1>. QED BY <1>1, <1>7, <1>8, <1>9, <1>10, <1>11 DEF PrepareInv

\* The invariant of the machine.
MachineInv == MarketplaceTypeOK /\ PrepareInv

\* Every step of the machine keeps it.
LEMMA MachineKeeps ==
  ASSUME MachineInv, Next
  PROVE  MachineInv'
<1>i. MarketplaceTypeOK /\ PrepareInv
  BY DEF MachineInv
<1>1. ASSUME NEW w \in Workers, Prepare(w) PROVE PrepareInv'
  BY <1>i, <1>1, ClaimKeeps, ReadsKeep, StepsKeep, RecordKeeps, SessionIsRead, ResolveKeeps,
     PinKeeps, StartKeeps, AttachKeeps, StopKeeps DEF Prepare
<1>2. PrepareInv'
  BY <1>i, <1>1, CatalogueKeeps, SessionAroundKeeps, NextTurnKeeps, TemplatesKeep DEF Next
<1>3. ASSUME UNCHANGED marketplaceVars, changes' \in 0 .. MaxChanges PROVE MarketplaceTypeOK'
  BY <1>i, <1>3 DEF MarketplaceTypeOK, marketplaceVars
<1>c. changes \in 0 .. MaxChanges
  BY <1>i DEF MarketplaceTypeOK
<1>4. Catalogue => MarketplaceTypeOK'
  BY <1>i, MarketplaceTypes DEF Catalogue
<1>5. SaveImage \/ BeginTest => MarketplaceTypeOK'
  <2>1. ImageChange => changes' \in 0 .. MaxChanges
    BY <1>c, BoundsAre DEF ImageChange, Change
  <2>. QED BY <1>3, <2>1 DEF SaveImage, BeginTest
<1>6. ASSUME NEW w \in Workers, Prepare(w) PROVE MarketplaceTypeOK'
  <2>1. UNCHANGED <<marketplaceVars, changes>>
    BY <1>6 DEF Prepare, Claim, LoadApprovedCatalog, LoadSettings, LoadUserStates, ResolveMcp,
                SetRunPlugins, ReadSession, TakesAsIs, ResolveTemplate, AwaitTemplate, Pin,
                StartSandbox, Attach, MarkRunning, Fail, Stop
  <2>. QED BY <1>3, <1>c, <2>1
<1>7. EndTest \/ (\E b \in Builds : EndBuild(b)) \/ Requeue \/ EndTurn \/ ParkUnstarted
        \/ BeginParking \/ EndParking \/ Expire \/ NextTurn => MarketplaceTypeOK'
  BY <1>3, <1>c DEF EndTest, EndBuild, Requeue, EndTurn, ParkUnstarted, BeginParking, EndParking,
                    Expire, NextTurn
<1>. QED BY <1>2, <1>4, <1>5, <1>6, <1>7 DEF MachineInv, Next

\* It is about nothing else.
LEMMA MachineFrame ==
  ASSUME MachineInv, UNCHANGED vars
  PROVE  MachineInv'
<1>1. UNCHANGED <<scope, package, mode, own, variable, publisher, asked, changes, session,
                  environment, run, attempt, template, pending, test, machines, window>>
  BY DEF vars, marketplaceVars
<1>2. MarketplaceTypeOK'
  BY <1>1 DEF MachineInv, MarketplaceTypeOK
<1>3. PrepareTypes' /\ PinInv' /\ TemplateInv' /\ RecordInv'
  BY <1>1 DEF MachineInv, PrepareInv, PrepareTypes, PinInv, TemplateInv, RecordInv, Current
<1>4. WindowInv' /\ PluginsAreAsSet'
  BY <1>1 DEF MachineInv, PrepareInv, WindowInv, PluginsAreAsSet, Reading, Required, Approved
<1>. QED BY <1>2, <1>3, <1>4 DEF MachineInv, PrepareInv

\* The invariant of the machine holds: attempts that overtake each other agree on
\* the pair that is pinned and on the claim that attaches.
THEOREM MachineHolds == StartSpec => []MachineInv
<1>1. StartInit => MachineInv
  BY PrepareStarts DEF StartInit, MachineInv
<1>2. MachineInv /\ [StartNext]_<<concern, vars, conversationVars>> => MachineInv'
  BY MachineKeeps, MachineFrame DEF StartNext, Machine, Talk
<1>. QED BY <1>1, <1>2, PTL DEF StartSpec

\* The types of the machine follow.
LEMMA MachineTypes ==
  ASSUME MachineInv
  PROVE  TypeOK
<1>1. MarketplaceTypeOK /\ PrepareTypes
  BY DEF MachineInv, PrepareInv
<1>2. \A w \in Workers :
     /\ attempt[w].phase \in Phases
     /\ attempt[w].plugins \subseteq Packages
     /\ attempt[w].image \in Images \cup {NoImage}
     /\ attempt[w].provider \in Providers \cup {Nothing}
     /\ window[w].must \cup window[w].may \subseteq Packages
  BY <1>1 DEF PrepareTypes, AttemptRow, WindowRow
<1>. QED BY <1>1, <1>2 DEF PrepareTypes, SessionRow, RunRow, TypeOK

\* Every machine of a session has one image of one provider, and the template it
\* is pinned to is not deleted (pinSessionSandboxImage, execute).
THEOREM SessionsKeepTheirImage == StartSpec => []SessionKeepsItsImage
<1>1. ASSUME MachineInv PROVE SessionKeepsItsImage
  <2>1. OneImagePerSession
    BY <1>1 DEF MachineInv, PrepareInv, PinInv, OneImagePerSession
  <2>2. PinnedTemplateStays
    <3>. SUFFICES ASSUME session.image \notin {NoImage, Default, <<"own", 0>>}
                  PROVE  template[session.image[2]] = "ready"
      BY DEF PinnedTemplateStays
    <3>1. session.image \in Images
      BY <1>1 DEF MachineInv, PrepareInv, PrepareTypes, SessionRow
    <3>2. Built(session.image)
      BY <3>1 DEF Images, Built
    <3>. QED BY <1>1, <3>2 DEF MachineInv, PrepareInv, TemplateInv, Template
  <2>. QED BY <2>1, <2>2 DEF SessionKeepsItsImage
<1>. QED BY <1>1, MachineHolds, PTL

\* What attaches is what is required throughout the reads and nothing that was
\* never approved, and the run that is running has a record of what its machine was
\* given (resolvePluginsForRun, setRunPlugins).
THEOREM PluginsAlwaysAgree == StartSpec => []PluginsAgree
<1>1. ASSUME MachineInv PROVE PluginsAgree
  BY <1>1 DEF MachineInv, PrepareInv, RecordInv, PluginsAgree, RecordedIsAttached
<1>. QED BY <1>1, MachineHolds, PTL

\* The type invariant of both parts holds.
THEOREM StartTypes == StartSpec => []AllTypeOK
<1>1. ChatInv /\ MachineInv => AllTypeOK
  BY ConversationTypes, MachineTypes DEF AllTypeOK
<1>. QED BY <1>1, ConversationHolds, MachineHolds, PTL
=============================================================================
