----------------------------- MODULE EchoProofs -----------------------------
(***************************************************************************)
(* Proofs about EchoRollout, for any methods, lengths, budgets, replies and *)
(* numbers of compression rounds.                                           *)
(***************************************************************************)
EXTENDS EchoRollout, FiniteSetTheorems, SequenceTheorems, WellFoundedInduction, TLAPS

-----------------------------------------------------------------------------
(* Types                                                                    *)

Roles    == {"prompt", "policy", "instruction", "rebuilt", "tool"}
Token    == [of : Nat, role : Roles, at : Nat]
Item     == [id : Token, mask : {0, 1}]
Call     == [kind : CallKinds, block : Nat, segment : Nat, at : Nat]
Entry    == [kind : CallKinds, block : Nat, segment : Nat, at : Nat, generation : Nat]
Fates    == {"turn", "rolled back", "auxiliary"}
Sample   == [prompt : Seq(Token), fate : Fates]
SegmentType == [prompt : Seq(Token), response : Seq(Item), final : BOOLEAN]

ContextTypes ==
  /\ prompt_ids \in Seq(Token) /\ current_traj_prompt_ids \in Seq(Token)
  /\ sum_instruction_ids \in Seq(Token)
  /\ accumulated \in Seq(Item)
  /\ is_summarizing \in BOOLEAN
  /\ summary_count \in 0..MaxSummaryRounds

\* Only a rollout that may compress asks the policy for a compression.
Asking ==
  is_summarizing =>
    /\ state = "generating" /\ summary_count < MaxSummaryRounds
    /\ method \in {"summary", "echo_e2e"}

TurnTypes ==
  /\ response_length \in Nat /\ assistant_turns \in Nat /\ turn_history \in Nat
  /\ tool_calls \in Seq(Call)
  /\ overlong \in BOOLEAN /\ pending_turn \in BOOLEAN
  /\ state = "processing_tools" => response_length <= Len(accumulated) /\ Len(accumulated) < ResponseLength

HistoryTypes ==
  /\ method \in Methods /\ max_assistant_turns \in TurnLimits
  /\ state \in {"generating", "processing_tools", "terminated", "over"}
  /\ trajectory_outputs \in Seq(SegmentType)
  /\ ledger \in Seq(Entry)
  /\ generations \in Seq(Sample)
  /\ state = "processing_tools" => generations # <<>> /\ generations[Len(generations)].fate = "turn"

Typed == ContextTypes /\ Asking /\ TurnTypes /\ HistoryTypes

-----------------------------------------------------------------------------
(* Tokens and responses                                                     *)

LEMMA Limits ==
  /\ InitialLength \in Nat \ {0} /\ PromptLength \in Nat \ {0} /\ ResponseLength \in Nat \ {0}
  /\ WorkingContext \in Nat \ {0} /\ TruncateBudget \in Nat \ {0} /\ SelectionBudget \in Nat \ {0}
  /\ MaxParallelCalls \in Nat \ {0} /\ MaxSummaryRounds \in Nat
  /\ RebuiltLengths \subseteq Nat \ {0} /\ ToolLengths \subseteq Nat \ {0} /\ TurnLimits \subseteq Nat
  BY EchoAssumption

LEMMA ReplyType ==
  ASSUME NEW reply \in Replies
  PROVE  reply \in Seq(BlockKinds) /\ Len(reply) \in Nat \ {0} /\ DOMAIN reply = 1..Len(reply)
<1>1. reply \in Seq(BlockKinds) /\ reply # <<>>
  BY EchoAssumption
<1> QED
  BY <1>1

LEMMA TokensType ==
  ASSUME NEW n \in Nat, NEW role \in Roles, NEW len \in Nat
  PROVE  /\ Tokens(n, role, len) \in Seq(Token) /\ Len(Tokens(n, role, len)) = len
         /\ \A i \in 1..len : Tokens(n, role, len)[i] = [of |-> n, role |-> role, at |-> i]
  BY DEF Tokens, Token

LEMMA MaskedType ==
  ASSUME NEW ids \in Seq(Token)
  PROVE  /\ Trained(ids) \in Seq(Item) /\ Len(Trained(ids)) = Len(ids)
         /\ Untrained(ids) \in Seq(Item) /\ Len(Untrained(ids)) = Len(ids)
         /\ \A i \in 1..Len(ids) : Trained(ids)[i] = [id |-> ids[i], mask |-> 1]
         /\ \A i \in 1..Len(ids) : Untrained(ids)[i] = [id |-> ids[i], mask |-> 0]
<1>1. DOMAIN ids = 1..Len(ids) /\ Len(ids) \in Nat /\ \A i \in 1..Len(ids) : ids[i] \in Token
  OBVIOUS
<1>2. \A m \in {0, 1} : \A i \in 1..Len(ids) : [id |-> ids[i], mask |-> m] \in Item
  BY <1>1 DEF Item
<1>3. /\ Trained(ids) = [i \in 1..Len(ids) |-> [id |-> ids[i], mask |-> 1]]
      /\ Untrained(ids) = [i \in 1..Len(ids) |-> [id |-> ids[i], mask |-> 0]]
  BY <1>1 DEF Trained, Untrained
<1> HIDE DEF Item
<1> QED
  BY <1>1, <1>2, <1>3

LEMMA IdsType ==
  ASSUME NEW r \in Seq(Item)
  PROVE  /\ Ids(r) \in Seq(Token) /\ Len(Ids(r)) = Len(r)
         /\ \A i \in 1..Len(r) : Ids(r)[i] = r[i].id
<1>1. DOMAIN r = 1..Len(r) /\ Len(r) \in Nat /\ \A i \in 1..Len(r) : r[i] \in Item
  OBVIOUS
<1>2. \A i \in 1..Len(r) : r[i].id \in Token
  BY <1>1 DEF Item
<1>3. Ids(r) = [i \in 1..Len(r) |-> r[i].id]
  BY <1>1 DEF Ids
<1> QED
  BY <1>1, <1>2, <1>3

LEMMA PartsType ==
  ASSUME NEW S, NEW s \in Seq(S), NEW n \in Nat
  PROVE  /\ First(s, n) \in Seq(S) /\ Len(First(s, n)) = (IF n < Len(s) THEN n ELSE Len(s))
         /\ Rest(s, n) \in Seq(S) /\ Len(Rest(s, n)) = (IF n < Len(s) THEN Len(s) - n ELSE 0)
         /\ LastOnes(s, n) \in Seq(S) /\ Len(LastOnes(s, n)) = (IF n < Len(s) THEN n ELSE Len(s))
<1>1. Len(s) \in Nat /\ \A i \in 1..Len(s) : s[i] \in S
  OBVIOUS
<1>2. First(s, n) \in Seq(S) /\ Len(First(s, n)) = (IF n < Len(s) THEN n ELSE Len(s))
  BY <1>1 DEF First
<1>3. Rest(s, n) \in Seq(S) /\ Len(Rest(s, n)) = (IF n < Len(s) THEN Len(s) - n ELSE 0)
  BY <1>1 DEF Rest
<1>4. LastOnes(s, n) \in Seq(S) /\ Len(LastOnes(s, n)) = (IF n < Len(s) THEN n ELSE Len(s))
  <2>1. CASE n < Len(s)
    <3>1. LastOnes(s, n) = SubSeq(s, Len(s) - n + 1, Len(s)) /\ Len(s) - n + 1 \in Int
      BY <2>1 DEF LastOnes
    <3>2. \A i \in (Len(s) - n + 1)..Len(s) : s[i] \in S
      BY <1>1, <2>1
    <3> QED
      BY <1>1, <2>1, <3>1, <3>2, SubSeqProperties
  <2>2. CASE ~(n < Len(s))
    BY <1>1, <2>2 DEF LastOnes
  <2> QED
    BY <2>1, <2>2
<1> QED
  BY <1>2, <1>3, <1>4

LEMMA PartsAre ==
  ASSUME NEW S, NEW s \in Seq(S), NEW n \in Nat
  PROVE  /\ \A i \in 1..Len(First(s, n)) : First(s, n)[i] = s[i]
         /\ First(s, n) \o Rest(s, n) = s
         /\ Len(s) <= n => LastOnes(s, n) = s
<1>1. /\ First(s, n) \in Seq(S) /\ Len(First(s, n)) = (IF n < Len(s) THEN n ELSE Len(s))
      /\ Rest(s, n) \in Seq(S) /\ Len(Rest(s, n)) = (IF n < Len(s) THEN Len(s) - n ELSE 0)
  BY PartsType
<1>2. \A i \in 1..Len(First(s, n)) : First(s, n)[i] = s[i]
  BY DEF First
<1>3. Len(s) <= n => LastOnes(s, n) = s
  <2>0. Len(s) \in Nat
    OBVIOUS
  <2>2. Len(s) <= n => (IF n < Len(s) THEN Len(s) - n + 1 ELSE 1) = 1
    BY <2>0
  <2>1. Len(s) <= n => LastOnes(s, n) = SubSeq(s, 1, Len(s))
    BY <2>2, Zenon DEF LastOnes
  <2> QED
    BY <2>1, SubSeqFull
<1>4. \A i \in 1..Len(Rest(s, n)) : Rest(s, n)[i] = s[n + i]
  BY DEF Rest
<1>5. First(s, n) \o Rest(s, n) = s
  <2> DEFINE a == First(s, n)
             b == Rest(s, n)
  <2>1. a \in Seq(S) /\ b \in Seq(S) /\ Len(a) + Len(b) = Len(s)
    BY <1>1
  <2>2. \A i \in 1..Len(s) : s[i] = IF i <= Len(a) THEN a[i] ELSE b[i - Len(a)]
    <3> TAKE i \in 1..Len(s)
    <3>1. CASE i <= Len(a)
      BY <1>2, <3>1
    <3>2. CASE ~(i <= Len(a))
      <4>1. n < Len(s) /\ Len(a) = n /\ i - n \in 1..Len(b)
        BY <1>1, <3>2
      <4> QED
        BY <1>4, <3>2, <4>1
    <3> QED
      BY <3>1, <3>2
  <2> HIDE DEF a, b
  <2>3. a \o b \in Seq(S) /\ Len(a \o b) = Len(s)
        /\ \A i \in 1..Len(s) : (a \o b)[i] = s[i]
    BY SMTT(30), <2>1, <2>2
  <2>4. a \o b = s
    BY <2>3, SeqEqual
  <2> QED
    BY <2>4 DEF a, b
<1> QED
  BY <1>2, <1>3, <1>5

\* A turn that is rolled back leaves the response as it was before.
LEMMA RollsBack ==
  ASSUME NEW r \in Seq(Item), NEW ids \in Seq(Token)
  PROVE  WithoutTurn(r \o Trained(ids), Len(ids)) = r
<1>1. Trained(ids) \in Seq(Item) /\ Len(Trained(ids)) = Len(ids)
  BY MaskedType
<1>2. Len(r \o Trained(ids)) - Len(ids) = Len(r)
  BY <1>1
<1>3. SubSeq(r \o Trained(ids), 1, Len(r)) = r
  BY <1>1
<1> QED
  BY <1>2, <1>3 DEF WithoutTurn

LEMMA IdsOfBoth ==
  ASSUME NEW r \in Seq(Item), NEW s \in Seq(Item), NEW ids \in Seq(Token)
  PROVE  Ids(r \o s) = Ids(r) \o Ids(s) /\ Ids(Trained(ids)) = ids /\ Ids(Untrained(ids)) = ids
<1>1. Ids(r \o s) = Ids(r) \o Ids(s)
  <2>1. Ids(r) \in Seq(Token) /\ Ids(s) \in Seq(Token) /\ Len(Ids(r)) = Len(r) /\ Len(Ids(s)) = Len(s)
    BY IdsType
  <2>2. r \o s \in Seq(Item) /\ Len(r \o s) = Len(r) + Len(s)
    OBVIOUS
  <2>3. Ids(r \o s) \in Seq(Token) /\ Len(Ids(r \o s)) = Len(r) + Len(s)
    BY <2>2, IdsType
  <2>4. \A i \in 1..(Len(r) + Len(s)) : Ids(r \o s)[i] = (Ids(r) \o Ids(s))[i]
    <3> TAKE i \in 1..(Len(r) + Len(s))
    <3>1. CASE i <= Len(r)
      <4>1. i \in 1..Len(r) /\ (r \o s)[i] = r[i] /\ (Ids(r) \o Ids(s))[i] = Ids(r)[i]
        BY <2>1, <3>1
      <4> QED
        BY <2>2, <4>1, IdsType
    <3>2. CASE ~(i <= Len(r))
      <4>1. i - Len(r) \in 1..Len(s) /\ (r \o s)[i] = s[i - Len(r)] /\ (Ids(r) \o Ids(s))[i] = Ids(s)[i - Len(r)]
        BY <2>1, <3>2
      <4> QED
        BY <2>2, <4>1, IdsType
    <3> QED
      BY <3>1, <3>2
  <2> QED
    <3>1. Ids(r) \o Ids(s) \in Seq(Token) /\ Len(Ids(r) \o Ids(s)) = Len(r) + Len(s)
      <4>1. Ids(r) \o Ids(s) \in Seq(Token) /\ Len(Ids(r) \o Ids(s)) = Len(Ids(r)) + Len(Ids(s))
        BY <2>1, ConcatProperties
      <4> QED
        BY <2>1, <4>1
    <3> QED
      BY <2>3, <2>4, <3>1, SeqEqual
<1>2. Ids(Trained(ids)) = ids /\ Ids(Untrained(ids)) = ids
  <2>1. ASSUME NEW t \in Seq(Item), Len(t) = Len(ids), \A i \in 1..Len(ids) : t[i].id = ids[i]
        PROVE  Ids(t) = ids
    <3>1. Ids(t) \in Seq(Token) /\ Len(Ids(t)) = Len(ids) /\ \A i \in 1..Len(ids) : Ids(t)[i] = ids[i]
      BY <2>1, IdsType
    <3> QED
      BY <3>1, SeqEqual
  <2>2. \A i \in 1..Len(ids) : Trained(ids)[i].id = ids[i] /\ Untrained(ids)[i].id = ids[i]
    <3> TAKE i \in 1..Len(ids)
    <3>1. DOMAIN ids = 1..Len(ids)
      OBVIOUS
    <3> QED
      BY <3>1 DEF Trained, Untrained
  <2> QED
    BY <2>1, <2>2, MaskedType
<1> QED
  BY <1>1, <1>2

-----------------------------------------------------------------------------
(* A set in order                                                           *)

LEMMA Least ==
  ASSUME NEW S \in SUBSET Nat, S # {}
  PROVE  \E m \in S : \A n \in S : m <= n
<1>1. PICK m \in S : \A n \in S : ~(<<n, m>> \in OpToRel(<, Nat))
  BY NatLessThanWellFounded, WFMin
<1>2. \A n \in S : ~(n < m)
  BY <1>1 DEF OpToRel
<1> QED
  BY <1>2

Sorted(s) == \A i, j \in DOMAIN s : i < j => s[i] < s[j]

\* Removing the least element first shows that a finite set can be put in order.
LEMMA CanBeOrdered ==
  \A n \in Nat : \A S \in SUBSET Nat :
     IsFiniteSet(S) /\ Cardinality(S) = n => \E s \in [1..n -> S] : Sorted(s)
<1> DEFINE Good(n) == \A S \in SUBSET Nat : IsFiniteSet(S) /\ Cardinality(S) = n => \E s \in [1..n -> S] : Sorted(s)
           Bad == {n \in Nat : ~Good(n)}
<1>1. Good(0)
  <2> SUFFICES ASSUME NEW S \in SUBSET Nat, IsFiniteSet(S), Cardinality(S) = 0
               PROVE  \E s \in [1..0 -> S] : Sorted(s)
    OBVIOUS
  <2>1. <<>> \in [1..0 -> S] /\ DOMAIN <<>> = {}
    OBVIOUS
  <2> QED
    BY <2>1 DEF Sorted
<1>2. ASSUME NEW n \in Nat, Good(n) PROVE Good(n + 1)
  <2> SUFFICES ASSUME NEW S \in SUBSET Nat, IsFiniteSet(S), Cardinality(S) = n + 1
               PROVE  \E s \in [1..(n + 1) -> S] : Sorted(s)
    OBVIOUS
  <2>1. S # {}
    BY FS_EmptySet
  <2>2. PICK m \in S : \A k \in S : m <= k
    BY <2>1, Least
  <2>3. IsFiniteSet(S \ {m}) /\ Cardinality(S \ {m}) = n /\ S \ {m} \in SUBSET Nat
    BY FS_RemoveElement
  <2>4. PICK s \in [1..n -> S \ {m}] : Sorted(s)
    BY <1>2, <2>3
  <2> DEFINE t == [i \in 1..(n + 1) |-> IF i = 1 THEN m ELSE s[i - 1]]
  <2>5. \A i \in 1..(n + 1) : i # 1 => i - 1 \in 1..n /\ s[i - 1] \in S \ {m}
    BY <2>4
  <2>6. t \in [1..(n + 1) -> S]
    BY <2>5
  <2>7. ASSUME NEW i \in 1..(n + 1), NEW j \in 1..(n + 1), i < j
        PROVE  t[i] < t[j]
    <3>1. j # 1 /\ j - 1 \in 1..n /\ t[j] = s[j - 1] /\ s[j - 1] \in S \ {m}
      BY <2>5, <2>7
    <3>2. CASE i = 1
      <4>1. t[i] = m /\ m \in Nat /\ m <= t[j] /\ m # t[j] /\ t[j] \in Nat
        BY <2>2, <3>1, <3>2
      <4> QED
        BY <4>1
    <3>3. CASE i # 1
      <4>1. i - 1 \in 1..n /\ t[i] = s[i - 1] /\ i - 1 < j - 1
        BY <2>5, <2>7, <3>3
      <4> QED
        BY <2>4, <3>1, <4>1 DEF Sorted
    <3> QED
      BY <3>2, <3>3
  <2>8. DOMAIN t = 1..(n + 1)
    OBVIOUS
  <2> HIDE DEF t
  <2>9. Sorted(t)
    BY <2>7, <2>8 DEF Sorted
  <2> QED
    BY <2>6, <2>9
<1> HIDE DEF Good
<1>3. ASSUME Bad # {} PROVE FALSE
  <2>1. PICK m \in Bad : \A n \in Bad : m <= n
    BY <1>3, Least
  <2>2. m # 0 /\ m - 1 \in Nat /\ ~(m - 1 \in Bad)
    BY <1>1, <2>1
  <2>3. Good(m - 1) /\ (m - 1) + 1 = m
    BY <2>1, <2>2
  <2>4. Good((m - 1) + 1)
    BY <1>2, <2>2, <2>3
  <2> QED
    BY <2>1, <2>3, <2>4
<1>4. \A n \in Nat : Good(n)
  BY <1>3
<1> QED
  BY <1>4 DEF Good

LEMMA InOrderIs ==
  ASSUME NEW S \in SUBSET Nat, IsFiniteSet(S)
  PROVE  InOrder(S) \in [1..Cardinality(S) -> S] /\ Sorted(InOrder(S))
<1>1. Cardinality(S) \in Nat
  BY FS_CardinalityType
<1>2. \E s \in [1..Cardinality(S) -> S] : Sorted(s)
  BY <1>1, CanBeOrdered
<1> QED
  BY <1>2 DEF InOrder, Sorted

-----------------------------------------------------------------------------
(* Calls and ledger entries                                                 *)

LEMMA PositionsAre ==
  ASSUME NEW reply \in Replies, NEW kinds
  PROVE  LET P == {p \in DOMAIN reply : reply[p] \in kinds}
         IN  IsFiniteSet(P) /\ Positions(reply, kinds) \in [1..Cardinality(P) -> P]
<1> DEFINE P == {p \in DOMAIN reply : reply[p] \in kinds}
<1>1. DOMAIN reply = 1..Len(reply) /\ Len(reply) \in Nat
  BY ReplyType
<1>2. IsFiniteSet(P) /\ P \in SUBSET Nat
  <2>1. IsFiniteSet(1..Len(reply))
    BY <1>1, FS_Interval
  <2>2. P \subseteq 1..Len(reply)
    BY <1>1
  <2> QED
    BY <2>1, <2>2, FS_Subset
<1>3. InOrder(P) \in [1..Cardinality(P) -> P]
  BY <1>2, InOrderIs
<1> QED
  BY <1>2, <1>3 DEF Positions

\* Each call is of the segment that is being written, and its span is one of
\* the reply's tokens.
LEMMA CallsAre ==
  ASSUME Typed, NEW reply \in Replies, NEW response \in Seq(Item), Len(response) >= Len(reply)
  PROVE  /\ CallsOf(reply, response) \in Seq(Call)
         /\ \A i \in DOMAIN CallsOf(reply, response) :
              LET c == CallsOf(reply, response)[i] IN
              /\ c.segment = Len(trajectory_outputs) + 1
              /\ \E k \in 1..Len(reply) : c.at = Len(response) - Len(reply) + k
<1> DEFINE P == {p \in DOMAIN reply : reply[p] \in CallKinds}
           B == {p \in DOMAIN reply : reply[p] \in CallKinds \cup {"broken"}}
           parsed == Positions(reply, CallKinds)
           blocks == Positions(reply, CallKinds \cup {"broken"})
           call(i) == [kind    |-> reply[parsed[i]],
                       block   |-> parsed[i],
                       segment |-> Len(trajectory_outputs) + 1,
                       at      |-> SpanOffset(response, Len(reply)) + blocks[i]]
<1>1. /\ IsFiniteSet(P) /\ parsed \in [1..Cardinality(P) -> P]
      /\ IsFiniteSet(B) /\ blocks \in [1..Cardinality(B) -> B]
  BY PositionsAre
<1>2. P \subseteq B /\ Cardinality(P) \in Nat /\ Cardinality(B) \in Nat
  BY <1>1, FS_CardinalityType
<1>3. Cardinality(P) <= Cardinality(B)
  BY <1>1, <1>2, FS_Subset
<1>4. DOMAIN reply = 1..Len(reply) /\ Len(reply) \in Nat /\ Len(response) \in Nat /\ Len(trajectory_outputs) \in Nat
  BY ReplyType DEF Typed, HistoryTypes
<1>5. P \subseteq 1..Len(reply) /\ B \subseteq 1..Len(reply) /\ \A p \in P : reply[p] \in CallKinds
  BY <1>4
<1>6. CallsOf(reply, response) = [i \in 1..Cardinality(P) |-> call(i)]
  BY <1>1 DEF CallsOf
<1> HIDE DEF P, B, parsed, blocks
<1>7. ASSUME NEW i \in 1..Cardinality(P)
      PROVE  /\ call(i) \in Call /\ call(i).segment = Len(trajectory_outputs) + 1
             /\ \E k \in 1..Len(reply) : call(i).at = Len(response) - Len(reply) + k
  <2>1. i \in 1..Cardinality(B)
    BY <1>2, <1>3
  <2>2. parsed[i] \in P /\ blocks[i] \in 1..Len(reply)
    BY <1>1, <1>5, <2>1
  <2>3. parsed[i] \in Nat /\ reply[parsed[i]] \in CallKinds
    <3>1. parsed[i] \in 1..Len(reply) /\ reply[parsed[i]] \in CallKinds
      BY <1>5, <2>2
    <3>2. parsed[i] \in Nat
      BY <1>4, <3>1
    <3> QED
      BY <3>1, <3>2
  <2>4. call(i).at = Len(response) - Len(reply) + blocks[i]
    BY DEF SpanOffset
  <2>5. Len(response) - Len(reply) + blocks[i] \in Nat
    BY <1>4, <2>2
  <2>6. SpanOffset(response, Len(reply)) + blocks[i] \in Nat
    BY <2>5 DEF SpanOffset
  <2> QED
    BY <1>4, <2>2, <2>3, <2>4, <2>6 DEF Call
<1> HIDE DEF call
<1>8. [i \in 1..Cardinality(P) |-> call(i)] \in Seq(Call)
  BY <1>2, <1>7
<1> QED
  BY <1>2, <1>6, <1>7, <1>8

\* The entries of a turn are of its legal calls.
LEMMA EntriesAre ==
  ASSUME Typed, NEW calls \in Seq(Call), NEW legal \in SUBSET DOMAIN calls
  PROVE  /\ Entries(calls, legal) \in Seq(Entry)
         /\ \A i \in DOMAIN Entries(calls, legal) : \E j \in legal :
              LET e == Entries(calls, legal)[i] IN
              /\ e.kind = calls[j].kind /\ e.segment = calls[j].segment /\ e.at = calls[j].at
              /\ e.generation = Len(generations)
<1> DEFINE e(i) == LET c == calls[InOrder(legal)[i]] IN
                   [kind |-> c.kind, block |-> c.block, segment |-> c.segment, at |-> c.at, generation |-> Len(generations)]
<1>1. DOMAIN calls = 1..Len(calls) /\ Len(calls) \in Nat /\ Len(generations) \in Nat
  BY DEF Typed, HistoryTypes
<1>2. IsFiniteSet(legal) /\ legal \in SUBSET Nat /\ Cardinality(legal) \in Nat
  <2>1. IsFiniteSet(1..Len(calls))
    BY <1>1, FS_Interval
  <2> QED
    BY <1>1, <2>1, FS_Subset, FS_CardinalityType
<1>3. InOrder(legal) \in [1..Cardinality(legal) -> legal]
  BY <1>2, InOrderIs
<1>4. Entries(calls, legal) = [i \in 1..Cardinality(legal) |-> e(i)]
  BY DEF Entries
<1>5. ASSUME NEW i \in 1..Cardinality(legal)
      PROVE  /\ e(i) \in Entry
             /\ \E j \in legal : /\ e(i).kind = calls[j].kind /\ e(i).segment = calls[j].segment
                                 /\ e(i).at = calls[j].at /\ e(i).generation = Len(generations)
  <2>1. InOrder(legal)[i] \in legal /\ calls[InOrder(legal)[i]] \in Call
    BY <1>1, <1>3
  <2> QED
    BY <1>1, <2>1 DEF Call, Entry
<1> HIDE DEF e
<1>6. [i \in 1..Cardinality(legal) |-> e(i)] \in Seq(Entry)
  BY <1>2, <1>5
<1> QED
  BY <1>2, <1>4, <1>5, <1>6

LEMMA ExecutedIs ==
  ASSUME Typed, Executed
  PROVE  \E es \in Seq(Entry) :
           /\ ledger' = ledger \o es
           /\ \A i \in 1..Len(es) : \E j \in DOMAIN tool_calls :
                /\ es[i].kind = tool_calls[j].kind /\ es[i].segment = tool_calls[j].segment
                /\ es[i].at = tool_calls[j].at /\ es[i].generation = Len(generations)
                /\ es[i].kind = "submit" => IsFinish(Calls)
<1>1. PICK legal \in LegalCalls(Calls) : ledger' = ledger \o Entries(Calls, legal)
  BY DEF Executed
<1>2. /\ Calls \in Seq(Call) /\ Len(Calls) <= Len(tool_calls)
      /\ \A j \in 1..Len(Calls) : Calls[j] = tool_calls[j]
  <2>1. tool_calls \in Seq(Call) /\ MaxParallelCalls \in Nat
    BY Limits DEF Typed, TurnTypes
  <2>2. Calls \in Seq(Call) /\ Len(Calls) = (IF MaxParallelCalls < Len(tool_calls) THEN MaxParallelCalls ELSE Len(tool_calls))
    BY <2>1, PartsType DEF Calls
  <2>3. \A j \in 1..Len(Calls) : Calls[j] = tool_calls[j]
    BY <2>1, PartsAre DEF Calls
  <2> QED
    BY <2>1, <2>2, <2>3
<1>3. legal \in SUBSET DOMAIN Calls
  BY <1>1 DEF LegalCalls
<1> DEFINE es == Entries(Calls, legal)
<1>4. /\ es \in Seq(Entry)
      /\ \A i \in DOMAIN es : \E j \in legal :
           /\ es[i].kind = Calls[j].kind /\ es[i].segment = Calls[j].segment /\ es[i].at = Calls[j].at
           /\ es[i].generation = Len(generations)
  BY <1>2, <1>3, EntriesAre
<1> HIDE DEF es
<1>5. DOMAIN Calls = 1..Len(Calls) /\ DOMAIN tool_calls = 1..Len(tool_calls) /\ DOMAIN es = 1..Len(es)
      /\ Len(Calls) \in Nat /\ Len(tool_calls) \in Nat
  BY <1>2, <1>4 DEF Typed, TurnTypes
<1>6. ASSUME NEW i \in 1..Len(es)
      PROVE  \E j \in DOMAIN tool_calls :
                /\ es[i].kind = tool_calls[j].kind /\ es[i].segment = tool_calls[j].segment
                /\ es[i].at = tool_calls[j].at /\ es[i].generation = Len(generations)
                /\ es[i].kind = "submit" => IsFinish(Calls)
  <2>1. PICK j \in legal : /\ es[i].kind = Calls[j].kind /\ es[i].segment = Calls[j].segment
                           /\ es[i].at = Calls[j].at /\ es[i].generation = Len(generations)
    BY <1>4, <1>5
  <2>2. j \in DOMAIN Calls /\ j \in DOMAIN tool_calls /\ Calls[j] = tool_calls[j]
    BY <1>2, <1>3, <1>5
  <2>3. Calls[j].kind = "submit" => IsFinish(Calls)
    BY <2>2 DEF IsFinish
  <2> QED
    BY <2>1, <2>2, <2>3
<1>7. ledger' = ledger \o es
  BY <1>1 DEF es
<1> QED
  BY <1>4, <1>6, <1>7

-----------------------------------------------------------------------------
(* The forms that a step takes                                              *)

LEMMA ExtendedType ==
  ASSUME Typed, NEW reply \in Replies
  PROVE  /\ Response(reply) \in Seq(Token) /\ Len(Response(reply)) = Len(reply)
         /\ Extended(reply) \in Seq(Item) /\ Len(Extended(reply)) = Len(accumulated) + Len(reply)
         /\ Extended(reply) = accumulated \o Trained(Response(reply))
         /\ WithoutTurn(Extended(reply), Len(reply)) = accumulated
<1>1. accumulated \in Seq(Item) /\ Generation \in Nat /\ Len(reply) \in Nat /\ "policy" \in Roles
  BY ReplyType DEF Typed, ContextTypes, HistoryTypes, Generation, Roles
<1>2. Response(reply) \in Seq(Token) /\ Len(Response(reply)) = Len(reply)
  BY <1>1, TokensType DEF Response
<1>3. Trained(Response(reply)) \in Seq(Item) /\ Len(Trained(Response(reply))) = Len(reply)
  BY <1>2, MaskedType
<1>4. WithoutTurn(accumulated \o Trained(Response(reply)), Len(reply)) = accumulated
  BY <1>1, <1>2, RollsBack
<1>5. /\ accumulated \o Trained(Response(reply)) \in Seq(Item)
      /\ Len(accumulated \o Trained(Response(reply))) = Len(accumulated) + Len(reply)
  <2> DEFINE t == Trained(Response(reply))
  <2>1. t \in Seq(Item) /\ Len(t) = Len(reply)
    BY <1>3
  <2> HIDE DEF t
  <2>2. accumulated \o t \in Seq(Item) /\ Len(accumulated \o t) = Len(accumulated) + Len(t)
    BY <1>1, <2>1, ConcatProperties
  <2> QED
    BY <2>1, <2>2 DEF t
<1> QED
  BY <1>2, <1>4, <1>5 DEF Extended

LEMMA SampledType ==
  ASSUME Typed, NEW fate \in Fates, Sampled(fate)
  PROVE  /\ generations' \in Seq(Sample) /\ Len(generations') = Len(generations) + 1
         /\ \A n \in 1..Len(generations) : generations'[n] = generations[n]
         /\ generations'[Len(generations) + 1] = [prompt |-> prompt_ids, fate |-> fate]
<1>1. generations \in Seq(Sample) /\ [prompt |-> prompt_ids, fate |-> fate] \in Sample
  BY DEF Typed, HistoryTypes, ContextTypes, Sample
<1>2. generations' = Append(generations, [prompt |-> prompt_ids, fate |-> fate])
  BY DEF Sampled
<1> QED
  BY <1>1, <1>2

LEMMA RollBackType ==
  ASSUME Typed, state = "processing_tools", RollBack
  PROVE  /\ generations' \in Seq(Sample) /\ Len(generations') = Len(generations)
         /\ \A n \in 1..Len(generations) :
              /\ generations'[n].prompt = generations[n].prompt
              /\ generations'[n].fate = IF n = Len(generations) THEN "rolled back" ELSE generations[n].fate
<1> DEFINE L == Len(generations)
           new == [generations[L] EXCEPT !.fate = "rolled back"]
<1>1. generations \in Seq(Sample) /\ generations # <<>> /\ L \in 1..L
  BY DEF Typed, HistoryTypes
<1>2. generations[L] \in Sample
  BY <1>1
<1>3. new \in Sample /\ new.prompt = generations[L].prompt /\ new.fate = "rolled back"
  BY <1>2 DEF Sample, Fates
<1>4. generations' = [generations EXCEPT ![L] = new]
  BY DEF RollBack
<1> HIDE DEF new
<1>5. /\ generations' \in Seq(Sample) /\ Len(generations') = L
      /\ \A n \in 1..L : generations'[n] = IF n = L THEN new ELSE generations[n]
  <2>1. DOMAIN generations = 1..L /\ L \in Nat
    BY <1>1
  <2>2. generations' = [n \in 1..L |-> IF n = L THEN new ELSE generations[n]]
    BY <1>4, <2>1
  <2>3. \A n \in 1..L : (IF n = L THEN new ELSE generations[n]) \in Sample
    <3>1. \A n \in 1..L : generations[n] \in Sample
      BY <1>1
    <3> QED
      BY <1>3, <3>1
  <2> HIDE DEF L
  <2> QED
    BY <2>1, <2>2, <2>3
<1> QED
  BY <1>1, <1>3, <1>5

\* A prompt that is rebuilt or truncated keeps to the budget it was made for.
NewPrompt(p) == p \in Seq(Token) /\ (Len(p) <= TruncateBudget \/ Len(p) <= SelectionBudget)

\* What becomes of a context whose response is given up.
Compressed(before) ==
  \/ Terminate(before, TRUE)
  \/ \E p : NewPrompt(p) /\ NewContext(p, p, <<>>)
  \/ method \in {"summary", "echo_e2e"} /\ AskForCompression(before)

LEMMA TruncateIs ==
  ASSUME NEW ids \in Seq(Token), Truncate(ids)
  PROVE  \E p : NewPrompt(p) /\ NewContext(p, p, <<>>)
<1>1. LastOnes(ids, TruncateBudget) \in Seq(Token) /\ Len(LastOnes(ids, TruncateBudget)) <= TruncateBudget
  BY Limits, PartsType
<1>2. NewPrompt(LastOnes(ids, TruncateBudget))
  BY <1>1 DEF NewPrompt
<1> QED
  BY <1>2 DEF Truncate

LEMMA RebuiltIs ==
  ASSUME NEW n \in Nat, NEW len \in RebuiltLengths
  PROVE  /\ Tokens(n, "rebuilt", len) \in Seq(Token) /\ Len(Tokens(n, "rebuilt", len)) = len
         /\ ~(len > SelectionBudget) => NewPrompt(Tokens(n, "rebuilt", len))
<1>1. len \in Nat /\ SelectionBudget \in Nat /\ "rebuilt" \in Roles
  BY Limits DEF Roles
<1> QED
  BY <1>1, TokensType DEF NewPrompt

LEMMA SelectsIs ==
  ASSUME NEW before, SelectSemantically(before), Len(generations') \in Nat
  PROVE  Compressed(before)
<1>1. PICK len \in RebuiltLengths :
        LET prompt == Tokens(Len(generations'), "rebuilt", len) IN
        IF len > SelectionBudget THEN Terminate(before, TRUE) ELSE NewContext(prompt, prompt, <<>>)
  BY DEF SelectSemantically
<1>2. CASE len > SelectionBudget
  BY <1>1, <1>2 DEF Compressed
<1>3. CASE ~(len > SelectionBudget)
  BY <1>1, <1>3, RebuiltIs DEF Compressed
<1> QED
  BY <1>2, <1>3

\* What a generation that is rolled back does.
WasCutOff(reply) ==
  /\ Generated(reply) /\ Sampled("rolled back") /\ tool_calls' = <<>>
  /\ \/ Terminate(Extended(reply), TRUE) /\ UNCHANGED <<trajectory_outputs, turns>>
     \/ MayCompress /\ trajectory_outputs' = Saved(accumulated) /\ Compressed(accumulated)

LEMMA CutOffIs ==
  ASSUME Typed, CutOff
  PROVE  \E reply \in Replies : WasCutOff(reply)
<1>1. PICK reply \in Replies : CutOff!(reply)
  BY DEF CutOff
<1>2. /\ Generated(reply) /\ Sampled("rolled back") /\ tool_calls' = <<>>
  BY <1>1
<1>3. WithoutTurn(Extended(reply), Len(reply)) = accumulated
  BY ExtendedType
<1>4. generations \in Seq(Sample) /\ current_traj_prompt_ids \in Seq(Token) /\ accumulated \in Seq(Item)
  BY DEF Typed, HistoryTypes, ContextTypes
<1>5. Len(generations') \in Nat
  <2>1. "rolled back" \in Fates
    BY DEF Fates
  <2>2. generations' \in Seq(Sample)
    BY <1>2, <2>1, SampledType
  <2> QED
    BY <2>2
<1>6. CASE ~MayCompress
  BY <1>1, <1>2, <1>6 DEF WasCutOff
<1>7. CASE MayCompress
  <2>1. trajectory_outputs' = Saved(accumulated)
    BY <1>1, <1>3, <1>7
  <2>2. \/ method = "truncate" /\ Truncate(current_traj_prompt_ids \o Ids(accumulated))
        \/ method = "summary" /\ AskForCompression(accumulated)
        \/ method = "echo_e2e" /\ (Terminate(accumulated, TRUE) \/ AskForCompression(accumulated))
        \/ Terminate(accumulated, TRUE) \/ SelectSemantically(accumulated)
    BY <1>1, <1>3, <1>7
  <2>3. current_traj_prompt_ids \o Ids(accumulated) \in Seq(Token)
    BY <1>4, IdsType, ConcatProperties
  <2>4. Compressed(accumulated)
    BY <1>5, <2>2, <2>3, TruncateIs, SelectsIs DEF Compressed
  <2> QED
    BY <1>2, <1>7, <2>1, <2>4 DEF WasCutOff
<1> QED
  BY <1>6, <1>7

LEMMA ToolType ==
  ASSUME Typed, NEW len \in ToolLengths
  PROVE  LET tool == Tokens(Len(generations), "tool", len) IN
         /\ tool \in Seq(Token) /\ Len(tool) \in Nat \ {0} /\ Len(tool) = len
         /\ accumulated \o Untrained(tool) \in Seq(Item)
         /\ Len(accumulated \o Untrained(tool)) = Len(accumulated) + len
<1> DEFINE tool == Tokens(Len(generations), "tool", len)
           u == Untrained(tool)
<1>1. len \in Nat \ {0} /\ Len(generations) \in Nat /\ "tool" \in Roles /\ accumulated \in Seq(Item)
  BY Limits DEF Roles, Typed, HistoryTypes, ContextTypes
<1>2. tool \in Seq(Token) /\ Len(tool) = len
  BY <1>1, TokensType
<1>3. u \in Seq(Item) /\ Len(u) = len
  BY <1>2, MaskedType
<1> HIDE DEF u
<1>4. accumulated \o u \in Seq(Item) /\ Len(accumulated \o u) = Len(accumulated) + Len(u)
  BY <1>1, <1>3, ConcatProperties
<1> QED
  BY <1>1, <1>2, <1>3, <1>4 DEF u

\* What a turn whose tool response does not fit does.
OverflowSelected ==
  /\ SelectsTurns
  /\ \/ /\ MayCompress /\ trajectory_outputs' = Saved(WithoutTurn(accumulated, response_length))
        /\ RollBack /\ Compressed(WithoutTurn(accumulated, response_length))
     \/ trajectory_outputs' = Saved(accumulated) /\ Terminate(accumulated, TRUE) /\ UNCHANGED generations

OverflowSaved(len) ==
  /\ UNCHANGED generations
  /\ trajectory_outputs' = Saved(accumulated \o Untrained(Tokens(Len(generations), "tool", len)))
  /\ \/ Terminate(accumulated, TRUE)
     \/ MayCompress /\ Compressed(WithoutTurn(accumulated, response_length))

LEMMA OverflowIs ==
  ASSUME Typed, Overflow
  PROVE  /\ Executed /\ ~IsFinish(Calls)
         /\ OverflowSelected \/ \E len \in ToolLengths : OverflowSaved(len)
<1>1. PICK len \in ToolLengths : Overflow!(len)
  BY DEF Overflow
<1> DEFINE tool == Tokens(Len(generations), "tool", len)
<1>2. Executed /\ ~IsFinish(Calls)
  BY <1>1 DEF Overflows
<1>3. generations \in Seq(Sample) /\ prompt_ids \in Seq(Token) /\ tool \in Seq(Token)
  BY ToolType DEF Typed, HistoryTypes, ContextTypes
<1>4. CASE SelectsTurns /\ MayCompress
  <2>1. OverflowSelecting
    BY <1>1, <1>4
  <2> DEFINE before == WithoutTurn(accumulated, response_length)
  <2>2. \/ trajectory_outputs' = Saved(accumulated) /\ Terminate(accumulated, TRUE) /\ UNCHANGED generations
        \/ /\ trajectory_outputs' = Saved(before) /\ RollBack
           /\ \/ SelectSemantically(before) \/ Terminate(before, TRUE)
              \/ method = "echo_e2e" /\ AskForCompression(before)
    BY <2>1 DEF OverflowSelecting
  <2>3. RollBack => Len(generations') \in Nat
    <3>1. state = "processing_tools"
      BY <1>2 DEF Executed
    <3>2. RollBack => generations' \in Seq(Sample)
      BY <3>1, RollBackType
    <3> QED
      BY <3>2
  <2> HIDE DEF before
  <2>4. RollBack /\ SelectSemantically(before) => Compressed(before)
    BY <2>3, SelectsIs
  <2>5. Terminate(before, TRUE) \/ (method = "echo_e2e" /\ AskForCompression(before)) => Compressed(before)
    BY DEF Compressed
  <2> QED
    BY <1>2, <1>4, <2>2, <2>4, <2>5 DEF before, OverflowSelected
<1>5. CASE ~(SelectsTurns /\ MayCompress)
  <2>1. OverflowSaving(tool)
    BY <1>1, <1>5
  <2>2. prompt_ids \o tool \in Seq(Token)
    BY <1>3, ConcatProperties
  <2>3. /\ trajectory_outputs' = Saved(accumulated \o Untrained(tool)) /\ UNCHANGED generations
        /\ \/ Terminate(accumulated, TRUE)
           \/ MayCompress /\ Compressed(WithoutTurn(accumulated, response_length))
    BY <2>1, <2>2, TruncateIs DEF OverflowSaving, Compressed
  <2> QED
    BY <1>2, <2>3 DEF OverflowSaved
<1> QED
  BY <1>4, <1>5

\* What a complete generation does.
Spoke(reply) ==
  /\ Generated(reply) /\ Sampled("turn") /\ accumulated' = Extended(reply)
  /\ UNCHANGED <<overlong, trajectory_outputs, turns, current_traj_prompt_ids, sum_instruction_ids,
                 is_summarizing, summary_count>>
  /\ \/ state' = "terminated" /\ UNCHANGED <<tool_calls, prompt_ids>>
     \/ /\ tool_calls' = CallsOf(reply, Extended(reply))
        /\ prompt_ids' = prompt_ids \o Response(reply)
        /\ \/ state' = "terminated"
           \/ state' = "processing_tools" /\ Len(Extended(reply)) < ResponseLength

LEMMA TurnIs ==
  ASSUME Typed, LastTurn \/ Turn
  PROVE  \E reply \in Replies : Spoke(reply)
<1>1. CASE LastTurn
  BY <1>1 DEF LastTurn, Terminate, Spoke
<1>2. CASE Turn
  <2>1. PICK reply \in Replies : Turn!(reply)
    BY <1>2 DEF Turn
  <2>2. Len(Extended(reply)) \in Nat
    BY ExtendedType
  <2>3. ~OverBudget(Len(Extended(reply))) => Len(Extended(reply)) < ResponseLength
    BY <2>2, Limits DEF OverBudget
  <2>4. state' = "terminated" \/ (state' = "processing_tools" /\ Len(Extended(reply)) < ResponseLength)
    BY <2>1, <2>3
  <2> QED
    BY <2>1, <2>4 DEF Spoke
<1> QED
  BY <1>1, <1>2

\* After an auxiliary generation the next context begins with a prompt that
\* fits, followed by an untrained prefix.
LEMMA AuxiliaryIs ==
  ASSUME Typed, Summarize \/ SelectTurns
  PROVE  /\ AuxiliaryGeneration
         /\ LET ids == Tokens(Generation, "policy", 1) IN
            \/ method = "summary" /\ trajectory_outputs' = WithSummary(ids)
            \/ method = "echo_e2e" /\ trajectory_outputs' = WithSelection(ids)
         /\ turn_history' \in Nat /\ pending_turn' \in BOOLEAN
         /\ \/ /\ overlong' = TRUE /\ is_summarizing' = FALSE /\ state' = "terminated"
               /\ UNCHANGED <<prompt_ids, current_traj_prompt_ids, accumulated, sum_instruction_ids, summary_count>>
            \/ \E first, prefix \in Seq(Token) :
                 /\ Len(first) <= PromptLength \/ NewPrompt(first)
                 /\ NewContext(first \o prefix, first, prefix)
<1>1. Generation \in Nat /\ turn_history \in Nat /\ pending_turn \in BOOLEAN
  BY DEF Typed, HistoryTypes, TurnTypes, Generation
<1>2. CASE Summarize
  <2>1. /\ method = "summary" /\ AuxiliaryGeneration /\ UNCHANGED turns
        /\ trajectory_outputs' = WithSummary(Tokens(Generation, "policy", 1))
    BY <1>2 DEF Summarize
  <2>2. turn_history' \in Nat /\ pending_turn' \in BOOLEAN
    BY <1>1, <2>1 DEF turns
  <2>3. ASSUME NEW len \in RebuiltLengths,
               LET prompt == Tokens(Generation, "rebuilt", len) IN
               NewContext(prompt, PromptField(prompt), Rest(prompt, Len(PromptField(prompt))))
        PROVE  \E first, prefix \in Seq(Token) :
                 /\ Len(first) <= PromptLength \/ NewPrompt(first)
                 /\ NewContext(first \o prefix, first, prefix)
    <3> DEFINE prompt == Tokens(Generation, "rebuilt", len)
               field == PromptField(prompt)
    <3>1. prompt \in Seq(Token) /\ Len(prompt) \in Nat /\ PromptLength \in Nat
      BY <1>1, RebuiltIs, Limits
    <3> HIDE DEF prompt
    <3>2. field \in Seq(Token) /\ Len(field) = IF PromptLength < Len(prompt) THEN PromptLength ELSE Len(prompt)
      BY <3>1, PartsType DEF PromptField
    <3>3. Rest(prompt, Len(field)) = Rest(prompt, PromptLength)
      <4>1. CASE PromptLength < Len(prompt)
        BY <3>2, <4>1
      <4>2. CASE ~(PromptLength < Len(prompt))
        <5>1. Len(field) = Len(prompt)
          BY <3>2, <4>2
        <5>2. /\ Rest(prompt, Len(field)) \in Seq(Token) /\ Len(Rest(prompt, Len(field))) = 0
              /\ Rest(prompt, PromptLength) \in Seq(Token) /\ Len(Rest(prompt, PromptLength)) = 0
          BY <3>1, <4>2, <5>1, PartsType
        <5>3. Rest(prompt, Len(field)) = <<>> /\ Rest(prompt, PromptLength) = <<>>
          BY <5>2
        <5> QED
          BY <5>3
      <4> QED
        BY <4>1, <4>2
    <3>4. field \o Rest(prompt, Len(field)) = prompt /\ Rest(prompt, Len(field)) \in Seq(Token)
      <4>1. First(prompt, PromptLength) \o Rest(prompt, PromptLength) = prompt
        BY <3>1, PartsAre
      <4>2. Rest(prompt, PromptLength) \in Seq(Token)
        BY <3>1, PartsType
      <4> QED
        BY <3>3, <4>1, <4>2 DEF PromptField
    <3>5. Len(field) <= PromptLength
      BY <3>1, <3>2
    <3>6. NewContext(prompt, field, Rest(prompt, Len(field)))
      BY <2>3 DEF prompt
    <3> QED
      BY <3>2, <3>4, <3>5, <3>6
  <2> QED
    BY <1>2, <2>1, <2>2, <2>3 DEF Summarize
<1>3. CASE SelectTurns
  <2>1. /\ method = "echo_e2e" /\ AuxiliaryGeneration
        /\ trajectory_outputs' = WithSelection(Tokens(Generation, "policy", 1))
    BY <1>3 DEF SelectTurns
  <2>2. PICK len \in RebuiltLengths, found \in BOOLEAN :
          LET prompt == Tokens(Generation, "rebuilt", len) IN
          IF len > SelectionBudget
          THEN /\ overlong' = TRUE
               /\ is_summarizing' = FALSE
               /\ state' = "terminated"
               /\ UNCHANGED <<prompt_ids, current_traj_prompt_ids, accumulated, sum_instruction_ids,
                              summary_count, turns>>
          ELSE /\ NewContext(prompt, prompt, <<>>)
               /\ turn_history' = IF found /\ pending_turn THEN turn_history + 1 ELSE turn_history
               /\ pending_turn' = FALSE
    BY <1>3 DEF SelectTurns
  <2>3. CASE len > SelectionBudget
    BY <1>1, <2>1, <2>2, <2>3 DEF turns
  <2>4. CASE ~(len > SelectionBudget)
    <3> DEFINE prompt == Tokens(Generation, "rebuilt", len)
    <3>1. prompt \in Seq(Token) /\ NewPrompt(prompt) /\ NewContext(prompt, prompt, <<>>)
      BY <1>1, <2>2, <2>4, RebuiltIs
    <3>2. turn_history' \in Nat /\ pending_turn' \in BOOLEAN
      <4>1. turn_history' \in {turn_history, turn_history + 1} /\ pending_turn' = FALSE
        BY <2>2, <2>4, Zenon
      <4>2. turn_history \in Nat => turn_history + 1 \in Nat
        OBVIOUS
      <4> QED
        BY <1>1, <4>1, <4>2, Zenon
    <3> HIDE DEF prompt
    <3>3. prompt \o <<>> = prompt /\ <<>> \in Seq(Token)
      BY <3>1, ConcatEmptySeq
    <3> QED
      BY <2>1, <3>1, <3>2, <3>3
  <2> QED
    BY <2>3, <2>4
<1> QED
  BY <1>2, <1>3

-----------------------------------------------------------------------------
(* Types                                                                    *)

LEMMA InitIsTyped ==
  ASSUME EchoInit
  PROVE  Typed
<1>1. Tokens(0, "prompt", InitialLength) \in Seq(Token)
  BY Limits, TokensType DEF Roles
<1>2. ContextTypes
  <2>1. prompt_ids \in Seq(Token) /\ current_traj_prompt_ids \in Seq(Token)
    BY <1>1 DEF EchoInit
  <2>2. accumulated = <<>> /\ sum_instruction_ids = <<>> /\ is_summarizing = FALSE /\ summary_count = 0
    BY DEF EchoInit
  <2> QED
    <3>1. is_summarizing \in BOOLEAN
      BY <2>2, Zenon
    <3>2. summary_count \in 0..MaxSummaryRounds /\ accumulated \in Seq(Item) /\ sum_instruction_ids \in Seq(Token)
      BY <2>2, Limits
    <3> QED
      BY <2>1, <3>1, <3>2, Zenon DEF ContextTypes
<1>4. Asking
  BY DEF EchoInit, Asking
<1>3. TurnTypes /\ HistoryTypes
  <2>1. response_length = 0 /\ assistant_turns = 0 /\ tool_calls = <<>> /\ overlong = FALSE
        /\ turn_history = 0 /\ pending_turn = FALSE /\ state = "generating"
    BY DEF EchoInit
  <2>2. method \in Methods /\ max_assistant_turns \in TurnLimits /\ trajectory_outputs = <<>>
        /\ ledger = <<>> /\ generations = <<>>
    BY DEF EchoInit
  <2>3. TurnTypes
    <3>1. overlong \in BOOLEAN /\ pending_turn \in BOOLEAN /\ state # "processing_tools"
      BY <2>1, Zenon
    <3>2. response_length \in Nat /\ assistant_turns \in Nat /\ tool_calls \in Seq(Call) /\ turn_history \in Nat
      BY <2>1
    <3> QED
      BY <3>1, <3>2, Zenon DEF TurnTypes
  <2> QED
    BY <2>1, <2>2, <2>3 DEF HistoryTypes
<1> QED
  BY <1>2, <1>3, <1>4 DEF Typed

LEMMA WithoutTurnType ==
  ASSUME Typed, state = "processing_tools"
  PROVE  LET before == WithoutTurn(accumulated, response_length) IN
         /\ before \in Seq(Item) /\ Len(before) = Len(accumulated) - response_length
         /\ \A p \in 1..Len(before) : before[p] = accumulated[p]
<1>1. accumulated \in Seq(Item) /\ response_length \in Nat /\ response_length <= Len(accumulated)
  BY DEF Typed, ContextTypes, TurnTypes
<1>2. Len(accumulated) - response_length \in 0..Len(accumulated)
  BY <1>1
<1> QED
  BY <1>1, <1>2 DEF WithoutTurn

\* A selection is appended to the last segment's response.
LEMMA SelectionIs ==
  ASSUME Typed, NEW ids \in Seq(Token), trajectory_outputs # <<>>
  PROVE  LET n == Len(trajectory_outputs)
             last == trajectory_outputs[n]
             longer == last.response \o Untrained(sum_instruction_ids) \o Trained(ids)
             new == [prompt |-> last.prompt, response |-> longer, final |-> last.final]
         IN  /\ n \in 1..n /\ longer \in Seq(Item) /\ new \in SegmentType
             /\ WithSelection(ids) \in Seq(SegmentType) /\ Len(WithSelection(ids)) = n
             /\ \A i \in 1..n : WithSelection(ids)[i] = IF i = n THEN new ELSE trajectory_outputs[i]
<1> DEFINE n == Len(trajectory_outputs)
           last == trajectory_outputs[n]
           tail == Untrained(sum_instruction_ids) \o Trained(ids)
           longer == last.response \o Untrained(sum_instruction_ids) \o Trained(ids)
           new == [prompt |-> last.prompt, response |-> longer, final |-> last.final]
<1>1. trajectory_outputs \in Seq(SegmentType) /\ n \in 1..n /\ n \in Nat /\ DOMAIN trajectory_outputs = 1..n
  BY DEF Typed, HistoryTypes
<1>2. last \in SegmentType
  BY <1>1
<1>3. last.prompt \in Seq(Token) /\ last.response \in Seq(Item) /\ last.final \in BOOLEAN
  BY <1>2 DEF SegmentType
<1>4. Untrained(sum_instruction_ids) \in Seq(Item) /\ Trained(ids) \in Seq(Item)
  BY MaskedType DEF Typed, ContextTypes
<1>5. longer \in Seq(Item)
  BY <1>3, <1>4, ConcatProperties
<1>6. last = [prompt |-> last.prompt, response |-> last.response, final |-> last.final]
  BY <1>2 DEF SegmentType
<1>7. WithSelection(ids) = [trajectory_outputs EXCEPT ![n] = [last EXCEPT !.response = longer]]
  BY DEF WithSelection
<1>8. [last EXCEPT !.response = longer] = new
  <2> HIDE DEF longer
  <2> QED
    BY <1>6
<1> HIDE DEF longer
<1>9. new \in SegmentType
  BY <1>3, <1>5 DEF SegmentType
<1> HIDE DEF new, last
<1>10. WithSelection(ids) = [i \in 1..n |-> IF i = n THEN new ELSE trajectory_outputs[i]]
  BY <1>1, <1>7, <1>8
<1>11. \A i \in 1..n : (IF i = n THEN new ELSE trajectory_outputs[i]) \in SegmentType
  <2>1. \A i \in 1..n : trajectory_outputs[i] \in SegmentType
    BY <1>1
  <2> QED
    BY <1>9, <2>1
<1>12. /\ WithSelection(ids) \in Seq(SegmentType) /\ Len(WithSelection(ids)) = n
       /\ \A i \in 1..n : WithSelection(ids)[i] = IF i = n THEN new ELSE trajectory_outputs[i]
  <2> HIDE DEF n
  <2> QED
    BY <1>1, <1>10, <1>11
<1> QED
  BY <1>1, <1>5, <1>9, <1>12 DEF new, last, longer

LEMMA SavedType ==
  ASSUME Typed, NEW r \in Seq(Item), NEW final \in BOOLEAN
  PROVE  /\ Segment(current_traj_prompt_ids, r, final) \in SegmentType
         /\ Append(trajectory_outputs, Segment(current_traj_prompt_ids, r, final)) \in Seq(SegmentType)
         /\ Saved(r) \in Seq(SegmentType)
<1>1. trajectory_outputs \in Seq(SegmentType) /\ current_traj_prompt_ids \in Seq(Token)
  BY DEF Typed, HistoryTypes, ContextTypes
<1>2. \A f \in BOOLEAN : Segment(current_traj_prompt_ids, r, f) \in SegmentType
  BY <1>1 DEF Segment, SegmentType
<1>3. \A f \in BOOLEAN : Append(trajectory_outputs, Segment(current_traj_prompt_ids, r, f)) \in Seq(SegmentType)
  BY <1>1, <1>2
<1> QED
  BY <1>1, <1>2, <1>3 DEF Saved

LEMMA InstructionType ==
  ASSUME Typed, NEW n \in Nat
  PROVE  Tokens(n, "instruction", 1) \in Seq(Token)
  BY TokensType DEF Roles

\* After a context was compressed, or was given up.
LEMMA CompressedType ==
  ASSUME Typed, MayCompress, ~is_summarizing, NEW before \in Seq(Item), Compressed(before),
         Len(generations') \in Nat, method' = method, overlong \in BOOLEAN
  PROVE  /\ ContextTypes' /\ Asking' /\ overlong' \in BOOLEAN
         /\ state' \in {"generating", "terminated"}
<1>1. ContextTypes /\ summary_count < MaxSummaryRounds /\ MaxSummaryRounds \in Nat /\ summary_count \in Nat
  BY Limits DEF Typed, ContextTypes, MayCompress
<1>2. CASE Terminate(before, TRUE)
  BY <1>1, <1>2 DEF Terminate, ContextTypes, Asking
<1>3. ASSUME NEW p, NewPrompt(p), NewContext(p, p, <<>>)
      PROVE  /\ ContextTypes' /\ Asking' /\ overlong' \in BOOLEAN
             /\ state' \in {"generating", "terminated"}
  <2>1. p \in Seq(Token) /\ Untrained(<<>>) \in Seq(Item)
    <3>1. <<>> \in Seq(Token)
      OBVIOUS
    <3> QED
      BY <1>3, <3>1, MaskedType DEF NewPrompt
  <2>2. /\ prompt_ids' = p /\ current_traj_prompt_ids' = p /\ accumulated' = Untrained(<<>>)
        /\ is_summarizing' = FALSE /\ summary_count' = summary_count + 1 /\ state' = "generating"
        /\ sum_instruction_ids' = sum_instruction_ids /\ overlong' = overlong
    BY <1>3 DEF NewContext, NextRound
  <2>3. is_summarizing' \in BOOLEAN /\ Asking' /\ overlong' \in BOOLEAN
    BY <2>2, Zenon DEF Asking
  <2>4. summary_count' \in 0..MaxSummaryRounds
    BY <1>1, <2>2
  <2>5. prompt_ids' \in Seq(Token) /\ current_traj_prompt_ids' \in Seq(Token) /\ accumulated' \in Seq(Item)
        /\ sum_instruction_ids' \in Seq(Token)
    BY <1>1, <2>1, <2>2, Zenon DEF ContextTypes
  <2>6. ContextTypes'
    BY <2>3, <2>4, <2>5, Zenon DEF ContextTypes
  <2> QED
    BY <2>2, <2>3, <2>6
<1>4. CASE method \in {"summary", "echo_e2e"} /\ AskForCompression(before)
  <2> DEFINE instruction == Tokens(Len(generations'), "instruction", 1)
  <2>1. instruction \in Seq(Token)
    BY InstructionType
  <2>2. current_traj_prompt_ids \o Ids(before) \o instruction \in Seq(Token)
    BY <1>1, <2>1, IdsType, ConcatProperties DEF ContextTypes
  <2> QED
    BY <1>1, <1>4, <2>1, <2>2 DEF AskForCompression, ContextTypes, Asking, MayCompress
<1> QED
  BY <1>2, <1>3, <1>4 DEF Compressed

LEMMA GeneratedType ==
  ASSUME Typed, NEW reply \in Replies, Generated(reply)
  PROVE  /\ state = "generating" /\ ~is_summarizing
         /\ response_length' = Len(reply) /\ response_length' \in Nat /\ assistant_turns' \in Nat
         /\ method' = method /\ max_assistant_turns' = max_assistant_turns /\ ledger' = ledger
  BY ReplyType DEF Generated, config, Typed, TurnTypes

LEMMA TurnIsTyped ==
  ASSUME Typed, LastTurn \/ Turn
  PROVE  Typed'
<1> USE DEF Spoke
<1>1. PICK reply \in Replies : Spoke(reply)
  BY TurnIs
<1>2. /\ state = "generating" /\ ~is_summarizing
      /\ response_length' = Len(reply) /\ response_length' \in Nat /\ assistant_turns' \in Nat
      /\ method' = method /\ max_assistant_turns' = max_assistant_turns /\ ledger' = ledger
  BY <1>1, GeneratedType
<1>3. /\ generations' \in Seq(Sample) /\ Len(generations') = Len(generations) + 1
      /\ generations'[Len(generations) + 1] = [prompt |-> prompt_ids, fate |-> "turn"]
  BY <1>1, SampledType DEF Fates
<1>4. /\ Response(reply) \in Seq(Token) /\ Extended(reply) \in Seq(Item)
      /\ Len(Extended(reply)) = Len(accumulated) + Len(reply)
  BY ExtendedType
<1>5. prompt_ids' \in Seq(Token)
  <2>1. prompt_ids \o Response(reply) \in Seq(Token)
    BY <1>4, ConcatProperties DEF Typed, ContextTypes
  <2> QED
    BY <1>1, <2>1 DEF Typed, ContextTypes
<1>6. ContextTypes'
  BY <1>1, <1>4, <1>5 DEF Typed, ContextTypes
<1>7. Asking'
  BY <1>1, <1>2 DEF Asking
<1>8. TurnTypes'
  <2>1. tool_calls' \in Seq(Call)
    <3>1. CallsOf(reply, Extended(reply)) \in Seq(Call)
      <4>1. Len(Extended(reply)) >= Len(reply)
        BY <1>4, ReplyType DEF Typed, ContextTypes
      <4> QED
        BY <1>4, <4>1, CallsAre
    <3> QED
      BY <1>1, <3>1 DEF Typed, TurnTypes
  <2>2. overlong' \in BOOLEAN /\ pending_turn' \in BOOLEAN /\ turn_history' \in Nat
    BY <1>1 DEF Typed, TurnTypes, turns
  <2>3. state' = "processing_tools" => response_length' <= Len(accumulated') /\ Len(accumulated') < ResponseLength
    <3>1. Len(accumulated) \in Nat /\ Len(reply) \in Nat
      BY ReplyType DEF Typed, ContextTypes
    <3> QED
      BY <1>1, <1>2, <1>4, <3>1
  <2> QED
    BY <1>2, <2>1, <2>2, <2>3 DEF TurnTypes
<1>9. HistoryTypes'
  <2>1. generations' # <<>> /\ Len(generations') = Len(generations) + 1 /\ generations'[Len(generations')].fate = "turn"
    <3>1. Len(generations) \in Nat
      BY DEF Typed, HistoryTypes
    <3> QED
      BY <1>3, <3>1
  <2>2. state' \in {"generating", "processing_tools", "terminated", "over"}
    BY <1>1
  <2> QED
    BY <1>1, <1>2, <1>3, <2>1, <2>2 DEF Typed, HistoryTypes
<1> QED
  BY <1>6, <1>7, <1>8, <1>9 DEF Typed

LEMMA CutOffIsTyped ==
  ASSUME Typed, CutOff
  PROVE  Typed'
<1> USE DEF WasCutOff
<1>1. PICK reply \in Replies : WasCutOff(reply)
  BY CutOffIs
<1>2. /\ state = "generating" /\ ~is_summarizing
      /\ response_length' = Len(reply) /\ response_length' \in Nat /\ assistant_turns' \in Nat
      /\ method' = method /\ max_assistant_turns' = max_assistant_turns /\ ledger' = ledger
  BY <1>1, GeneratedType
<1>3. generations' \in Seq(Sample) /\ Len(generations') \in Nat
  <2>1. generations' \in Seq(Sample)
    BY <1>1, SampledType DEF Fates
  <2> QED
    BY <2>1
<1>4. turn_history' \in Nat /\ pending_turn' \in BOOLEAN
  <2>1. turn_history' \in {turn_history, turn_history + 1} /\ pending_turn' \in {pending_turn, FALSE}
    BY DEF CutOff, turns
  <2>2. turn_history \in Nat /\ turn_history + 1 \in Nat /\ pending_turn \in BOOLEAN
    BY DEF Typed, TurnTypes
  <2> QED
    BY <2>1, <2>2, Zenon
<1>5. /\ ContextTypes' /\ Asking' /\ overlong' \in BOOLEAN /\ state' \in {"generating", "terminated"}
      /\ trajectory_outputs' \in Seq(SegmentType)
  <2>1. CASE Terminate(Extended(reply), TRUE) /\ UNCHANGED <<trajectory_outputs, turns>>
    <3>1. Extended(reply) \in Seq(Item)
      BY ExtendedType
    <3>2. overlong' = TRUE /\ state' = "terminated" /\ accumulated' = Extended(reply)
          /\ UNCHANGED <<prompt_ids, current_traj_prompt_ids, sum_instruction_ids, is_summarizing, summary_count>>
      BY <2>1 DEF Terminate
    <3>3. overlong' \in BOOLEAN /\ state' \in {"generating", "terminated"}
      BY <3>2, Zenon
    <3>4. ContextTypes' /\ Asking'
      BY <1>2, <3>1, <3>2 DEF Typed, ContextTypes, Asking
    <3> QED
      BY <2>1, <3>3, <3>4 DEF Typed, HistoryTypes
  <2>2. CASE MayCompress /\ trajectory_outputs' = Saved(accumulated) /\ Compressed(accumulated)
    <3>1. accumulated \in Seq(Item) /\ overlong \in BOOLEAN
      BY DEF Typed, ContextTypes, TurnTypes
    <3> QED
      BY <1>2, <1>3, <2>2, <3>1, CompressedType, SavedType
  <2> QED
    BY <1>1, <2>1, <2>2
<1>6. TurnTypes'
  <2>1. tool_calls' \in Seq(Call) /\ state' # "processing_tools"
    <3>1. tool_calls' = <<>>
      BY <1>1, Zenon
    <3> QED
      BY <1>5, <3>1
  <2> QED
    BY <1>2, <1>4, <1>5, <2>1, Zenon DEF TurnTypes
<1>7. HistoryTypes'
  <2>1. state' \in {"generating", "processing_tools", "terminated", "over"} /\ state' # "processing_tools"
    BY <1>5
  <2> QED
    BY <1>2, <1>3, <1>5, <2>1 DEF Typed, HistoryTypes
<1> QED
  BY <1>5, <1>6, <1>7 DEF Typed

LEMMA AuxiliaryIsTyped ==
  ASSUME Typed, Summarize \/ SelectTurns
  PROVE  Typed'
<1>1. /\ AuxiliaryGeneration
      /\ turn_history' \in Nat /\ pending_turn' \in BOOLEAN
  BY AuxiliaryIs
<1>2. /\ state = "generating" /\ is_summarizing /\ summary_count < MaxSummaryRounds
      /\ response_length' = 1 /\ assistant_turns' = assistant_turns /\ tool_calls' = tool_calls
      /\ method' = method /\ max_assistant_turns' = max_assistant_turns /\ ledger' = ledger
      /\ Sampled("auxiliary")
  BY <1>1 DEF AuxiliaryGeneration, config, Typed, Asking
<1>3. generations' \in Seq(Sample)
  BY <1>2, SampledType DEF Fates
<1> DEFINE ids == Tokens(Generation, "policy", 1)
<1>4. ids \in Seq(Token) /\ Trained(ids) \in Seq(Item)
  <2>1. Generation \in Nat
    BY DEF Typed, HistoryTypes, Generation
  <2>2. ids \in Seq(Token)
    BY <2>1, TokensType DEF Roles
  <2> QED
    BY <2>2, MaskedType
<1> HIDE DEF ids
<1>5. trajectory_outputs' \in Seq(SegmentType)
  <2>1. trajectory_outputs \in Seq(SegmentType)
    BY DEF Typed, HistoryTypes
  <2>2. CASE trajectory_outputs' = WithSummary(ids)
    <3> DEFINE full == current_traj_prompt_ids \o Ids(accumulated) \o sum_instruction_ids
               s == Segment(First(full, PromptLength), Untrained(Rest(full, PromptLength)) \o Trained(ids), FALSE)
    <3>1. full \in Seq(Token)
      BY IdsType, ConcatProperties DEF Typed, ContextTypes
    <3> HIDE DEF full
    <3>2. First(full, PromptLength) \in Seq(Token) /\ Rest(full, PromptLength) \in Seq(Token)
      BY <3>1, Limits, PartsType
    <3>3. Untrained(Rest(full, PromptLength)) \in Seq(Item)
      BY <3>2, MaskedType
    <3>4. Untrained(Rest(full, PromptLength)) \o Trained(ids) \in Seq(Item)
      BY <1>4, <3>3, ConcatProperties
    <3>5. s \in SegmentType
      BY <3>2, <3>4 DEF Segment, SegmentType
    <3>6. trajectory_outputs' = Append(trajectory_outputs, s)
      BY <2>2 DEF WithSummary, full
    <3> HIDE DEF s
    <3> QED
      BY <2>1, <3>5, <3>6
  <2>3. CASE trajectory_outputs' = WithSelection(ids)
    <3>1. CASE trajectory_outputs = <<>>
      BY <2>1, <2>3, <3>1 DEF WithSelection
    <3>2. CASE trajectory_outputs # <<>>
      BY <1>4, <2>3, <3>2, SelectionIs
    <3> QED
      BY <3>1, <3>2
  <2> QED
    BY <2>2, <2>3, AuxiliaryIs DEF ids
<1>6. /\ ContextTypes' /\ Asking' /\ overlong' \in BOOLEAN
      /\ state' \in {"generating", "terminated"}
  <2>1. CASE /\ overlong' = TRUE /\ is_summarizing' = FALSE /\ state' = "terminated"
             /\ UNCHANGED <<prompt_ids, current_traj_prompt_ids, accumulated, sum_instruction_ids, summary_count>>
    <3>1. overlong' \in BOOLEAN /\ is_summarizing' \in BOOLEAN /\ Asking'
      BY <2>1, Zenon DEF Asking
    <3> QED
      BY <2>1, <3>1 DEF Typed, ContextTypes
  <2>2. CASE \E first, prefix \in Seq(Token) :
                 /\ Len(first) <= PromptLength \/ NewPrompt(first)
                 /\ NewContext(first \o prefix, first, prefix)
    <3>1. PICK first \in Seq(Token), prefix \in Seq(Token) : NewContext(first \o prefix, first, prefix)
      BY <2>2
    <3>2. first \o prefix \in Seq(Token) /\ Untrained(prefix) \in Seq(Item)
      BY MaskedType, ConcatProperties
    <3>3. /\ prompt_ids' = first \o prefix /\ current_traj_prompt_ids' = first /\ accumulated' = Untrained(prefix)
          /\ is_summarizing' = FALSE /\ summary_count' = summary_count + 1 /\ state' = "generating"
          /\ sum_instruction_ids' = sum_instruction_ids /\ overlong' = overlong
      BY <3>1 DEF NewContext, NextRound
    <3>4. summary_count' \in 0..MaxSummaryRounds
      BY <1>2, <3>3, Limits DEF Typed, ContextTypes
    <3>5. is_summarizing' \in BOOLEAN /\ Asking' /\ overlong' \in BOOLEAN
      BY <3>3, Zenon DEF Asking, Typed, TurnTypes
    <3>6. ContextTypes'
      BY <3>2, <3>3, <3>4, <3>5, Zenon DEF Typed, ContextTypes
    <3> QED
      BY <3>3, <3>5, <3>6
  <2> QED
    BY <2>1, <2>2, AuxiliaryIs
<1>7. TurnTypes'
  <2>1. tool_calls' \in Seq(Call) /\ assistant_turns' \in Nat /\ response_length' \in Nat /\ state' # "processing_tools"
    BY <1>2, <1>6 DEF Typed, TurnTypes
  <2> QED
    BY <1>1, <1>6, <2>1, Zenon DEF TurnTypes
<1>8. HistoryTypes'
  <2>1. state' \in {"generating", "processing_tools", "terminated", "over"} /\ state' # "processing_tools"
    BY <1>6
  <2> QED
    BY <1>2, <1>3, <1>5, <2>1 DEF Typed, HistoryTypes
<1> QED
  BY <1>6, <1>7, <1>8 DEF Typed

LEMMA ExecutedType ==
  ASSUME Typed, Executed
  PROVE  /\ ledger' \in Seq(Entry) /\ state = "processing_tools" /\ ~is_summarizing
         /\ method' = method /\ max_assistant_turns' = max_assistant_turns
         /\ response_length' = response_length /\ assistant_turns' = assistant_turns /\ tool_calls' = tool_calls
<1>1. PICK es \in Seq(Entry) : ledger' = ledger \o es
  BY ExecutedIs
<1>2. ledger' \in Seq(Entry)
  BY <1>1, ConcatProperties DEF Typed, HistoryTypes
<1> QED
  BY <1>2 DEF Executed, config, Typed, Asking

LEMMA OverflowIsTyped ==
  ASSUME Typed, Overflow
  PROVE  Typed'
<1> USE DEF OverflowSelected, OverflowSaved
<1>1. Executed /\ (OverflowSelected \/ \E len \in ToolLengths : OverflowSaved(len))
  BY OverflowIs
<1>2. /\ ledger' \in Seq(Entry) /\ state = "processing_tools" /\ ~is_summarizing
      /\ method' = method /\ max_assistant_turns' = max_assistant_turns
      /\ response_length' = response_length /\ assistant_turns' = assistant_turns /\ tool_calls' = tool_calls
  BY <1>1, ExecutedType
<1> DEFINE before == WithoutTurn(accumulated, response_length)
<1>3. accumulated \in Seq(Item) /\ before \in Seq(Item) /\ overlong \in BOOLEAN
  BY <1>2, WithoutTurnType DEF Typed, ContextTypes, TurnTypes
<1> HIDE DEF before
<1>4. generations' \in Seq(Sample) /\ Len(generations') \in Nat
  <2>1. generations' \in Seq(Sample)
    BY <1>1, <1>2, RollBackType DEF Typed, HistoryTypes
  <2> QED
    BY <2>1
<1>5. trajectory_outputs' \in Seq(SegmentType)
  <2>1. trajectory_outputs' = Saved(accumulated) \/ trajectory_outputs' = Saved(before) => trajectory_outputs' \in Seq(SegmentType)
    BY <1>3, SavedType
  <2>2. ASSUME NEW len \in ToolLengths, OverflowSaved(len)
        PROVE  trajectory_outputs' \in Seq(SegmentType)
    <3>1. accumulated \o Untrained(Tokens(Len(generations), "tool", len)) \in Seq(Item)
      BY ToolType
    <3> QED
      BY <2>2, <3>1, SavedType
  <2> QED
    BY <1>1, <2>1, <2>2 DEF before
<1>6. /\ ContextTypes' /\ Asking' /\ overlong' \in BOOLEAN
      /\ state' \in {"generating", "terminated"}
  <2>1. CASE Terminate(accumulated, TRUE)
    <3>1. overlong' = TRUE /\ state' = "terminated" /\ accumulated' = accumulated
          /\ UNCHANGED <<prompt_ids, current_traj_prompt_ids, sum_instruction_ids, is_summarizing, summary_count>>
      BY <2>1 DEF Terminate
    <3>2. overlong' \in BOOLEAN /\ state' \in {"generating", "terminated"}
      BY <3>1, Zenon
    <3>3. ContextTypes' /\ Asking'
      BY <1>2, <3>1 DEF Typed, ContextTypes, Asking
    <3> QED
      BY <3>2, <3>3
  <2>2. CASE MayCompress /\ Compressed(before)
    BY <1>2, <1>3, <1>4, <2>2, CompressedType
  <2> QED
    BY <1>1, <2>1, <2>2 DEF before
<1>7. turn_history' \in Nat /\ pending_turn' \in BOOLEAN
  <2>1. turn_history' = History /\ (pending_turn' = FALSE \/ pending_turn' = SumsLastTurn)
    BY DEF Overflow, OverflowSelecting, OverflowSaving
  <2>2. History \in Nat
    BY DEF History, Typed, TurnTypes
  <2>3. SumsLastTurn \in BOOLEAN
    BY DEF SumsLastTurn
  <2> QED
    BY <2>1, <2>2, <2>3, Zenon
<1>8. TurnTypes'
  <2>1. tool_calls' \in Seq(Call) /\ assistant_turns' \in Nat /\ response_length' \in Nat /\ state' # "processing_tools"
    BY <1>2, <1>6 DEF Typed, TurnTypes
  <2> QED
    BY <1>6, <1>7, <2>1, Zenon DEF TurnTypes
<1>9. HistoryTypes'
  <2>1. state' \in {"generating", "processing_tools", "terminated", "over"} /\ state' # "processing_tools"
    BY <1>6
  <2> QED
    BY <1>2, <1>4, <1>5, <2>1 DEF Typed, HistoryTypes
<1> QED
  BY <1>6, <1>8, <1>9 DEF Typed

LEMMA ObserveIsTyped ==
  ASSUME Typed, Observe
  PROVE  Typed'
<1>1. PICK len \in ToolLengths : Observe!(len)
  BY DEF Observe
<1> DEFINE tool == Tokens(Len(generations), "tool", len)
<1>2. Executed /\ UNCHANGED <<trajectory_outputs, generations>> /\ pending_turn' = SumsLastTurn
  BY <1>1
<1>3. /\ ledger' \in Seq(Entry) /\ state = "processing_tools" /\ ~is_summarizing
      /\ method' = method /\ max_assistant_turns' = max_assistant_turns
      /\ response_length' = response_length /\ assistant_turns' = assistant_turns /\ tool_calls' = tool_calls
  BY <1>2, ExecutedType
<1>4. /\ tool \in Seq(Token) /\ accumulated \o Untrained(tool) \in Seq(Item)
      /\ prompt_ids \o tool \in Seq(Token)
  <2>1. tool \in Seq(Token) /\ accumulated \o Untrained(tool) \in Seq(Item) /\ prompt_ids \in Seq(Token)
    BY ToolType DEF Typed, ContextTypes
  <2> HIDE DEF tool
  <2> QED
    BY <2>1, ConcatProperties
<1>5. /\ ContextTypes' /\ Asking' /\ overlong' = overlong
      /\ state' \in {"generating", "terminated"} /\ turn_history' \in {History, turn_history + 1}
  <2>1. CASE OverBudget(Len(accumulated) + len)
    <3>1. Terminate(accumulated, overlong) /\ turn_history' = History
      BY <1>1, <2>1
    <3>2. overlong' = overlong /\ state' = "terminated" /\ accumulated' = accumulated
          /\ UNCHANGED <<prompt_ids, current_traj_prompt_ids, sum_instruction_ids, is_summarizing, summary_count>>
      BY <3>1 DEF Terminate
    <3> QED
      BY <1>3, <3>1, <3>2 DEF Typed, ContextTypes, Asking
  <2>2. CASE ~OverBudget(Len(accumulated) + len)
    <3>1. /\ accumulated' = accumulated \o Untrained(tool) /\ prompt_ids' = prompt_ids \o tool
          /\ turn_history' = IF method = "full_observation" THEN turn_history + 1 ELSE History
          /\ state' = IF IsFinish(Calls) THEN "terminated" ELSE "generating"
          /\ UNCHANGED <<overlong, current_traj_prompt_ids, sum_instruction_ids, is_summarizing, summary_count>>
      BY <1>1, <2>2
    <3> HIDE DEF tool
    <3>2. ContextTypes' /\ Asking'
      BY <1>3, <1>4, <3>1 DEF Typed, ContextTypes, Asking
    <3> QED
      BY <3>1, <3>2
  <2> QED
    BY <2>1, <2>2
<1>6. TurnTypes'
  <2>1. turn_history' \in Nat
    <3>1. History \in Nat /\ turn_history + 1 \in Nat
      BY DEF History, Typed, TurnTypes
    <3> QED
      BY <1>5, <3>1
  <2>2. pending_turn' \in BOOLEAN /\ overlong' \in BOOLEAN
    <3>1. SumsLastTurn \in BOOLEAN /\ overlong \in BOOLEAN
      BY DEF SumsLastTurn, Typed, TurnTypes
    <3> QED
      BY <1>2, <1>5, <3>1, Zenon
  <2>3. tool_calls' \in Seq(Call) /\ assistant_turns' \in Nat /\ response_length' \in Nat /\ state' # "processing_tools"
    BY <1>3, <1>5 DEF Typed, TurnTypes
  <2> QED
    BY <2>1, <2>2, <2>3, Zenon DEF TurnTypes
<1>7. HistoryTypes'
  <2>1. state' \in {"generating", "processing_tools", "terminated", "over"} /\ state' # "processing_tools"
    BY <1>5
  <2> QED
    BY <1>2, <1>3, <2>1 DEF Typed, HistoryTypes
<1> QED
  BY <1>5, <1>6, <1>7 DEF Typed

LEMMA OutputIsTyped ==
  ASSUME Typed, Output
  PROVE  Typed'
<1>1. UNCHANGED <<config, response_length, assistant_turns, tool_calls, overlong, context, turns, ledger, generations>>
      /\ state = "terminated" /\ state' = "over"
  BY DEF Output
<1>2. accumulated \in Seq(Item) /\ trajectory_outputs \in Seq(SegmentType)
  BY DEF Typed, ContextTypes, HistoryTypes
<1>3. trajectory_outputs' \in Seq(SegmentType)
  <2>1. Append(trajectory_outputs, Segment(current_traj_prompt_ids, accumulated, TRUE)) \in Seq(SegmentType)
    BY <1>2, SavedType
  <2> QED
    BY <1>2, <2>1 DEF Output
<1>4. ContextTypes' /\ Asking'
  BY <1>1 DEF context, Typed, ContextTypes, Asking
<1>5. TurnTypes' /\ HistoryTypes'
  BY <1>1, <1>3 DEF config, turns, Typed, TurnTypes, HistoryTypes
<1> QED
  BY <1>4, <1>5 DEF Typed

LEMMA StutterIsTyped ==
  ASSUME Typed, UNCHANGED echoVars
  PROVE  Typed'
  BY DEF echoVars, context, config, turns, Typed, ContextTypes, Asking, TurnTypes, HistoryTypes

LEMMA TypedStep ==
  ASSUME Typed, [EchoNext]_echoVars
  PROVE  Typed'
  BY TurnIsTyped, CutOffIsTyped, AuxiliaryIsTyped, OverflowIsTyped, ObserveIsTyped, OutputIsTyped,
     StutterIsTyped DEF EchoNext

LEMMA TypedAlways == EchoSpec => []Typed
<1>1. EchoInit => Typed
  BY InitIsTyped
<1>2. Typed /\ [EchoNext]_echoVars => Typed'
  BY TypedStep
<1> QED
  BY <1>1, <1>2, PTL DEF EchoSpec

\* Every value the rollout keeps has its type, whatever the policy generates and
\* the tools answer, and a tool call is only executed within the response budget.
THEOREM EchoTypesHold == EchoSpec => []EchoTypeOK
<1>1. Typed => EchoTypeOK
  <2> SUFFICES ASSUME Typed PROVE EchoTypeOK
    OBVIOUS
  <2>1. {is_summarizing, overlong, pending_turn} \subseteq BOOLEAN
    BY Zenon DEF Typed, ContextTypes, TurnTypes
  <2> QED
    BY <2>1 DEF Typed, ContextTypes, TurnTypes, HistoryTypes, EchoTypeOK
<1> QED
  BY <1>1, TypedAlways, PTL

-----------------------------------------------------------------------------
(* A rollout is bounded                                                     *)

\* Each turn of a segment adds a policy token and a tool token.
SegmentTurns == (ResponseLength + 1) \div 2
Allowance(c) == c * (SegmentTurns + 1)

\* What the current segment has left of the generations allowed.
Bounded ==
  LET n == Len(generations)
      a == Allowance(summary_count)
  IN  /\ state = "generating" /\ ~is_summarizing =>
           n <= a \/ (Len(accumulated) < ResponseLength /\ 2 * (n - a) <= Len(accumulated))
      /\ state = "generating" /\ is_summarizing => n <= a + SegmentTurns
      /\ state = "processing_tools" => 2 * (n - a) <= Len(accumulated) + 1
      /\ state \in {"terminated", "over"} => n <= Allowance(MaxSummaryRounds) + SegmentTurns

LEMMA Allowances ==
  /\ SegmentTurns \in Nat /\ ResponseLength <= 2 * SegmentTurns /\ 2 * SegmentTurns <= ResponseLength + 1
  /\ \A c \in Nat : Allowance(c) \in Nat /\ Allowance(c + 1) = Allowance(c) + SegmentTurns + 1
  /\ \A c \in 0..MaxSummaryRounds : Allowance(c) <= Allowance(MaxSummaryRounds)
  /\ Allowance(MaxSummaryRounds) + SegmentTurns = (MaxSummaryRounds + 1) * SegmentTurns + MaxSummaryRounds
<1>1. ResponseLength \in Nat /\ MaxSummaryRounds \in Nat
  BY Limits
<1>2. SegmentTurns \in Nat /\ ResponseLength <= 2 * SegmentTurns /\ 2 * SegmentTurns <= ResponseLength + 1
  BY <1>1 DEF SegmentTurns
<1>3. \A x, y \in Nat : x * (y + 1) \in Nat /\ (x + 1) * (y + 1) = x * (y + 1) + y + 1 /\ x * (y + 1) + y = (x + 1) * y + x
  OBVIOUS
<1>4. \A x, y, z \in Nat : x <= z => x * (y + 1) <= z * (y + 1)
  <2> SUFFICES ASSUME NEW x \in Nat, NEW y \in Nat, NEW z \in Nat, x <= z
               PROVE  x * (y + 1) <= z * (y + 1)
    OBVIOUS
  <2>1. z - x \in Nat /\ z = x + (z - x)
    OBVIOUS
  <2>2. \A d, e \in Nat : (x + d) * e = x * e + d * e /\ d * e \in Nat /\ x * e \in Nat
    OBVIOUS
  <2>3. z * (y + 1) = x * (y + 1) + (z - x) * (y + 1) /\ (z - x) * (y + 1) \in Nat /\ x * (y + 1) \in Nat
    BY <2>1, <2>2
  <2> QED
    BY <2>3
<1>5. \A c \in 0..MaxSummaryRounds : Allowance(c) <= Allowance(MaxSummaryRounds)
  BY <1>1, <1>2, <1>4 DEF Allowance
<1>6. \A c \in Nat : Allowance(c) \in Nat /\ Allowance(c + 1) = Allowance(c) + SegmentTurns + 1
  BY <1>2, <1>3 DEF Allowance
<1>7. Allowance(MaxSummaryRounds) + SegmentTurns = (MaxSummaryRounds + 1) * SegmentTurns + MaxSummaryRounds
  BY <1>1, <1>2, <1>3 DEF Allowance
<1> QED
  BY <1>2, <1>5, <1>6, <1>7

\* Where the current segment stands.
LEMMA BoundedNow ==
  ASSUME Typed
  PROVE  /\ Len(generations) \in Nat /\ Len(accumulated) \in Nat
         /\ summary_count \in Nat /\ Allowance(summary_count) \in Nat
         /\ Allowance(NextRound) = Allowance(summary_count) + SegmentTurns + 1
         /\ Allowance(summary_count) <= Allowance(MaxSummaryRounds)
         /\ MayCompress => Allowance(NextRound) <= Allowance(MaxSummaryRounds)
         /\ Allowance(MaxSummaryRounds) \in Nat
<1>1. summary_count \in 0..MaxSummaryRounds /\ MaxSummaryRounds \in Nat
  BY Limits DEF Typed, ContextTypes
<1>2. MayCompress => NextRound \in 0..MaxSummaryRounds
  BY <1>1 DEF MayCompress, NextRound
<1>3. summary_count \in Nat
  BY <1>1
<1>4. Allowance(NextRound) = Allowance(summary_count) + SegmentTurns + 1
  BY <1>3, Allowances DEF NextRound
<1>5. MayCompress => Allowance(NextRound) <= Allowance(MaxSummaryRounds)
  BY <1>2, Allowances
<1>6. Allowance(summary_count) <= Allowance(MaxSummaryRounds) /\ Allowance(MaxSummaryRounds) \in Nat
      /\ Allowance(summary_count) \in Nat
  BY <1>1, <1>3, Allowances
<1>7. Len(generations) \in Nat /\ Len(accumulated) \in Nat
  BY DEF Typed, HistoryTypes, ContextTypes
<1> QED
  BY <1>3, <1>4, <1>5, <1>6, <1>7

\* A context that is compressed, or given up, has used at most its own share.
LEMMA CompressedIsBounded ==
  ASSUME Typed, ~is_summarizing, NEW before, Compressed(before), MayCompress,
         Len(generations') \in Nat, Len(generations') <= Allowance(summary_count) + SegmentTurns
  PROVE  Bounded'
<1>1. /\ Allowance(summary_count) \in Nat
      /\ Allowance(NextRound) = Allowance(summary_count) + SegmentTurns + 1
      /\ Allowance(summary_count) <= Allowance(MaxSummaryRounds)
      /\ Allowance(MaxSummaryRounds) \in Nat /\ SegmentTurns \in Nat
  BY BoundedNow, Allowances
<1>2. CASE Terminate(before, TRUE)
  <2>1. state' = "terminated"
    BY <1>2 DEF Terminate
  <2> QED
    BY <1>1, <2>1 DEF Bounded
<1>3. ASSUME NEW p, NewContext(p, p, <<>>) PROVE Bounded'
  <2>1. state' = "generating" /\ is_summarizing' = FALSE /\ summary_count' = NextRound
    BY <1>3 DEF NewContext
  <2>2. Len(generations') <= Allowance(summary_count')
    BY <1>1, <2>1
  <2> QED
    BY <2>1, <2>2 DEF Bounded
<1>4. CASE AskForCompression(before)
  <2>1. state' = "generating" /\ is_summarizing' = TRUE /\ summary_count' = summary_count
    BY <1>4 DEF AskForCompression
  <2> QED
    BY <2>1 DEF Bounded
<1> QED
  BY <1>2, <1>3, <1>4 DEF Compressed

LEMMA GenerationIsBounded ==
  ASSUME Typed, Bounded, state = "generating"
  PROVE  /\ Len(generations) + 1 <= Allowance(summary_count) + SegmentTurns + IF is_summarizing THEN 1 ELSE 0
         /\ ~is_summarizing =>
              2 * (Len(generations) + 1 - Allowance(summary_count)) <= Len(accumulated) + 2
<1>1. /\ Len(generations) \in Nat /\ Len(accumulated) \in Nat /\ Allowance(summary_count) \in Nat
      /\ SegmentTurns \in Nat /\ ResponseLength <= 2 * SegmentTurns /\ ResponseLength \in Nat \ {0}
      /\ 2 * SegmentTurns <= ResponseLength + 1
  BY BoundedNow, Allowances, Limits
<1>2. CASE is_summarizing
  BY <1>1, <1>2 DEF Bounded
<1>3. CASE ~is_summarizing
  <2>1. \/ Len(generations) <= Allowance(summary_count)
        \/ (Len(accumulated) < ResponseLength /\ 2 * (Len(generations) - Allowance(summary_count)) <= Len(accumulated))
    BY <1>3 DEF Bounded
  <2> QED
    BY <1>1, <1>3, <2>1
<1> QED
  BY <1>2, <1>3

LEMMA BoundedStep ==
  ASSUME Typed, Typed', Bounded, [EchoNext]_echoVars
  PROVE  Bounded'
<1> DEFINE n == Len(generations)
           a == Allowance(summary_count)
<1>1. /\ n \in Nat /\ Len(accumulated) \in Nat /\ a \in Nat
      /\ Allowance(NextRound) = a + SegmentTurns + 1
      /\ a <= Allowance(MaxSummaryRounds)
      /\ MayCompress => Allowance(NextRound) <= Allowance(MaxSummaryRounds)
      /\ Allowance(MaxSummaryRounds) \in Nat
      /\ SegmentTurns \in Nat /\ ResponseLength <= 2 * SegmentTurns
  BY BoundedNow, Allowances
<1> HIDE DEF a
<1>2. state = "generating" =>
        /\ n + 1 <= a + SegmentTurns + IF is_summarizing THEN 1 ELSE 0
        /\ ~is_summarizing => 2 * (n + 1 - a) <= Len(accumulated) + 2
  BY GenerationIsBounded DEF a
<1>3. ASSUME NEW fate \in Fates, Sampled(fate) PROVE Len(generations') = n + 1
  BY <1>3, SampledType
<1>4. CASE LastTurn \/ Turn
  <2>1. PICK reply \in Replies : Spoke(reply)
    BY <1>4, TurnIs
  <2>2. Len(generations') = n + 1
    BY <1>3, <2>1 DEF Spoke, Fates
  <2>3. /\ state = "generating" /\ ~is_summarizing /\ summary_count' = summary_count
        /\ Len(accumulated') = Len(accumulated) + Len(reply) /\ Len(reply) \in Nat \ {0}
        /\ state' \in {"terminated", "processing_tools"}
    BY <2>1, GeneratedType, ExtendedType, ReplyType DEF Spoke
  <2>4. state' = "processing_tools" => 2 * (n + 1 - a) <= Len(accumulated') + 1
    BY <1>1, <1>2, <2>3
  <2>5. n + 1 <= Allowance(MaxSummaryRounds) + SegmentTurns
    BY <1>1, <1>2, <2>3
  <2> QED
    <3>1. Allowance(summary_count') = a
      BY <2>3 DEF a
    <3>2. CASE state' = "terminated"
      BY <2>2, <2>5, <3>2 DEF Bounded
    <3>3. CASE state' = "processing_tools"
      <4>1. 2 * (Len(generations') - Allowance(summary_count')) <= Len(accumulated') + 1
        BY <1>1, <2>2, <2>4, <3>1, <3>3
      <4> QED
        BY <3>3, <4>1 DEF Bounded
    <3> QED
      BY <2>3, <3>2, <3>3
<1>5. CASE CutOff
  <2>1. PICK reply \in Replies : WasCutOff(reply)
    BY <1>5, CutOffIs
  <2>2. Len(generations') = n + 1 /\ state = "generating" /\ ~is_summarizing
    BY <1>3, <2>1, GeneratedType DEF WasCutOff, Fates
  <2>3. n + 1 <= a + SegmentTurns
    BY <1>1, <1>2, <2>2
  <2>4. CASE Terminate(Extended(reply), TRUE)
    <3>1. state' = "terminated"
      BY <2>4 DEF Terminate
    <3>2. n + 1 <= Allowance(MaxSummaryRounds) + SegmentTurns
      BY <1>1, <2>3
    <3> QED
      BY <2>2, <3>1, <3>2 DEF Bounded
  <2>5. CASE MayCompress /\ Compressed(accumulated)
    <3>1. Len(generations') \in Nat /\ Len(generations') <= Allowance(summary_count) + SegmentTurns
      BY <1>1, <2>2, <2>3 DEF a
    <3> QED
      BY <2>2, <2>5, <3>1, CompressedIsBounded
  <2> QED
    BY <2>1, <2>4, <2>5 DEF WasCutOff
<1>6. CASE Summarize \/ SelectTurns
  <2>1. AuxiliaryGeneration
    BY <1>6, AuxiliaryIs
  <2>2. Len(generations') = n + 1 /\ state = "generating" /\ is_summarizing /\ MayCompress
    BY <1>3, <2>1 DEF AuxiliaryGeneration, Fates, Typed, Asking, MayCompress
  <2>3. n + 1 <= a + SegmentTurns + 1
    BY <1>1, <1>2, <2>2
  <2>4. CASE state' = "terminated"
    BY <1>1, <2>2, <2>3, <2>4 DEF Bounded
  <2>5. ASSUME NEW p, NEW q, NEW r, NewContext(p, q, r) PROVE Bounded'
    <3>1. state' = "generating" /\ is_summarizing' = FALSE /\ summary_count' = NextRound
      BY <2>5 DEF NewContext
    <3>2. Len(generations') <= Allowance(summary_count')
      BY <1>1, <2>2, <2>3, <3>1
    <3> QED
      BY <3>1, <3>2 DEF Bounded
  <2> QED
    BY <1>6, <2>4, <2>5, AuxiliaryIs
<1>7. CASE Overflow
  <2>1. /\ Executed
        /\ OverflowSelected \/ \E len \in ToolLengths : OverflowSaved(len)
    BY <1>7, OverflowIs
  <2>2. state = "processing_tools" /\ ~is_summarizing /\ Len(accumulated) < ResponseLength
    BY <2>1 DEF Executed, Typed, Asking, TurnTypes
  <2>3. Len(generations') = n
    BY <2>1, <2>2, RollBackType DEF OverflowSelected, OverflowSaved
  <2>4. n <= a + SegmentTurns
    <3>1. 2 * (n - a) <= Len(accumulated) + 1
      BY <2>2 DEF Bounded, a
    <3> QED
      BY <1>1, <2>2, <3>1, Limits
  <2>5. CASE Terminate(accumulated, TRUE)
    <3>1. state' = "terminated"
      BY <2>5 DEF Terminate
    <3> QED
      BY <1>1, <2>3, <2>4, <3>1 DEF Bounded
  <2>6. CASE MayCompress /\ Compressed(WithoutTurn(accumulated, response_length))
    <3>1. Len(generations') \in Nat /\ Len(generations') <= Allowance(summary_count) + SegmentTurns
      BY <1>1, <2>3, <2>4 DEF a
    <3> QED
      BY <2>2, <2>6, <3>1, CompressedIsBounded
  <2> QED
    BY <2>1, <2>5, <2>6 DEF OverflowSelected, OverflowSaved
<1>8. CASE Observe
  <2>1. PICK len \in ToolLengths : Observe!(len)
    BY <1>8 DEF Observe
  <2>2. state = "processing_tools" /\ ~is_summarizing /\ Len(accumulated) < ResponseLength /\ Len(generations') = n
    BY <2>1 DEF Executed, Typed, Asking, TurnTypes
  <2>3. 2 * (n - a) <= Len(accumulated) + 1
    BY <2>2 DEF Bounded, a
  <2>4. n <= Allowance(MaxSummaryRounds) + SegmentTurns
    BY <1>1, <2>2, <2>3, Limits
  <2>5. CASE state' = "terminated"
    BY <2>2, <2>4, <2>5 DEF Bounded
  <2>6. CASE state' # "terminated"
    <3>1. /\ state' = "generating" /\ summary_count' = summary_count /\ ~OverBudget(Len(accumulated) + len)
          /\ accumulated' = accumulated \o Untrained(Tokens(Len(generations), "tool", len))
          /\ is_summarizing' = is_summarizing
      BY <2>1, <2>6 DEF Terminate
    <3>2. Len(accumulated') = Len(accumulated) + len /\ len \in Nat \ {0}
      BY <3>1, ToolType
    <3>3. Len(accumulated') < ResponseLength /\ 2 * (n - a) <= Len(accumulated')
      BY <1>1, <2>3, <3>1, <3>2, Limits DEF OverBudget
    <3> QED
      BY <2>2, <3>1, <3>3 DEF Bounded, a
  <2> QED
    BY <2>5, <2>6
<1>9. CASE Output
  BY <1>9 DEF Output, context, Bounded
<1>10. CASE UNCHANGED echoVars
  BY <1>10 DEF echoVars, context, Bounded
<1> QED
  BY <1>4, <1>5, <1>6, <1>7, <1>8, <1>9, <1>10 DEF EchoNext

\* Whatever the policy generates and the tools answer, the generations of a
\* rollout are bounded by its response budget and its compression rounds: each
\* pass of the loop in run of tool_agent_loop.py uses one or the other up.
THEOREM RolloutEnds == EchoSpec => []RolloutIsBounded
<1>1. EchoInit => Bounded
  <2> SUFFICES ASSUME EchoInit PROVE Bounded
    OBVIOUS
  <2>1. generations = <<>> /\ summary_count = 0 /\ state = "generating" /\ is_summarizing = FALSE
    BY DEF EchoInit
  <2>2. Len(generations) <= Allowance(summary_count)
    BY <2>1, Allowances
  <2> QED
    BY <2>1, <2>2 DEF Bounded
<1>2. Typed /\ Typed' /\ Bounded /\ [EchoNext]_echoVars => Bounded'
  BY BoundedStep
<1>3. Typed /\ Bounded => RolloutIsBounded
  <2> SUFFICES ASSUME Typed, Bounded PROVE RolloutIsBounded
    OBVIOUS
  <2>1. /\ Len(generations) \in Nat /\ Len(accumulated) \in Nat /\ Allowance(summary_count) \in Nat
        /\ Allowance(summary_count) <= Allowance(MaxSummaryRounds) /\ Allowance(MaxSummaryRounds) \in Nat
        /\ SegmentTurns \in Nat /\ ResponseLength <= 2 * SegmentTurns
    BY BoundedNow, Allowances
  <2>2. Len(generations) <= Allowance(MaxSummaryRounds) + SegmentTurns
    <3>1. CASE state = "generating" /\ ~is_summarizing
      BY <2>1, <3>1, Limits DEF Bounded
    <3>2. CASE state = "generating" /\ is_summarizing
      BY <2>1, <3>2 DEF Bounded
    <3>3. CASE state = "processing_tools"
      <4>1. Len(accumulated) < ResponseLength /\ 2 * (Len(generations) - Allowance(summary_count)) <= Len(accumulated) + 1
        BY <3>3 DEF Bounded, Typed, TurnTypes
      <4> QED
        BY <2>1, <4>1, Limits
    <3>4. CASE state \in {"terminated", "over"}
      BY <3>4 DEF Bounded
    <3> QED
      BY <3>1, <3>2, <3>3, <3>4 DEF Typed, HistoryTypes
  <2> QED
    BY <2>2, Allowances DEF RolloutIsBounded, SegmentTurns
<1> QED
  BY <1>1, <1>2, <1>3, TypedAlways, PTL DEF EchoSpec

-----------------------------------------------------------------------------
(* Segments and the ledger                                                  *)

LEMMA SavedIs ==
  ASSUME Typed, NEW r \in Seq(Item)
  PROVE  LET n == Len(trajectory_outputs) IN
         /\ n \in Nat
         /\ r = <<>> => Saved(r) = trajectory_outputs
         /\ r # <<>> => /\ Len(Saved(r)) = n + 1
                        /\ \A i \in 1..n : Saved(r)[i] = trajectory_outputs[i]
                        /\ Saved(r)[n + 1] = Segment(current_traj_prompt_ids, r, FALSE)
<1> DEFINE s == Segment(current_traj_prompt_ids, r, FALSE)
<1>1. trajectory_outputs \in Seq(SegmentType) /\ s \in SegmentType
  BY SavedType DEF Typed, HistoryTypes
<1>2. Saved(r) = IF r = <<>> THEN trajectory_outputs ELSE Append(trajectory_outputs, s)
  BY DEF Saved
<1> HIDE DEF s
<1>3. /\ Len(trajectory_outputs) \in Nat
      /\ Len(Append(trajectory_outputs, s)) = Len(trajectory_outputs) + 1
      /\ \A i \in 1..Len(trajectory_outputs) : Append(trajectory_outputs, s)[i] = trajectory_outputs[i]
      /\ Append(trajectory_outputs, s)[Len(trajectory_outputs) + 1] = s
  BY <1>1
<1> QED
  BY <1>2, <1>3 DEF s

LEMMA SummaryIs ==
  ASSUME Typed, NEW ids \in Seq(Token)
  PROVE  LET full == current_traj_prompt_ids \o Ids(accumulated) \o sum_instruction_ids
             new  == Segment(First(full, PromptLength), Untrained(Rest(full, PromptLength)) \o Trained(ids), FALSE)
             n    == Len(trajectory_outputs)
         IN  /\ n \in Nat /\ new \in SegmentType
             /\ WithSummary(ids) \in Seq(SegmentType) /\ Len(WithSummary(ids)) = n + 1
             /\ \A i \in 1..n : WithSummary(ids)[i] = trajectory_outputs[i]
             /\ WithSummary(ids)[n + 1] = new
<1> DEFINE full == current_traj_prompt_ids \o Ids(accumulated) \o sum_instruction_ids
           new  == Segment(First(full, PromptLength), Untrained(Rest(full, PromptLength)) \o Trained(ids), FALSE)
<1>1. full \in Seq(Token)
  BY IdsType, ConcatProperties DEF Typed, ContextTypes
<1>2. WithSummary(ids) = Append(trajectory_outputs, new)
  BY DEF WithSummary
<1> HIDE DEF full
<1>3. First(full, PromptLength) \in Seq(Token) /\ Rest(full, PromptLength) \in Seq(Token)
  BY <1>1, Limits, PartsType
<1>4. Untrained(Rest(full, PromptLength)) \o Trained(ids) \in Seq(Item)
  BY <1>3, MaskedType, ConcatProperties
<1>5. new \in SegmentType
  BY <1>3, <1>4 DEF Segment, SegmentType
<1> HIDE DEF new
<1>6. trajectory_outputs \in Seq(SegmentType)
  BY DEF Typed, HistoryTypes
<1>7. /\ Len(trajectory_outputs) \in Nat
      /\ WithSummary(ids) \in Seq(SegmentType) /\ Len(WithSummary(ids)) = Len(trajectory_outputs) + 1
      /\ \A i \in 1..Len(trajectory_outputs) : WithSummary(ids)[i] = trajectory_outputs[i]
      /\ WithSummary(ids)[Len(trajectory_outputs) + 1] = new
  BY <1>2, <1>5, <1>6
<1> QED
  BY <1>5, <1>7 DEF full, new

\* What a turn adds to the ledger are calls of that turn.
LEMMA LedgerGrows ==
  ASSUME Typed, Executed, NEW k \in DOMAIN ledger'
  PROVE  \/ k \in DOMAIN ledger /\ ledger'[k] = ledger[k]
         \/ \E j \in DOMAIN tool_calls :
              /\ ledger'[k].segment = tool_calls[j].segment /\ ledger'[k].at = tool_calls[j].at
              /\ ledger'[k].generation = Len(generations)
              /\ ledger'[k].kind = "submit" => IsFinish(Calls)
<1>1. PICK es \in Seq(Entry) :
        /\ ledger' = ledger \o es
        /\ \A i \in 1..Len(es) : \E j \in DOMAIN tool_calls :
             /\ es[i].kind = tool_calls[j].kind /\ es[i].segment = tool_calls[j].segment
             /\ es[i].at = tool_calls[j].at /\ es[i].generation = Len(generations)
             /\ es[i].kind = "submit" => IsFinish(Calls)
  BY ExecutedIs
<1>2. ledger \in Seq(Entry) /\ DOMAIN ledger = 1..Len(ledger) /\ Len(ledger) \in Nat /\ Len(es) \in Nat
  BY DEF Typed, HistoryTypes
<1>3. DOMAIN ledger' = 1..(Len(ledger) + Len(es))
  BY <1>1, <1>2
<1>4. CASE k <= Len(ledger)
  BY <1>1, <1>2, <1>3, <1>4
<1>5. CASE ~(k <= Len(ledger))
  <2>1. k - Len(ledger) \in 1..Len(es) /\ ledger'[k] = es[k - Len(ledger)]
    BY <1>1, <1>2, <1>3, <1>5
  <2> QED
    BY <1>1, <2>1
<1> QED
  BY <1>4, <1>5

-----------------------------------------------------------------------------
(* The final segment and the submit                                         *)

\* The submits under the bare name, after which the finish test ends the rollout.
Bare == {k \in DOMAIN ledger : ledger[k].kind = "submit"}

Running == state \in {"generating", "processing_tools"}

NoneSubmitted == Running => ~overlong /\ Bare = {}

CallsAreNew ==
  state = "processing_tools" =>
    accumulated # <<>> /\ \A i \in DOMAIN tool_calls : tool_calls[i].segment = Len(trajectory_outputs) + 1

SomethingLeft == state = "terminated" /\ ~overlong => accumulated # <<>>

SubmitIsLast ==
  \A k \in Bare :
    /\ ~overlong /\ ledger[k].generation = Len(generations)
    /\ ledger[k].segment = Len(trajectory_outputs) + IF state = "over" THEN 0 ELSE 1

FinalIsLast ==
  \A i \in DOMAIN trajectory_outputs :
    trajectory_outputs[i].final <=> state = "over" /\ i = Len(trajectory_outputs) /\ ~overlong

Submissions == NoneSubmitted /\ CallsAreNew /\ SomethingLeft /\ SubmitIsLast /\ FinalIsLast

\* Before the end no segment is final.
NotFinal == \A i \in DOMAIN trajectory_outputs : ~trajectory_outputs[i].final

LEMMA SavedNotFinal ==
  ASSUME Typed, NotFinal, NEW r \in Seq(Item), trajectory_outputs' = Saved(r)
  PROVE  NotFinal'
<1>1. trajectory_outputs \in Seq(SegmentType) /\ DOMAIN trajectory_outputs = 1..Len(trajectory_outputs)
  BY DEF Typed, HistoryTypes
<1>2. CASE r = <<>>
  BY <1>2, SavedIs DEF NotFinal
<1>3. CASE r # <<>>
  <2> DEFINE n == Len(trajectory_outputs)
  <2>1. /\ n \in Nat /\ Len(trajectory_outputs') = n + 1 /\ trajectory_outputs'[n + 1].final = FALSE
        /\ \A i \in 1..n : trajectory_outputs'[i] = trajectory_outputs[i]
    <3>1. /\ n \in Nat /\ Len(trajectory_outputs') = n + 1
          /\ trajectory_outputs'[n + 1] = Segment(current_traj_prompt_ids, r, FALSE)
          /\ \A i \in 1..n : trajectory_outputs'[i] = trajectory_outputs[i]
      BY <1>3, SavedIs
    <3> QED
      BY <3>1 DEF Segment
  <2>2. trajectory_outputs' \in Seq(SegmentType)
    BY SavedType
  <2>3. DOMAIN trajectory_outputs' = 1..(n + 1)
    BY <2>1, <2>2
  <2> QED
    BY <1>1, <2>1, <2>3 DEF NotFinal
<1> QED
  BY <1>2, <1>3

\* A step that compresses the context, or gives the rollout up, submits nothing.
LEMMA UnsubmittedIs ==
  ASSUME Bare' = {}, NotFinal', ~overlong,
         (state' = "generating" /\ overlong' = overlong) \/ (state' = "terminated" /\ overlong' = TRUE)
  PROVE  Submissions'
<1>1. NoneSubmitted' /\ CallsAreNew' /\ SomethingLeft' /\ SubmitIsLast'
  BY DEF NoneSubmitted, CallsAreNew, SomethingLeft, SubmitIsLast, Running
<1>2. FinalIsLast'
  BY DEF FinalIsLast, NotFinal
<1> QED
  BY <1>1, <1>2 DEF Submissions

LEMMA CompressedState ==
  ASSUME NEW before, Compressed(before)
  PROVE  (state' = "generating" /\ overlong' = overlong) \/ (state' = "terminated" /\ overlong' = TRUE)
  BY DEF Compressed, Terminate, NewContext, AskForCompression

LEMMA SubmissionsStep ==
  ASSUME Typed, Typed', Submissions, [EchoNext]_echoVars
  PROVE  Submissions'
<1>1. Running => ~overlong /\ Bare = {} /\ NotFinal
  BY DEF Submissions, NoneSubmitted, FinalIsLast, NotFinal, Running
<1>2. CASE LastTurn \/ Turn
  <2>1. PICK reply \in Replies : Spoke(reply)
    BY <1>2, TurnIs
  <2>2. /\ state = "generating" /\ ledger' = ledger /\ trajectory_outputs' = trajectory_outputs
        /\ overlong' = overlong /\ accumulated' = Extended(reply) /\ state' \in {"terminated", "processing_tools"}
    BY <2>1, GeneratedType DEF Spoke
  <2>3. accumulated' # <<>> /\ Extended(reply) \in Seq(Item) /\ Len(Extended(reply)) >= Len(reply)
    <3>1. Len(Extended(reply)) = Len(accumulated) + Len(reply) /\ Extended(reply) \in Seq(Item)
          /\ Len(accumulated) \in Nat /\ Len(reply) \in Nat \ {0}
      BY ExtendedType, ReplyType DEF Typed, ContextTypes
    <3>2. Len(Extended(reply)) > 0 /\ Len(Extended(reply)) >= Len(reply)
      BY <3>1
    <3>3. Len(<<>>) = 0
      OBVIOUS
    <3> QED
      BY <2>2, <3>1, <3>2, <3>3
  <2>4. CallsAreNew'
    <3> SUFFICES ASSUME state' = "processing_tools"
                 PROVE  \A i \in DOMAIN tool_calls' : tool_calls'[i].segment = Len(trajectory_outputs') + 1
      BY <2>3 DEF CallsAreNew
    <3>1. tool_calls' = CallsOf(reply, Extended(reply))
      BY <2>1 DEF Spoke
    <3>2. \A i \in DOMAIN CallsOf(reply, Extended(reply)) :
            CallsOf(reply, Extended(reply))[i].segment = Len(trajectory_outputs) + 1
      BY <2>3, CallsAre
    <3> QED
      BY <2>2, <3>1, <3>2
  <2>5. Bare' = {} /\ NotFinal' /\ ~overlong'
    BY <1>1, <2>2 DEF Running, Bare, NotFinal
  <2>6. NoneSubmitted' /\ SubmitIsLast'
    BY <2>5 DEF NoneSubmitted, SubmitIsLast
  <2>7. FinalIsLast'
    BY <2>2, <2>5 DEF FinalIsLast, NotFinal
  <2> QED
    BY <2>3, <2>4, <2>6, <2>7 DEF Submissions, SomethingLeft
<1>3. CASE CutOff
  <2>1. PICK reply \in Replies : WasCutOff(reply)
    BY <1>3, CutOffIs
  <2>2. state = "generating" /\ ledger' = ledger
    BY <2>1, GeneratedType DEF WasCutOff
  <2>3. Bare' = {} /\ ~overlong
    BY <1>1, <2>2 DEF Running, Bare
  <2>4. NotFinal'
    <3>1. accumulated \in Seq(Item) /\ NotFinal
      BY <1>1, <2>2 DEF Typed, ContextTypes, Running
    <3>2. trajectory_outputs' = trajectory_outputs \/ trajectory_outputs' = Saved(accumulated)
      BY <2>1 DEF WasCutOff
    <3> QED
      BY <3>1, <3>2, SavedNotFinal DEF NotFinal
  <2>5. (state' = "generating" /\ overlong' = overlong) \/ (state' = "terminated" /\ overlong' = TRUE)
    BY <2>1, CompressedState DEF WasCutOff, Terminate
  <2> QED
    BY <2>3, <2>4, <2>5, UnsubmittedIs
<1>4. CASE Summarize \/ SelectTurns
  <2>1. state = "generating" /\ ledger' = ledger
    BY <1>4, AuxiliaryIs DEF AuxiliaryGeneration
  <2>2. Bare' = {} /\ ~overlong /\ NotFinal
    BY <1>1, <2>1 DEF Running, Bare
  <2>3. (state' = "generating" /\ overlong' = overlong) \/ (state' = "terminated" /\ overlong' = TRUE)
    BY <1>4, AuxiliaryIs DEF NewContext
  <2>4. NotFinal'
    <3> DEFINE ids == Tokens(Generation, "policy", 1)
               n == Len(trajectory_outputs)
    <3>1. ids \in Seq(Token)
      <4>1. Generation \in Nat
        BY DEF Typed, HistoryTypes, Generation
      <4> QED
        BY <4>1, TokensType DEF Roles
    <3>2. trajectory_outputs' \in Seq(SegmentType) /\ DOMAIN trajectory_outputs' = 1..Len(trajectory_outputs')
          /\ DOMAIN trajectory_outputs = 1..n
      BY DEF Typed, HistoryTypes
    <3> HIDE DEF ids
    <3>3. CASE trajectory_outputs' = WithSummary(ids)
      <4>1. /\ n \in Nat /\ Len(trajectory_outputs') = n + 1 /\ trajectory_outputs'[n + 1].final = FALSE
            /\ \A i \in 1..n : trajectory_outputs'[i] = trajectory_outputs[i]
        <5> DEFINE full == current_traj_prompt_ids \o Ids(accumulated) \o sum_instruction_ids
                   new  == Segment(First(full, PromptLength), Untrained(Rest(full, PromptLength)) \o Trained(ids), FALSE)
        <5>1. /\ n \in Nat /\ Len(trajectory_outputs') = n + 1 /\ trajectory_outputs'[n + 1] = new
              /\ \A i \in 1..n : trajectory_outputs'[i] = trajectory_outputs[i]
          BY <3>1, <3>3, SummaryIs
        <5>2. new.final = FALSE
          BY DEF Segment
        <5> QED
          BY <5>1, <5>2
      <4> QED
        BY <2>2, <3>2, <4>1 DEF NotFinal
    <3>4. CASE trajectory_outputs' = WithSelection(ids)
      <4>1. CASE trajectory_outputs = <<>>
        BY <2>2, <3>4, <4>1 DEF WithSelection, NotFinal
      <4>2. CASE trajectory_outputs # <<>>
        <5>1. /\ n \in 1..n /\ Len(trajectory_outputs') = n
              /\ \A i \in 1..n : trajectory_outputs'[i].final = trajectory_outputs[i].final
          <6> DEFINE last == trajectory_outputs[n]
                     longer == last.response \o Untrained(sum_instruction_ids) \o Trained(ids)
                     new == [prompt |-> last.prompt, response |-> longer, final |-> last.final]
          <6>1. /\ n \in 1..n /\ Len(trajectory_outputs') = n
                /\ \A i \in 1..n : trajectory_outputs'[i] = IF i = n THEN new ELSE trajectory_outputs[i]
            BY <3>1, <3>4, <4>2, SelectionIs
          <6>2. new.final = last.final
            OBVIOUS
          <6> HIDE DEF new
          <6> QED
            BY <6>1, <6>2
        <5> QED
          BY <2>2, <3>2, <5>1 DEF NotFinal
      <4> QED
        BY <4>1, <4>2
    <3> QED
      BY <1>4, <3>3, <3>4, AuxiliaryIs DEF ids
  <2> QED
    BY <2>2, <2>3, <2>4, UnsubmittedIs
<1>5. CASE Overflow
  <2>1. /\ Executed /\ ~IsFinish(Calls)
        /\ OverflowSelected \/ \E len \in ToolLengths : OverflowSaved(len)
    BY <1>5, OverflowIs
  <2>2. state = "processing_tools" /\ ~overlong /\ Bare = {} /\ NotFinal
    BY <1>1, <2>1 DEF Executed, Running
  <2>3. Bare' = {}
    <3> SUFFICES ASSUME NEW k \in Bare' PROVE FALSE
      OBVIOUS
    <3>1. k \in DOMAIN ledger' /\ ledger'[k].kind = "submit"
      BY DEF Bare
    <3>2. k \in DOMAIN ledger /\ ledger'[k] = ledger[k]
      BY <2>1, <3>1, LedgerGrows
    <3> QED
      BY <2>2, <3>1, <3>2 DEF Bare
  <2>4. NotFinal'
    <3>1. accumulated \in Seq(Item) /\ WithoutTurn(accumulated, response_length) \in Seq(Item)
      BY <2>2, WithoutTurnType DEF Typed, ContextTypes
    <3>2. \A len \in ToolLengths : accumulated \o Untrained(Tokens(Len(generations), "tool", len)) \in Seq(Item)
      BY ToolType
    <3>3. \E r \in Seq(Item) : trajectory_outputs' = Saved(r)
      BY <2>1, <3>1, <3>2 DEF OverflowSelected, OverflowSaved
    <3> QED
      BY <2>2, <3>3, SavedNotFinal
  <2>5. (state' = "generating" /\ overlong' = overlong) \/ (state' = "terminated" /\ overlong' = TRUE)
    BY <2>1, CompressedState DEF OverflowSelected, OverflowSaved, Terminate
  <2> QED
    BY <2>2, <2>3, <2>4, <2>5, UnsubmittedIs
<1>6. CASE Observe
  <2>1. PICK len \in ToolLengths : Observe!(len)
    BY <1>6 DEF Observe
  <2>2. /\ Executed /\ trajectory_outputs' = trajectory_outputs /\ generations' = generations
        /\ overlong' = overlong /\ state' \in {"generating", "terminated"}
        /\ state' = "generating" => ~IsFinish(Calls)
    BY <2>1 DEF Terminate
  <2>3. state = "processing_tools" /\ ~overlong /\ Bare = {} /\ NotFinal
    BY <1>1, <2>2 DEF Executed, Running
  <2>4. ASSUME NEW k \in Bare'
        PROVE  /\ ledger'[k].generation = Len(generations) /\ ledger'[k].segment = Len(trajectory_outputs) + 1
               /\ IsFinish(Calls)
    <3>1. k \in DOMAIN ledger' /\ ledger'[k].kind = "submit"
      BY <2>4 DEF Bare
    <3>2. ~(k \in DOMAIN ledger /\ ledger'[k] = ledger[k])
      BY <2>3, <3>1 DEF Bare
    <3>3. \A j \in DOMAIN tool_calls : tool_calls[j].segment = Len(trajectory_outputs) + 1
      BY <2>3 DEF Submissions, CallsAreNew
    <3> QED
      BY <2>2, <3>1, <3>2, <3>3, LedgerGrows
  <2>5. NoneSubmitted' /\ SubmitIsLast'
    BY <2>2, <2>3, <2>4 DEF NoneSubmitted, SubmitIsLast, Running
  <2>6. SomethingLeft' /\ CallsAreNew'
    <3>1. accumulated # <<>>
      BY <2>3 DEF Submissions, CallsAreNew
    <3>2. accumulated' = accumulated \/ accumulated' = accumulated \o Untrained(Tokens(Len(generations), "tool", len))
      BY <2>1 DEF Terminate
    <3>3. accumulated' # <<>>
      <4> DEFINE longer == accumulated \o Untrained(Tokens(Len(generations), "tool", len))
      <4>1. Len(longer) = Len(accumulated) + len /\ len \in Nat \ {0} /\ Len(accumulated) \in Nat /\ longer \in Seq(Item)
        BY ToolType, Limits DEF Typed, ContextTypes
      <4> HIDE DEF longer
      <4>2. longer # <<>>
        BY <4>1
      <4> QED
        BY <3>1, <3>2, <4>2 DEF longer
    <3> QED
      BY <2>2, <3>3 DEF SomethingLeft, CallsAreNew
  <2>7. FinalIsLast'
    BY <2>2, <2>3 DEF FinalIsLast, NotFinal
  <2> QED
    BY <2>5, <2>6, <2>7 DEF Submissions
<1>7. CASE Output
  <2> DEFINE n == Len(trajectory_outputs)
             s == Segment(current_traj_prompt_ids, accumulated, TRUE)
  <2>1. /\ state = "terminated" /\ state' = "over" /\ overlong' = overlong /\ ledger' = ledger
        /\ generations' = generations /\ accumulated' = accumulated
    BY <1>7 DEF Output, context
  <2>2. trajectory_outputs \in Seq(SegmentType) /\ s \in SegmentType /\ s.final = TRUE /\ n \in Nat
        /\ DOMAIN trajectory_outputs = 1..n
    <3>1. s \in SegmentType
      BY SavedType DEF Typed, ContextTypes
    <3> QED
      BY <3>1 DEF Typed, HistoryTypes, Segment
  <2>3. NotFinal
    BY <2>1 DEF Submissions, FinalIsLast, NotFinal
  <2>4. NoneSubmitted' /\ CallsAreNew' /\ SomethingLeft'
    BY <2>1 DEF NoneSubmitted, CallsAreNew, SomethingLeft, Running
  <2>5. CASE overlong
    <3>1. trajectory_outputs' = trajectory_outputs
      BY <1>7, <2>5 DEF Output
    <3>2. Bare' = {}
      BY <2>1, <2>5 DEF Submissions, SubmitIsLast, Bare
    <3> QED
      BY <2>1, <2>3, <2>4, <2>5, <3>1, <3>2 DEF Submissions, SubmitIsLast, FinalIsLast, NotFinal
  <2>6. CASE ~overlong
    <3>1. trajectory_outputs' = Append(trajectory_outputs, s)
      BY <1>7, <2>1, <2>6 DEF Output, Submissions, SomethingLeft
    <3> HIDE DEF s
    <3>2. /\ Len(trajectory_outputs') = n + 1 /\ DOMAIN trajectory_outputs' = 1..(n + 1)
          /\ \A i \in 1..n : trajectory_outputs'[i] = trajectory_outputs[i]
          /\ trajectory_outputs'[n + 1] = s
      BY <2>2, <3>1
    <3>3. FinalIsLast'
      <4> SUFFICES ASSUME NEW i \in 1..(n + 1)
                   PROVE  trajectory_outputs'[i].final <=> i = n + 1
        BY <2>1, <2>6, <3>2 DEF FinalIsLast
      <4> QED
        BY <2>2, <2>3, <3>2 DEF NotFinal
    <3>4. SubmitIsLast'
      BY <2>1, <2>2, <3>2 DEF Submissions, SubmitIsLast, Bare
    <3> QED
      BY <2>4, <3>3, <3>4 DEF Submissions
  <2> QED
    BY <2>5, <2>6
<1>8. CASE UNCHANGED echoVars
  BY <1>8 DEF echoVars, context, Submissions, NoneSubmitted, CallsAreNew, SomethingLeft, SubmitIsLast, FinalIsLast,
              Running, Bare
<1> QED
  BY <1>2, <1>3, <1>4, <1>5, <1>6, <1>7, <1>8 DEF EchoNext

LEMMA OutputsAre ==
  ASSUME Typed
  PROVE  LET n == Len(trajectory_outputs) IN
         /\ n \in Nat /\ DOMAIN trajectory_outputs = 1..n /\ DOMAIN Outputs = 1..n /\ Len(Outputs) = n
         /\ \A i \in 1..n :
              LET s == trajectory_outputs[i]
                  o == Outputs[i]
              IN  /\ s.prompt \in Seq(Token) /\ s.response \in Seq(Item)
                  /\ o.final = s.final
                  /\ o.prompt = LastOnes(s.prompt, PromptLength)
                  /\ o.response = First(s.response, ResponseLength)
                  /\ o.response \in Seq(Item)
                  /\ \A p \in 1..Len(o.response) :
                       p \in 1..Len(s.response) /\ p <= ResponseLength /\ o.response[p] = s.response[p]
                  /\ \A p \in 1..Len(s.response) : p <= ResponseLength => p \in 1..Len(o.response)
<1> DEFINE n == Len(trajectory_outputs)
<1>1. trajectory_outputs \in Seq(SegmentType) /\ DOMAIN trajectory_outputs = 1..n /\ n \in Nat
  BY DEF Typed, HistoryTypes
<1>2. Outputs = [i \in 1..n |-> Truncated(trajectory_outputs[i])]
  BY <1>1 DEF Outputs
<1>3. DOMAIN Outputs = 1..n /\ Len(Outputs) = n
  BY <1>1, <1>2
<1>4. ASSUME NEW i \in 1..n
      PROVE  LET s == trajectory_outputs[i]
                 o == Outputs[i]
             IN  /\ s.prompt \in Seq(Token) /\ s.response \in Seq(Item)
                 /\ o.final = s.final
                 /\ o.prompt = LastOnes(s.prompt, PromptLength)
                 /\ o.response = First(s.response, ResponseLength)
                 /\ o.response \in Seq(Item)
                 /\ \A p \in 1..Len(o.response) :
                      p \in 1..Len(s.response) /\ p <= ResponseLength /\ o.response[p] = s.response[p]
                 /\ \A p \in 1..Len(s.response) : p <= ResponseLength => p \in 1..Len(o.response)
  <2> DEFINE s == trajectory_outputs[i]
             o == Outputs[i]
             r == First(s.response, ResponseLength)
  <2>1. s \in SegmentType
    BY <1>1
  <2>2. s.prompt \in Seq(Token) /\ s.response \in Seq(Item)
    BY <2>1 DEF SegmentType
  <2>3. o = Truncated(s)
    BY <1>2
  <2> HIDE DEF s, o
  <2>4. o.final = s.final /\ o.prompt = LastOnes(s.prompt, PromptLength) /\ o.response = r
    BY <2>3 DEF Truncated
  <2>5. /\ r \in Seq(Item) /\ Len(r) = (IF ResponseLength < Len(s.response) THEN ResponseLength ELSE Len(s.response))
        /\ \A p \in 1..Len(r) : r[p] = s.response[p]
    BY <2>2, Limits, PartsType, PartsAre
  <2>6. Len(s.response) \in Nat /\ ResponseLength \in Nat
    BY <2>2, Limits
  <2> HIDE DEF r
  <2>7. /\ \A p \in 1..Len(r) : p \in 1..Len(s.response) /\ p <= ResponseLength /\ r[p] = s.response[p]
        /\ \A p \in 1..Len(s.response) : p <= ResponseLength => p \in 1..Len(r)
    BY <2>5, <2>6
  <2> QED
    BY <2>2, <2>4, <2>5, <2>7 DEF s, o, r
<1> QED
  BY <1>1, <1>3, <1>4

LEMMA SubmissionsAlways == EchoSpec => []Submissions
<1>1. EchoInit => Submissions
  <2> SUFFICES ASSUME EchoInit PROVE Submissions
    OBVIOUS
  <2>1. state = "generating" /\ overlong = FALSE /\ ledger = <<>> /\ trajectory_outputs = <<>>
    BY DEF EchoInit
  <2>2. Bare = {} /\ DOMAIN trajectory_outputs = {}
    BY <2>1 DEF Bare
  <2> QED
    BY <2>1, <2>2 DEF Submissions, NoneSubmitted, CallsAreNew, SomethingLeft, SubmitIsLast, FinalIsLast, Running
<1>2. Typed /\ Typed' /\ Submissions /\ [EchoNext]_echoVars => Submissions'
  BY SubmissionsStep
<1> QED
  BY <1>1, <1>2, TypedAlways, PTL DEF EchoSpec

\* A rollout that is not overlong ends with its one final segment, an overlong
\* one has none, and a legal submit under the bare name lies in the final segment,
\* in the last generation, whatever else the policy replies (run of
\* tool_agent_loop.py appends the final segment; the hooks of
\* install_echo_hooks.py end the rollout after that name).
THEOREM SubmitEndsTheRollout == EchoSpec => []SubmitIsInTheFinalSegment
<1>1. ASSUME Typed, Submissions, Over PROVE SubmitIsInTheFinalSegment
  <2>1. /\ Len(Outputs) = Len(trajectory_outputs) /\ DOMAIN Outputs = DOMAIN trajectory_outputs
        /\ Len(trajectory_outputs) \in Nat
        /\ \A i \in DOMAIN Outputs : Outputs[i].final = trajectory_outputs[i].final
    BY <1>1, OutputsAre
  <2>2. \A i \in DOMAIN Outputs : Outputs[i].final <=> i = Len(Outputs) /\ ~overlong
    <3> SUFFICES ASSUME NEW i \in DOMAIN Outputs
                 PROVE  Outputs[i].final <=> i = Len(Outputs) /\ ~overlong
      OBVIOUS
    <3>1. trajectory_outputs[i].final <=> i = Len(trajectory_outputs) /\ ~overlong
      BY <1>1, <2>1 DEF Submissions, FinalIsLast, Over
    <3> QED
      BY <2>1, <3>1
  <2>3. \A k \in Bare :
          ~overlong /\ ledger[k].segment = Len(Outputs) /\ ledger[k].generation = Len(generations)
    <3> SUFFICES ASSUME NEW k \in Bare
                 PROVE  ~overlong /\ ledger[k].segment = Len(Outputs) /\ ledger[k].generation = Len(generations)
      OBVIOUS
    <3>1. /\ ~overlong /\ ledger[k].generation = Len(generations)
          /\ ledger[k].segment = Len(trajectory_outputs) + 0
      BY <1>1 DEF Submissions, SubmitIsLast, Over
    <3> QED
      BY <2>1, <3>1
  <2> QED
    BY <2>2, <2>3 DEF SubmitIsInTheFinalSegment, Bare
<1>2. Typed /\ Submissions => SubmitIsInTheFinalSegment
  BY <1>1 DEF SubmitIsInTheFinalSegment
<1> QED
  BY <1>2, TypedAlways, SubmissionsAlways, PTL

-----------------------------------------------------------------------------
(* The spans of the calls                                                   *)

\* Position at of the response r is a trained token of generation n.
Hit(r, at, n) == at \in 1..Len(r) /\ at <= ResponseLength /\ r[at].mask = 1 /\ r[at].id.of = n

InSegments(segments, e) ==
  e.segment \in 1..Len(segments) /\ Hit(segments[e.segment].response, e.at, e.generation)

InResponse(segments, r, e) == e.segment = Len(segments) + 1 /\ Hit(r, e.at, e.generation)

Filed(e) ==
  \/ overlong
  \/ InSegments(trajectory_outputs, e)
  \/ ~is_summarizing /\ state # "over" /\ InResponse(trajectory_outputs, accumulated, e)

WithoutSelection == method \in {"truncate", "summary"}

CallsHit ==
  state = "processing_tools" =>
    \A i \in DOMAIN tool_calls : Hit(accumulated, tool_calls[i].at, Len(generations))

Spanned ==
  WithoutSelection => CallsHit /\ \A k \in DOMAIN ledger : Filed(ledger[k])

LEMMA HitExtends ==
  ASSUME NEW r \in Seq(Item), NEW s \in Seq(Item), NEW at, NEW n, Hit(r, at, n)
  PROVE  Hit(r \o s, at, n)
<1>1. at \in 1..Len(r) /\ Len(r) \in Nat /\ Len(s) \in Nat
  BY DEF Hit
<1>2. Len(r \o s) = Len(r) + Len(s) /\ (r \o s)[at] = r[at]
  BY <1>1
<1> QED
  BY <1>1, <1>2 DEF Hit

\* Saving the response, or more than it, files what hits it.
LEMMA SavedFiles ==
  ASSUME Typed, NEW r \in Seq(Item), trajectory_outputs' = Saved(r), NEW e,
         \A at, n : Hit(accumulated, at, n) => Hit(r, at, n),
         InSegments(trajectory_outputs, e) \/ InResponse(trajectory_outputs, accumulated, e)
  PROVE  InSegments(trajectory_outputs', e)
<1> DEFINE n == Len(trajectory_outputs)
<1>1. CASE r = <<>>
  <2>1. ~InResponse(trajectory_outputs, accumulated, e)
    BY <1>1 DEF InResponse, Hit
  <2> QED
    BY <1>1, <2>1, SavedIs
<1>2. CASE r # <<>>
  <2>1. /\ n \in Nat /\ Len(trajectory_outputs') = n + 1
        /\ \A i \in 1..n : trajectory_outputs'[i] = trajectory_outputs[i]
        /\ trajectory_outputs'[n + 1] = Segment(current_traj_prompt_ids, r, FALSE)
    BY <1>2, SavedIs
  <2>2. trajectory_outputs'[n + 1].response = r
    BY <2>1 DEF Segment
  <2>3. CASE InSegments(trajectory_outputs, e)
    BY <2>1, <2>3 DEF InSegments
  <2>4. CASE InResponse(trajectory_outputs, accumulated, e)
    <3>1. e.segment = n + 1 /\ Hit(r, e.at, e.generation)
      BY <2>4 DEF InResponse
    <3> QED
      <4>2. n + 1 \in 1..(n + 1)
        BY <2>1
      <4>1. e.segment \in 1..Len(trajectory_outputs') /\ trajectory_outputs'[e.segment] = trajectory_outputs'[n + 1]
        <5> HIDE DEF n
        <5> QED
          BY <2>1, <3>1, <4>2
      <4> QED
        BY <2>2, <3>1, <4>1 DEF InSegments
  <2> QED
    BY <2>3, <2>4
<1> QED
  BY <1>1, <1>2

\* The calls of the turn that is executed hit its response.
LEMMA ExecutedAreFiled ==
  ASSUME Typed, Submissions, Spanned, WithoutSelection, Executed, ~overlong, NEW k \in DOMAIN ledger'
  PROVE  InSegments(trajectory_outputs, ledger'[k]) \/ InResponse(trajectory_outputs, accumulated, ledger'[k])
<1>1. CASE k \in DOMAIN ledger /\ ledger'[k] = ledger[k]
  BY <1>1 DEF Spanned, Filed
<1>2. ASSUME NEW j \in DOMAIN tool_calls,
             ledger'[k].segment = tool_calls[j].segment, ledger'[k].at = tool_calls[j].at,
             ledger'[k].generation = Len(generations)
      PROVE  InResponse(trajectory_outputs, accumulated, ledger'[k])
  <2>1. state = "processing_tools"
    BY DEF Executed
  <2>2. tool_calls[j].segment = Len(trajectory_outputs) + 1 /\ Hit(accumulated, tool_calls[j].at, Len(generations))
    BY <2>1 DEF Submissions, CallsAreNew, Spanned, CallsHit
  <2> QED
    BY <1>2, <2>2 DEF InResponse
<1> QED
  BY <1>1, <1>2, LedgerGrows

LEMMA SpannedStep ==
  ASSUME Typed, Typed', Submissions, Spanned, [EchoNext]_echoVars
  PROVE  Spanned'
<1>1. method' = method
  BY DEF EchoNext, echoVars, config, LastTurn, CutOff, Turn, Generated, Summarize, SelectTurns, AuxiliaryGeneration,
         Overflow, Observe, Executed, Output
<1> SUFFICES ASSUME WithoutSelection
             PROVE  CallsHit' /\ \A k \in DOMAIN ledger' : Filed(ledger[k])'
  BY <1>1 DEF Spanned, WithoutSelection
<1>2. accumulated \in Seq(Item) /\ ~SelectsTurns /\ method # "echo_e2e"
  BY DEF Typed, ContextTypes, WithoutSelection, SelectsTurns
<1>3. CallsHit /\ \A k \in DOMAIN ledger : Filed(ledger[k])
  BY DEF Spanned
<1>4. CASE LastTurn \/ Turn
  <2>1. PICK reply \in Replies : Spoke(reply)
    BY <1>4, TurnIs
  <2>2. /\ state = "generating" /\ ledger' = ledger /\ trajectory_outputs' = trajectory_outputs
        /\ overlong' = overlong /\ accumulated' = Extended(reply) /\ is_summarizing' = is_summarizing
        /\ state' \in {"terminated", "processing_tools"}
    BY <2>1, GeneratedType DEF Spoke
  <2> DEFINE spoken == Trained(Response(reply))
  <2>3. /\ accumulated' = accumulated \o spoken /\ spoken \in Seq(Item) /\ Len(spoken) = Len(reply)
        /\ Len(accumulated') = Len(accumulated) + Len(reply) /\ Len(reply) \in Nat /\ Len(accumulated) \in Nat
    BY <1>2, <2>2, ExtendedType, MaskedType, ReplyType
  <2>4. \A i \in 1..Len(reply) : spoken[i].mask = 1 /\ spoken[i].id.of = Len(generations) + 1
    <3>1. Generation \in Nat /\ Generation = Len(generations) + 1
      BY DEF Typed, HistoryTypes, Generation
    <3>2. \A i \in 1..Len(reply) : Response(reply)[i] = [of |-> Generation, role |-> "policy", at |-> i]
      BY <2>3, <3>1, TokensType DEF Response, Roles
    <3>3. \A i \in 1..Len(reply) : spoken[i] = [id |-> Response(reply)[i], mask |-> 1]
      BY ExtendedType, MaskedType
    <3> HIDE DEF spoken
    <3>4. \A i \in 1..Len(reply) : spoken[i].mask = 1 /\ spoken[i].id.of = Generation
      <4> SUFFICES ASSUME NEW i \in 1..Len(reply) PROVE spoken[i].mask = 1 /\ spoken[i].id.of = Generation
        OBVIOUS
      <4>1. spoken[i] = [id |-> Response(reply)[i], mask |-> 1]
        BY <3>3
      <4>2. Response(reply)[i] = [of |-> Generation, role |-> "policy", at |-> i]
        BY <3>2
      <4> QED
        BY <4>1, <4>2
    <3> QED
      BY <3>1, <3>4
  <2> HIDE DEF spoken
  <2>5. CallsHit'
    <3> SUFFICES ASSUME state' = "processing_tools", NEW i \in DOMAIN tool_calls'
                 PROVE  Hit(accumulated', tool_calls'[i].at, Len(generations'))
      BY DEF CallsHit
    <3>1. tool_calls' = CallsOf(reply, Extended(reply)) /\ Len(accumulated') < ResponseLength
      BY <2>1, <2>2 DEF Spoke
    <3>2. PICK k \in 1..Len(reply) : tool_calls'[i].at = Len(accumulated') - Len(reply) + k
      <4>1. Len(Extended(reply)) >= Len(reply) /\ Extended(reply) \in Seq(Item)
        <5>1. Extended(reply) \in Seq(Item) /\ Len(Extended(reply)) = Len(accumulated) + Len(reply)
          BY ExtendedType
        <5> QED
          BY <2>3, <5>1
      <4> QED
        BY <2>2, <3>1, <4>1, CallsAre
    <3>3. tool_calls'[i].at = Len(accumulated) + k /\ Len(accumulated) + k \in 1..Len(accumulated')
      BY <2>3, <3>2
    <3>4. accumulated'[Len(accumulated) + k] = spoken[k]
      BY <1>2, <2>3
    <3>5. Len(generations') = Len(generations) + 1
      BY <2>1, SampledType DEF Spoke, Fates
    <3>6. Len(accumulated) + k <= ResponseLength
      BY <2>3, <3>1, <3>3, Limits
    <3> QED
      BY <2>4, <3>3, <3>4, <3>5, <3>6 DEF Hit
  <2>6. ASSUME NEW k \in DOMAIN ledger' PROVE Filed(ledger[k])'
    <3>1. Filed(ledger[k])
      BY <1>3, <2>2, <2>6
    <3> QED
      BY <1>2, <2>2, <2>3, <3>1, HitExtends DEF Filed, InResponse
  <2> QED
    BY <2>5, <2>6
<1>5. CASE CutOff
  <2>1. PICK reply \in Replies : WasCutOff(reply)
    BY <1>5, CutOffIs
  <2>2. ledger' = ledger /\ state' # "processing_tools"
    BY <2>1, GeneratedType, CompressedState DEF WasCutOff, Terminate
  <2>3. CASE Terminate(Extended(reply), TRUE)
    BY <2>2, <2>3 DEF Terminate, CallsHit, Filed
  <2>4. CASE trajectory_outputs' = Saved(accumulated) /\ Compressed(accumulated)
    <3>1. ASSUME NEW k \in DOMAIN ledger' PROVE Filed(ledger[k])'
      <4>1. Filed(ledger[k])
        BY <1>3, <2>2, <3>1
      <4>2. overlong => overlong'
        BY <2>4, CompressedState
      <4> QED
        BY <1>2, <2>2, <2>4, <4>1, <4>2, SavedFiles DEF Filed
    <3> QED
      BY <2>2, <3>1 DEF CallsHit
  <2> QED
    BY <2>1, <2>3, <2>4 DEF WasCutOff
<1>6. CASE Summarize \/ SelectTurns
  <2> DEFINE ids == Tokens(Generation, "policy", 1)
  <2>1. /\ AuxiliaryGeneration /\ trajectory_outputs' = WithSummary(ids)
    BY <1>2, <1>6, AuxiliaryIs
  <2>2. ledger' = ledger /\ is_summarizing
    BY <2>1 DEF AuxiliaryGeneration
  <2>3. state' # "processing_tools" /\ (overlong => overlong')
    <3>1. (state' = "generating" /\ overlong' = overlong) \/ (state' = "terminated" /\ overlong' = TRUE)
      BY <1>6, AuxiliaryIs DEF NewContext
    <3> QED
      BY <3>1
  <2>4. /\ Len(trajectory_outputs') = Len(trajectory_outputs) + 1 /\ Len(trajectory_outputs) \in Nat
        /\ \A i \in 1..Len(trajectory_outputs) : trajectory_outputs'[i] = trajectory_outputs[i]
    <3>1. ids \in Seq(Token)
      <4>1. Generation \in Nat
        BY DEF Typed, HistoryTypes, Generation
      <4> QED
        BY <4>1, TokensType DEF Roles
    <3> HIDE DEF ids
    <3> QED
      BY <2>1, <3>1, SummaryIs
  <2>5. ASSUME NEW k \in DOMAIN ledger' PROVE Filed(ledger[k])'
    <3>1. overlong \/ InSegments(trajectory_outputs, ledger[k])
      BY <1>3, <2>2, <2>5 DEF Filed
    <3> QED
      BY <2>2, <2>3, <2>4, <3>1 DEF Filed, InSegments
  <2> QED
    BY <2>3, <2>5 DEF CallsHit
<1>7. CASE Overflow
  <2>1. Executed /\ \E len \in ToolLengths : OverflowSaved(len)
    BY <1>2, <1>7, OverflowIs DEF OverflowSelected
  <2>2. PICK len \in ToolLengths : OverflowSaved(len)
    BY <2>1
  <2> DEFINE u == Untrained(Tokens(Len(generations), "tool", len))
  <2>3. state' # "processing_tools"
    BY <2>2, CompressedState DEF OverflowSaved, Terminate
  <2>4. ~overlong
    BY <2>1 DEF Executed, Submissions, NoneSubmitted, Running
  <2>5. u \in Seq(Item) /\ accumulated \o u \in Seq(Item) /\ trajectory_outputs' = Saved(accumulated \o u)
    <3>1. Tokens(Len(generations), "tool", len) \in Seq(Token)
      BY ToolType
    <3> QED
      BY <2>2, <3>1, ToolType, MaskedType DEF OverflowSaved
  <2> HIDE DEF u
  <2>6. ASSUME NEW k \in DOMAIN ledger' PROVE Filed(ledger[k])'
    <3>1. InSegments(trajectory_outputs, ledger'[k]) \/ InResponse(trajectory_outputs, accumulated, ledger'[k])
      BY <2>1, <2>4, <2>6, ExecutedAreFiled
    <3>2. \A at, n : Hit(accumulated, at, n) => Hit(accumulated \o u, at, n)
      BY <1>2, <2>5, HitExtends
    <3>3. InSegments(trajectory_outputs', ledger'[k])
      BY <2>5, <3>1, <3>2, SavedFiles
    <3> QED
      BY <3>3 DEF Filed
  <2> QED
    BY <2>3, <2>6 DEF CallsHit
<1>8. CASE Observe
  <2>1. PICK len \in ToolLengths : Observe!(len)
    BY <1>8 DEF Observe
  <2> DEFINE u == Untrained(Tokens(Len(generations), "tool", len))
  <2>2. /\ Executed /\ trajectory_outputs' = trajectory_outputs /\ is_summarizing' = is_summarizing
        /\ overlong' = overlong /\ state' \in {"generating", "terminated"}
        /\ accumulated' = accumulated \/ accumulated' = accumulated \o u
    BY <2>1 DEF Terminate
  <2>3. ~overlong /\ ~is_summarizing
    BY <2>2 DEF Executed, Submissions, NoneSubmitted, Running, Typed, Asking
  <2>4. u \in Seq(Item)
    <3>1. Tokens(Len(generations), "tool", len) \in Seq(Token)
      BY ToolType
    <3> QED
      BY <3>1, MaskedType
  <2> HIDE DEF u
  <2>5. ASSUME NEW k \in DOMAIN ledger' PROVE Filed(ledger[k])'
    <3>1. InSegments(trajectory_outputs, ledger'[k]) \/ InResponse(trajectory_outputs, accumulated, ledger'[k])
      BY <2>2, <2>3, <2>5, ExecutedAreFiled
    <3>2. \A at, n : Hit(accumulated, at, n) => Hit(accumulated', at, n)
      BY <1>2, <2>2, <2>4, HitExtends
    <3> QED
      BY <2>2, <2>3, <3>1, <3>2 DEF Filed, InResponse
  <2> QED
    BY <2>2, <2>5 DEF CallsHit
<1>9. CASE Output
  <2> DEFINE n == Len(trajectory_outputs)
             s == Segment(current_traj_prompt_ids, accumulated, TRUE)
  <2>1. /\ state = "terminated" /\ state' = "over" /\ overlong' = overlong /\ ledger' = ledger
    BY <1>9 DEF Output
  <2>2. CASE overlong
    BY <2>1, <2>2 DEF Filed, CallsHit
  <2>3. CASE ~overlong
    <3>1. trajectory_outputs' = Append(trajectory_outputs, s)
      BY <1>9, <2>1, <2>3 DEF Output, Submissions, SomethingLeft
    <3>2. trajectory_outputs \in Seq(SegmentType) /\ s \in SegmentType /\ s.response = accumulated
      <4>1. s \in SegmentType
        BY <1>2, SavedType
      <4> QED
        BY <4>1 DEF Typed, HistoryTypes, Segment
    <3> HIDE DEF s
    <3>3. /\ n \in Nat /\ Len(trajectory_outputs') = n + 1
          /\ \A i \in 1..n : trajectory_outputs'[i] = trajectory_outputs[i]
          /\ trajectory_outputs'[n + 1] = s
      BY <3>1, <3>2
    <3>4. ASSUME NEW k \in DOMAIN ledger' PROVE Filed(ledger[k])'
      <4>1. InSegments(trajectory_outputs, ledger[k]) \/ InResponse(trajectory_outputs, accumulated, ledger[k])
        BY <1>3, <2>1, <2>3, <3>4 DEF Filed
      <4>2. InSegments(trajectory_outputs', ledger[k])
        BY <3>2, <3>3, <4>1 DEF InSegments, InResponse
      <4> QED
        BY <2>1, <4>2 DEF Filed
    <3> QED
      BY <2>1, <3>4 DEF CallsHit
  <2> QED
    BY <2>2, <2>3
<1>10. CASE UNCHANGED echoVars
  BY <1>3, <1>10 DEF echoVars, context, CallsHit, Filed
<1> QED
  BY <1>4, <1>5, <1>6, <1>7, <1>8, <1>9, <1>10 DEF EchoNext

\* When a rollout of a method without selections ends without being overlong,
\* under whatever names it submitted, every legal call has its span on a trained
\* token of its own turn, in a segment that the trainer receives: build_token_masks
\* of credit.py misses no call.
THEOREM MasksAreBuilt == EchoSpec => []MasksCanBeBuilt
<1>1. EchoInit => Spanned
  BY DEF EchoInit, Spanned, CallsHit, Filed
<1>2. Typed /\ Typed' /\ Submissions /\ Spanned /\ [EchoNext]_echoVars => Spanned'
  BY SpannedStep
<1>3. Typed /\ Spanned => MasksCanBeBuilt
  <2> SUFFICES ASSUME Typed, Spanned, Over, ~overlong, WithoutSelection,
                      NEW k \in DOMAIN ledger
               PROVE  /\ ledger[k].segment \in DOMAIN Outputs
                      /\ ledger[k].at \in DOMAIN Outputs[ledger[k].segment].response
                      /\ LET token == Outputs[ledger[k].segment].response[ledger[k].at] IN
                         token.mask = 1 /\ token.id.of = ledger[k].generation
    <3>1. ToSet(ledger) = {ledger[k] : k \in DOMAIN ledger}
      BY DEF ToSet
    <3> QED
      BY <3>1 DEF MasksCanBeBuilt, WithoutSelection
  <2> DEFINE e == ledger[k]
             r == trajectory_outputs[e.segment].response
             o == Outputs[e.segment].response
  <2>2. InSegments(trajectory_outputs, e)
    BY DEF Spanned, Filed, Over
  <2>3. e.segment \in 1..Len(trajectory_outputs) /\ Hit(r, e.at, e.generation)
    BY <2>2 DEF InSegments
  <2>4. /\ DOMAIN Outputs = 1..Len(trajectory_outputs) /\ o \in Seq(Item)
        /\ \A p \in 1..Len(o) : o[p] = r[p]
        /\ \A p \in 1..Len(r) : p <= ResponseLength => p \in 1..Len(o)
    BY <2>3, OutputsAre
  <2> HIDE DEF e, r
  <2>5. e.at \in 1..Len(o) /\ o[e.at].mask = 1 /\ o[e.at].id.of = e.generation
    BY <2>3, <2>4 DEF Hit
  <2>6. DOMAIN o = 1..Len(o)
    BY <2>4
  <2> QED
    BY <2>3, <2>4, <2>5, <2>6 DEF e, r
<1> QED
  BY <1>1, <1>2, <1>3, TypedAlways, SubmissionsAlways, PTL DEF EchoSpec

-----------------------------------------------------------------------------
(* The trained tokens                                                       *)

TrainedIds(r) == {r[p].id : p \in {p \in 1..Len(r) : r[p].mask = 1}}
Unrepeated(r) == \A p, q \in 1..Len(r) : r[p].mask = 1 /\ r[q].mask = 1 /\ r[p].id = r[q].id => p = q

IdsOf(segments) == UNION {TrainedIds(segments[i].response) : i \in 1..Len(segments)}

Apart(segments) ==
  /\ \A i, j \in 1..Len(segments) :
       i # j => TrainedIds(segments[i].response) \cap TrainedIds(segments[j].response) = {}
  /\ \A i \in 1..Len(segments) : Unrepeated(segments[i].response)

Uses(ids, n) == \E id \in ids : id.of = n

LEMMA TrainedConcat ==
  ASSUME NEW r \in Seq(Item), NEW s \in Seq(Item)
  PROVE  /\ TrainedIds(r \o s) = TrainedIds(r) \cup TrainedIds(s)
         /\ Unrepeated(r) /\ Unrepeated(s) /\ TrainedIds(r) \cap TrainedIds(s) = {} => Unrepeated(r \o s)
<1> DEFINE t == r \o s
           m == Len(r)
           k == Len(s)
<1>1. m \in Nat /\ k \in Nat /\ Len(t) = m + k
  OBVIOUS
<1>2. \A p \in 1..m : t[p] = r[p]
  OBVIOUS
<1>3. \A p \in 1..k : t[m + p] = s[p]
  OBVIOUS
<1> HIDE DEF t, m, k
<1>4. \A p \in 1..(m + k) : p \in 1..m \/ (p - m \in 1..k /\ p = m + (p - m))
  BY <1>1
<1>5. \A p \in 1..m : p \in 1..(m + k)
  BY <1>1
<1>6. \A p \in 1..k : m + p \in 1..(m + k)
  BY <1>1
<1>7. TrainedIds(t) \subseteq TrainedIds(r) \cup TrainedIds(s)
  <2> SUFFICES ASSUME NEW p \in 1..(m + k), t[p].mask = 1
               PROVE  t[p].id \in TrainedIds(r) \cup TrainedIds(s)
    BY <1>1 DEF TrainedIds
  <2>1. CASE p \in 1..m
    BY <1>2, <2>1 DEF TrainedIds, m
  <2>2. CASE p - m \in 1..k /\ p = m + (p - m)
    <3>1. t[p] = s[p - m]
      BY <1>3, <2>2
    <3> QED
      BY <2>2, <3>1 DEF TrainedIds, k
  <2> QED
    BY <1>4, <2>1, <2>2
<1>8. TrainedIds(r) \cup TrainedIds(s) \subseteq TrainedIds(t)
  <2>1. ASSUME NEW p \in 1..m, r[p].mask = 1 PROVE r[p].id \in TrainedIds(t)
    BY <1>1, <1>2, <1>5, <2>1 DEF TrainedIds
  <2>2. ASSUME NEW p \in 1..k, s[p].mask = 1 PROVE s[p].id \in TrainedIds(t)
    <3>1. t[m + p] = s[p] /\ m + p \in 1..Len(t)
      BY <1>1, <1>3, <1>6
    <3> QED
      BY <2>2, <3>1 DEF TrainedIds
  <2> QED
    BY <2>1, <2>2 DEF TrainedIds, m, k
<1>9. ASSUME Unrepeated(r), Unrepeated(s), TrainedIds(r) \cap TrainedIds(s) = {}
      PROVE  Unrepeated(t)
  <2> SUFFICES ASSUME NEW p \in 1..(m + k), NEW q \in 1..(m + k), t[p].mask = 1, t[q].mask = 1, t[p].id = t[q].id
               PROVE  p = q
    BY <1>1 DEF Unrepeated
  <2>1. ASSUME NEW i \in 1..m, NEW j \in 1..k, r[i].mask = 1, s[j].mask = 1 PROVE r[i].id # s[j].id
    BY <1>9, <2>1 DEF TrainedIds, m, k
  <2>2. CASE p \in 1..m /\ q \in 1..m
    BY <1>2, <1>9, <2>2 DEF Unrepeated, m
  <2>3. CASE p \in 1..m /\ q - m \in 1..k /\ q = m + (q - m)
    <3>1. t[p] = r[p] /\ t[q] = s[q - m]
      BY <1>2, <1>3, <2>3
    <3> QED
      BY <2>1, <2>3, <3>1
  <2>4. CASE q \in 1..m /\ p - m \in 1..k /\ p = m + (p - m)
    <3>1. t[q] = r[q] /\ t[p] = s[p - m]
      BY <1>2, <1>3, <2>4
    <3> QED
      BY <2>1, <2>4, <3>1
  <2>5. CASE p - m \in 1..k /\ p = m + (p - m) /\ q - m \in 1..k /\ q = m + (q - m)
    <3>1. t[p] = s[p - m] /\ t[q] = s[q - m]
      BY <1>3, <2>5
    <3>2. p - m = q - m
      BY <1>9, <2>5, <3>1 DEF Unrepeated, k
    <3> QED
      BY <1>1, <2>5, <3>2
  <2> QED
    BY <1>4, <2>2, <2>3, <2>4, <2>5
<1> QED
  BY <1>7, <1>8, <1>9 DEF t

LEMMA MaskedIds ==
  ASSUME NEW ids \in Seq(Token)
  PROVE  TrainedIds(Untrained(ids)) = {} /\ Unrepeated(Untrained(ids))
<1>1. Len(Untrained(ids)) = Len(ids) /\ \A i \in 1..Len(ids) : Untrained(ids)[i].mask = 0
  <2> SUFFICES ASSUME NEW i \in 1..Len(ids) PROVE Untrained(ids)[i].mask = 0
    BY MaskedType
  <2>1. Untrained(ids)[i] = [id |-> ids[i], mask |-> 0]
    BY MaskedType
  <2> QED
    BY <2>1
<1> QED
  BY <1>1 DEF TrainedIds, Unrepeated

\* What a generation adds is its own and does not repeat.
LEMMA SpokenIds ==
  ASSUME NEW n \in Nat, NEW len \in Nat \ {0}
  PROVE  LET ids == Trained(Tokens(n, "policy", len)) IN
         /\ ids \in Seq(Item) /\ Len(ids) = len
         /\ \A i \in 1..len : ids[i].mask = 1 /\ ids[i].id = [of |-> n, role |-> "policy", at |-> i]
         /\ Unrepeated(ids)
         /\ TrainedIds(ids) # {} /\ \A id \in TrainedIds(ids) : id.of = n
<1> DEFINE tokens == Tokens(n, "policy", len)
           ids == Trained(tokens)
<1>1. /\ tokens \in Seq(Token) /\ Len(tokens) = len
      /\ \A i \in 1..len : tokens[i] = [of |-> n, role |-> "policy", at |-> i]
  BY TokensType DEF Roles
<1> HIDE DEF tokens
<1>2. /\ ids \in Seq(Item) /\ Len(ids) = len
      /\ \A i \in 1..len : ids[i] = [id |-> tokens[i], mask |-> 1]
  BY <1>1, MaskedType
<1> HIDE DEF ids
<1>3. ASSUME NEW i \in 1..len PROVE ids[i].mask = 1 /\ ids[i].id = [of |-> n, role |-> "policy", at |-> i]
  <2>1. ids[i] = [id |-> tokens[i], mask |-> 1] /\ tokens[i] = [of |-> n, role |-> "policy", at |-> i]
    BY <1>1, <1>2
  <2> QED
    BY <2>1
<1>4. ASSUME NEW i \in 1..len PROVE ids[i].id.of = n /\ ids[i].id.at = i
  <2>1. ids[i].id = [of |-> n, role |-> "policy", at |-> i]
    BY <1>3
  <2> QED
    BY <2>1
<1>5. Unrepeated(ids)
  BY <1>2, <1>4 DEF Unrepeated
<1>6. 1 \in 1..len
  OBVIOUS
<1>7. TrainedIds(ids) # {}
  <2>1. ids[1].id \in TrainedIds(ids)
    BY <1>2, <1>3, <1>6 DEF TrainedIds
  <2> QED
    BY <2>1
<1>8. \A id \in TrainedIds(ids) : id.of = n
  BY <1>2, <1>4 DEF TrainedIds
<1> QED
  BY <1>2, <1>3, <1>5, <1>7, <1>8 DEF ids, tokens

\* A segment with tokens that are not trained on elsewhere is added.
LEMMA OneSegmentMore ==
  ASSUME NEW segments, NEW new, NEW n \in Nat, Len(segments) = n, Len(new) = n + 1,
         \A i \in 1..n : new[i] = segments[i],
         Apart(segments), Unrepeated(new[n + 1].response),
         IdsOf(segments) \cap TrainedIds(new[n + 1].response) = {}
  PROVE  Apart(new) /\ IdsOf(new) = IdsOf(segments) \cup TrainedIds(new[n + 1].response)
<1>1. \A i \in 1..(n + 1) : i \in 1..n \/ i = n + 1
  OBVIOUS
<1>2. \A i \in 1..n : i \in 1..(n + 1) /\ i # n + 1
  OBVIOUS
<1>3. n + 1 \in 1..(n + 1)
  OBVIOUS
<1>4. \A i \in 1..n : TrainedIds(segments[i].response) \subseteq IdsOf(segments)
  BY DEF IdsOf
<1>5. IdsOf(new) = IdsOf(segments) \cup TrainedIds(new[n + 1].response)
  <2>1. IdsOf(new) = UNION {TrainedIds(new[i].response) : i \in 1..(n + 1)}
    BY DEF IdsOf
  <2>2. IdsOf(segments) = UNION {TrainedIds(new[i].response) : i \in 1..n}
    BY DEF IdsOf
  <2> QED
    BY <1>1, <1>2, <1>3, <2>1, <2>2
<1>6. ASSUME NEW i \in 1..(n + 1), NEW j \in 1..(n + 1), i # j
      PROVE  TrainedIds(new[i].response) \cap TrainedIds(new[j].response) = {}
  <2>1. CASE i \in 1..n /\ j \in 1..n
    <3>1. new[i] = segments[i] /\ new[j] = segments[j]
      BY <2>1
    <3> QED
      BY <1>6, <2>1, <3>1 DEF Apart
  <2>2. CASE i = n + 1 /\ j \in 1..n
    <3>1. new[j] = segments[j]
      BY <2>2
    <3> QED
      BY <1>4, <2>2, <3>1
  <2>3. CASE j = n + 1 /\ i \in 1..n
    <3>1. new[i] = segments[i]
      BY <2>3
    <3> QED
      BY <1>4, <2>3, <3>1
  <2> QED
    BY <1>1, <1>6, <2>1, <2>2, <2>3
<1>7. \A i \in 1..(n + 1) : Unrepeated(new[i].response)
  BY <1>1 DEF Apart
<1> QED
  BY <1>5, <1>6, <1>7 DEF Apart

\* The last segment is extended with tokens that are not trained on elsewhere.
LEMMA LastSegmentExtended ==
  ASSUME NEW segments, NEW new, NEW n \in Nat \ {0}, Len(segments) = n, Len(new) = n,
         \A i \in 1..n : i # n => new[i] = segments[i],
         Apart(segments), NEW ids, Unrepeated(new[n].response),
         TrainedIds(new[n].response) = TrainedIds(segments[n].response) \cup ids,
         IdsOf(segments) \cap ids = {}
  PROVE  Apart(new) /\ IdsOf(new) = IdsOf(segments) \cup ids
<1>1. n \in 1..n
  OBVIOUS
<1>2. \A i \in 1..n : TrainedIds(segments[i].response) \subseteq IdsOf(segments)
  BY DEF IdsOf
<1>3. IdsOf(new) = IdsOf(segments) \cup ids
  <2>1. IdsOf(new) = UNION {TrainedIds(new[i].response) : i \in 1..n}
    BY DEF IdsOf
  <2>2. IdsOf(segments) = UNION {TrainedIds(segments[i].response) : i \in 1..n}
    BY DEF IdsOf
  <2>3. \A i \in 1..n : i # n => TrainedIds(new[i].response) = TrainedIds(segments[i].response)
    OBVIOUS
  <2> QED
    BY <1>1, <2>1, <2>2, <2>3
<1>4. ASSUME NEW i \in 1..n, NEW j \in 1..n, i # j
      PROVE  TrainedIds(new[i].response) \cap TrainedIds(new[j].response) = {}
  <2>0. TrainedIds(segments[i].response) \cap TrainedIds(segments[j].response) = {}
    BY <1>4 DEF Apart
  <2>1. CASE i # n /\ j # n
    BY <2>0, <2>1
  <2>2. CASE i = n
    <3>1. new[j] = segments[j]
      BY <1>4, <2>2
    <3> QED
      BY <1>2, <2>0, <2>2, <3>1
  <2>3. CASE j = n
    <3>1. new[i] = segments[i]
      BY <1>4, <2>3
    <3> QED
      BY <1>2, <2>0, <2>3, <3>1
  <2> QED
    BY <2>1, <2>2, <2>3
<1>5. \A i \in 1..n : Unrepeated(new[i].response)
  BY DEF Apart
<1> QED
  BY <1>3, <1>4, <1>5 DEF Apart

\* A response that was shortened has no other tokens.
LEMMA ShorterIds ==
  ASSUME NEW r \in Seq(Item), NEW s \in Seq(Item), Len(s) <= Len(r), \A p \in 1..Len(s) : s[p] = r[p]
  PROVE  TrainedIds(s) \subseteq TrainedIds(r) /\ (Unrepeated(r) => Unrepeated(s))
<1>1. \A p \in 1..Len(s) : p \in 1..Len(r)
  OBVIOUS
<1> QED
  BY <1>1 DEF TrainedIds, Unrepeated

\* The response still has to be saved.
Pending == ~is_summarizing /\ ~overlong /\ state # "over"

Carried == IF Pending THEN TrainedIds(accumulated) ELSE {}

\* The tokens ids are of generations gens that were not rolled back, ...
Known(ids, gens) == \A id \in ids : id.of \in 1..Len(gens) /\ gens[id.of].fate # "rolled back"

\* ... and of all of these.
Complete(ids, gens) == \A n \in 1..Len(gens) : gens[n].fate # "rolled back" => Uses(ids, n)

\* The last turn's tokens are the end of the response, and only there.
LastTurnIsLast ==
  state = "processing_tools" =>
    /\ ~Uses(IdsOf(trajectory_outputs), Len(generations))
    /\ \A p \in 1..Len(accumulated) : accumulated[p].mask = 1 =>
         (accumulated[p].id.of = Len(generations) <=> p > Len(accumulated) - response_length)

ResponseIsNew ==
  Pending => Unrepeated(accumulated) /\ IdsOf(trajectory_outputs) \cap TrainedIds(accumulated) = {}

TrainedOnce ==
  /\ Apart(trajectory_outputs) /\ ResponseIsNew
  /\ Known(IdsOf(trajectory_outputs) \cup Carried, generations)
  /\ ~overlong => Complete(IdsOf(trajectory_outputs) \cup Carried, generations)
  /\ LastTurnIsLast

\* What the next generation adds to the trained tokens.
Added(new, fate) ==
  (\A id \in new : id.of = Len(generations) + 1) /\ (fate = "rolled back" <=> new = {})

LEMMA SampledTracked ==
  ASSUME Typed, NEW fate \in Fates, Sampled(fate), NEW ids, NEW new, NEW ids2, Added(new, fate)
  PROVE  /\ Known(ids, generations) /\ ids2 \subseteq ids \cup new => Known(ids2, generations')
         /\ Complete(ids, generations) /\ ids \cup new \subseteq ids2 => Complete(ids2, generations')
<1> DEFINE n == Len(generations)
<1>0. n \in Nat
  BY DEF Typed, HistoryTypes
<1>1. /\ Len(generations') = n + 1
      /\ \A i \in 1..n : generations'[i] = generations[i]
      /\ generations'[n + 1].fate = fate
  <2>1. /\ generations'[n + 1] = [prompt |-> prompt_ids, fate |-> fate] /\ Len(generations') = n + 1
        /\ \A i \in 1..n : generations'[i] = generations[i]
    BY SampledType
  <2>2. generations'[n + 1].fate = fate
    BY <2>1
  <2> QED
    BY <2>1, <2>2
<1> HIDE DEF n
<1>2. \A i \in 1..(n + 1) : i \in 1..n \/ i = n + 1
  BY <1>0
<1>3. \A i \in 1..n : i \in 1..(n + 1)
  BY <1>0
<1>4. n + 1 \in 1..(n + 1)
  BY <1>0
<1>5. ASSUME Known(ids, generations), ids2 \subseteq ids \cup new, NEW id \in ids2
      PROVE  id.of \in 1..(n + 1) /\ generations'[id.of].fate # "rolled back"
  <2>1. CASE id \in ids
    <3>1. id.of \in 1..n /\ generations[id.of].fate # "rolled back"
      BY <1>5, <2>1 DEF Known, n
    <3> QED
      BY <1>1, <1>3, <3>1
  <2>2. CASE id \in new
    <3>1. id.of = n + 1 /\ fate # "rolled back"
      BY <2>2 DEF Added, n
    <3> QED
      BY <1>1, <1>4, <3>1
  <2> QED
    BY <1>5, <2>1, <2>2
<1>6. ASSUME Complete(ids, generations), ids \cup new \subseteq ids2, NEW i \in 1..(n + 1), generations'[i].fate # "rolled back"
      PROVE  Uses(ids2, i)
  <2>2. CASE i \in 1..n
    <3>1. Uses(ids, i)
      BY <1>1, <1>6, <2>2 DEF Complete, n
    <3> QED
      BY <1>6, <3>1 DEF Uses
  <2>3. CASE i = n + 1
    <3>1. new # {}
      BY <1>1, <1>6, <2>3 DEF Added
    <3> QED
      BY <1>6, <2>3, <3>1 DEF Added, Uses, n
  <2> QED
    BY <1>2, <2>2, <2>3
<1> QED
  BY <1>1, <1>5, <1>6 DEF Known, Complete

\* After a context was compressed, or given up, nothing of it has to be saved.
LEMMA CompressedCarries ==
  ASSUME NEW before, Compressed(before)
  PROVE  /\ state' \in {"generating", "terminated"}
         /\ Carried' = {} /\ (Pending' => Unrepeated(accumulated') /\ TrainedIds(accumulated') = {})
<1>1. CASE Terminate(before, TRUE)
  <2>1. state' = "terminated" /\ overlong' = TRUE
    BY <1>1 DEF Terminate
  <2> QED
    BY <2>1 DEF Pending, Carried
<1>2. ASSUME NEW p, NewContext(p, p, <<>>)
      PROVE  /\ state' \in {"generating", "terminated"}
             /\ Carried' = {} /\ (Pending' => Unrepeated(accumulated') /\ TrainedIds(accumulated') = {})
  <2>1. state' = "generating" /\ accumulated' = Untrained(<<>>)
    BY <1>2 DEF NewContext
  <2>2. <<>> \in Seq(Token)
    OBVIOUS
  <2>3. Unrepeated(accumulated') /\ TrainedIds(accumulated') = {}
    BY <2>1, <2>2, MaskedIds
  <2> QED
    BY <2>1, <2>3 DEF Carried
<1>3. CASE AskForCompression(before)
  <2>1. state' = "generating" /\ is_summarizing' = TRUE
    BY <1>3 DEF AskForCompression
  <2> QED
    BY <2>1 DEF Pending, Carried
<1> QED
  BY <1>1, <1>2, <1>3 DEF Compressed

LEMMA SavedApart ==
  ASSUME Typed, NEW r \in Seq(Item), Apart(trajectory_outputs), Unrepeated(r),
         IdsOf(trajectory_outputs) \cap TrainedIds(r) = {}
  PROVE  Apart(Saved(r)) /\ IdsOf(Saved(r)) = IdsOf(trajectory_outputs) \cup TrainedIds(r)
<1>1. CASE r = <<>>
  <2>1. TrainedIds(r) = {}
    BY <1>1 DEF TrainedIds
  <2> QED
    BY <1>1, <2>1 DEF Saved
<1>2. CASE r # <<>>
  <2> DEFINE n == Len(trajectory_outputs)
  <2>1. /\ n \in Nat /\ Len(Saved(r)) = n + 1
        /\ \A i \in 1..n : Saved(r)[i] = trajectory_outputs[i]
        /\ Saved(r)[n + 1] = Segment(current_traj_prompt_ids, r, FALSE)
    BY <1>2, SavedIs
  <2>2. Saved(r)[n + 1].response = r
    BY <2>1 DEF Segment
  <2> DEFINE new == Saved(r)
  <2> HIDE DEF n, new
  <2>3. /\ n \in Nat /\ Len(trajectory_outputs) = n /\ Len(new) = n + 1
        /\ \A i \in 1..n : new[i] = trajectory_outputs[i]
        /\ Unrepeated(new[n + 1].response) /\ IdsOf(trajectory_outputs) \cap TrainedIds(new[n + 1].response) = {}
    BY <2>1, <2>2 DEF n, new
  <2>4. Apart(new) /\ IdsOf(new) = IdsOf(trajectory_outputs) \cup TrainedIds(new[n + 1].response)
    BY <2>3, OneSegmentMore
  <2> QED
    BY <2>2, <2>4 DEF new
<1> QED
  BY <1>1, <1>2

\* The rounds of echo_e2e append the selection to a segment that is there.
HasASegment ==
  method = "echo_e2e" /\ Running =>
    /\ is_summarizing => trajectory_outputs # <<>>
    /\ turn_history > 0 \/ pending_turn =>
         \/ trajectory_outputs # <<>>
         \/ Len(accumulated) > IF state = "processing_tools" THEN response_length ELSE 0

LEMMA HasASegmentStep ==
  ASSUME Typed, Typed', Submissions, HasASegment, [EchoNext]_echoVars
  PROVE  HasASegment'
<1>1. CASE LastTurn \/ Turn
  <2>1. PICK reply \in Replies : Spoke(reply)
    BY <1>1, TurnIs
  <2>2. /\ state = "generating" /\ method' = method /\ is_summarizing' = is_summarizing /\ ~is_summarizing
        /\ trajectory_outputs' = trajectory_outputs /\ turn_history' = turn_history /\ pending_turn' = pending_turn
        /\ state' \in {"terminated", "processing_tools"} /\ response_length' = Len(reply)
        /\ accumulated' = Extended(reply)
    BY <2>1, GeneratedType DEF Spoke, turns
  <2>3. /\ Len(accumulated') = Len(accumulated) + response_length' /\ Len(accumulated) \in Nat
        /\ response_length' \in Nat
    BY <2>2, ExtendedType, ReplyType DEF Typed, ContextTypes
  <2>4. Len(accumulated) > 0 => Len(accumulated') > response_length'
    BY <2>3
  <2> QED
    BY <2>2, <2>4 DEF HasASegment, Running
<1>2. CASE CutOff
  <2>1. PICK reply \in Replies : CutOff!(reply)
    BY <1>2 DEF CutOff
  <2>2. /\ state = "generating" /\ method' = method
    BY <2>1, GeneratedType
  <2>3. WithoutTurn(Extended(reply), Len(reply)) = accumulated
    BY ExtendedType
  <2> SUFFICES ASSUME method = "echo_e2e", Running'
               PROVE  trajectory_outputs' # <<>>
    BY <2>2 DEF HasASegment
  <2>4. MayCompress
    BY <2>1 DEF Terminate, Running
  <2>5. /\ trajectory_outputs' = Saved(accumulated) /\ turn_history' # 0
        /\ turn_history' = turn_history \/ pending_turn
    BY <2>1, <2>3, <2>4 DEF turns, Terminate, Running
  <2>6. turn_history > 0 \/ pending_turn
    BY <2>5 DEF Typed, TurnTypes
  <2>7. trajectory_outputs # <<>> \/ Len(accumulated) > 0
    BY <2>2, <2>6 DEF HasASegment, Running
  <2>8. accumulated \in Seq(Item)
    BY DEF Typed, ContextTypes
  <2>9. CASE accumulated = <<>>
    <3>1. Len(accumulated) = 0
      BY <2>9
    <3> QED
      <4>1. trajectory_outputs' = trajectory_outputs
        BY <2>5, <2>9 DEF Saved
      <4>2. ~(Len(accumulated) > 0)
        BY <3>1
      <4> QED
        BY <2>7, <4>1, <4>2
  <2>10. CASE accumulated # <<>>
    <3>1. Len(trajectory_outputs') = Len(trajectory_outputs) + 1 /\ Len(trajectory_outputs) \in Nat
      BY <2>5, <2>8, <2>10, SavedIs
    <3>2. Len(<<>>) = 0
      OBVIOUS
    <3> QED
      BY <3>1, <3>2
  <2> QED
    BY <2>9, <2>10
<1>3. CASE Summarize \/ SelectTurns
  <2>1. state = "generating" /\ is_summarizing /\ method' = method
    BY <1>3, AuxiliaryIs DEF AuxiliaryGeneration, config
  <2> SUFFICES ASSUME method = "echo_e2e"
               PROVE  trajectory_outputs' # <<>>
    BY <2>1 DEF HasASegment
  <2> DEFINE ids == Tokens(Generation, "policy", 1)
  <2>2. trajectory_outputs # <<>> /\ trajectory_outputs' = WithSelection(ids)
    BY <1>3, <2>1, AuxiliaryIs DEF HasASegment, Running
  <2>3. ids \in Seq(Token)
    <3>1. Generation \in Nat
      BY DEF Typed, HistoryTypes, Generation
    <3> QED
      BY <3>1, TokensType DEF Roles
  <2> HIDE DEF ids
  <2>4. Len(trajectory_outputs') = Len(trajectory_outputs) /\ Len(trajectory_outputs) \in 1..Len(trajectory_outputs)
    BY <2>2, <2>3, SelectionIs
  <2>5. Len(<<>>) = 0
    OBVIOUS
  <2> QED
    BY <2>4, <2>5
<1>4. CASE Overflow
  <2> DEFINE before == WithoutTurn(accumulated, response_length)
  <2>1. PICK len \in ToolLengths : Overflow!(len)
    BY <1>4 DEF Overflow
  <2>2. state = "processing_tools" /\ method' = method
    BY <2>1 DEF Executed, config
  <2> SUFFICES ASSUME method = "echo_e2e", Running'
               PROVE  trajectory_outputs' # <<>>
    BY <2>2 DEF HasASegment
  <2>3. OverflowSelecting
    BY <2>1 DEF OverflowSaving, SelectsTurns, Terminate, Running
  <2>4. trajectory_outputs' = Saved(before) /\ History # 0
    BY <2>3 DEF OverflowSelecting, Terminate, Running
  <2>5. turn_history > 0 \/ pending_turn
    BY <2>4 DEF History, Typed, TurnTypes
  <2>6. trajectory_outputs # <<>> \/ Len(accumulated) > response_length
    BY <2>2, <2>5 DEF HasASegment, Running
  <2>7. /\ before \in Seq(Item) /\ Len(before) = Len(accumulated) - response_length
        /\ Len(accumulated) \in Nat /\ response_length \in Nat
    BY <2>2, WithoutTurnType DEF Typed, ContextTypes, TurnTypes
  <2> HIDE DEF before
  <2>8. CASE before = <<>>
    <3>1. Len(before) = 0
      BY <2>8
    <3> QED
      <4>1. trajectory_outputs' = trajectory_outputs
        BY <2>4, <2>8 DEF Saved
      <4>2. ~(Len(accumulated) > response_length)
        BY <2>7, <3>1
      <4> QED
        BY <2>6, <4>1, <4>2
  <2>9. CASE before # <<>>
    <3>1. Len(trajectory_outputs') = Len(trajectory_outputs) + 1 /\ Len(trajectory_outputs) \in Nat
      BY <2>4, <2>7, <2>9, SavedIs
    <3>2. Len(<<>>) = 0
      OBVIOUS
    <3> QED
      BY <3>1, <3>2
  <2> QED
    BY <2>8, <2>9
<1>5. CASE Observe
  <2>1. PICK len \in ToolLengths : Observe!(len)
    BY <1>5 DEF Observe
  <2>2. state = "processing_tools" /\ ~is_summarizing
    BY <2>1 DEF Executed, Typed, Asking
  <2>3. ASSUME Running' PROVE state' = "generating" /\ Len(accumulated') > 0 /\ ~is_summarizing'
    <3>1. /\ accumulated' = accumulated \o Untrained(Tokens(Len(generations), "tool", len))
          /\ state' = "generating" /\ is_summarizing' = is_summarizing
      BY <2>1, <2>3 DEF Terminate, Running
    <3>2. Len(accumulated') = Len(accumulated) + len /\ len \in Nat \ {0} /\ Len(accumulated) \in Nat
      BY <3>1, ToolType, Limits DEF Typed, ContextTypes
    <3> QED
      BY <2>2, <3>1, <3>2
  <2> QED
    BY <2>3 DEF HasASegment
<1>6. CASE Output
  BY <1>6 DEF Output, HasASegment, Running
<1>7. CASE UNCHANGED echoVars
  BY <1>7 DEF echoVars, context, config, turns, HasASegment, Running
<1> QED
  BY <1>1, <1>2, <1>3, <1>4, <1>5, <1>6, <1>7 DEF EchoNext

\* Where nothing has to be saved, the segments alone have to be right.
LEMMA NothingCarried ==
  ASSUME Apart(trajectory_outputs'), Carried' = {},
         Pending' => Unrepeated(accumulated') /\ TrainedIds(accumulated') = {},
         Known(IdsOf(trajectory_outputs'), generations'),
         ~overlong' => Complete(IdsOf(trajectory_outputs'), generations'),
         state' # "processing_tools"
  PROVE  TrainedOnce'
<1>1. IdsOf(trajectory_outputs') \cup Carried' = IdsOf(trajectory_outputs')
  OBVIOUS
<1>2. ResponseIsNew'
  BY DEF ResponseIsNew
<1>3. LastTurnIsLast'
  BY DEF LastTurnIsLast
<1> QED
  BY <1>1, <1>2, <1>3 DEF TrainedOnce

LEMMA TurnTrainsOnce ==
  ASSUME Typed, Submissions, TrainedOnce, LastTurn \/ Turn
  PROVE  TrainedOnce'
<1> DEFINE T == IdsOf(trajectory_outputs)
           A == TrainedIds(accumulated)
           n == Len(generations)
<1>1. PICK reply \in Replies : Spoke(reply)
  BY TurnIs
<1>2. /\ state = "generating" /\ ~is_summarizing /\ is_summarizing' = is_summarizing
      /\ trajectory_outputs' = trajectory_outputs /\ overlong' = overlong
      /\ state' \in {"terminated", "processing_tools"} /\ response_length' = Len(reply)
      /\ accumulated' = Extended(reply)
  BY <1>1, GeneratedType DEF Spoke
<1>3. Pending /\ Pending'
  BY <1>2 DEF Pending, Submissions, NoneSubmitted, Running
<1> DEFINE spoken == Trained(Tokens(Generation, "policy", Len(reply)))
           N == TrainedIds(spoken)
<1>4. n \in Nat /\ Generation = n + 1 /\ Generation \in Nat /\ Len(reply) \in Nat \ {0}
      /\ accumulated \in Seq(Item) /\ Len(accumulated) \in Nat
  BY ReplyType DEF Typed, HistoryTypes, ContextTypes, Generation
<1>5. /\ spoken \in Seq(Item) /\ Len(spoken) = Len(reply)
      /\ \A i \in 1..Len(reply) : spoken[i].mask = 1 /\ spoken[i].id = [of |-> Generation, role |-> "policy", at |-> i]
      /\ Unrepeated(spoken) /\ N # {} /\ \A id \in N : id.of = Generation
  BY ZenonT(60), <1>4, SpokenIds
<1>6. accumulated' = accumulated \o spoken
  BY <1>2 DEF Extended, Response
<1> HIDE DEF spoken, N
<1>7. Apart(trajectory_outputs) /\ Unrepeated(accumulated) /\ T \cap A = {} /\ Known(T \cup A, generations)
      /\ Complete(T \cup A, generations)
  BY <1>3 DEF TrainedOnce, ResponseIsNew, Carried, Pending
<1> HIDE DEF T, A
<1>8. \A id \in T \cup A : id.of # Generation
  <2>1. \A id \in T \cup A : id.of \in 1..n
    BY <1>7 DEF Known
  <2>2. \A i \in 1..n : i # Generation
    BY <1>4
  <2> QED
    BY <2>1, <2>2
<1>9. (T \cup A) \cap N = {}
  BY <1>5, <1>8
<1>10. Unrepeated(accumulated') /\ TrainedIds(accumulated') = A \cup N
  BY <1>4, <1>5, <1>6, <1>7, <1>9, TrainedConcat DEF N, A
<1>11. IdsOf(trajectory_outputs') = T /\ Carried' = A \cup N
  BY <1>2, <1>3, <1>10 DEF Carried, T
<1>12. Apart(trajectory_outputs') /\ ResponseIsNew'
  BY <1>2, <1>7, <1>9, <1>10, <1>11 DEF ResponseIsNew
<1>13. Known(T \cup (A \cup N), generations') /\ Complete(T \cup (A \cup N), generations')
  <2>1. Added(N, "turn")
    BY <1>4, <1>5 DEF Added
  <2>2. "turn" \in Fates /\ Sampled("turn")
    BY <1>1 DEF Fates, Spoke
  <2>3. T \cup (A \cup N) \subseteq (T \cup A) \cup N /\ (T \cup A) \cup N \subseteq T \cup (A \cup N)
    OBVIOUS
  <2> QED
    BY <1>7, <2>1, <2>2, <2>3, SampledTracked
<1>14. LastTurnIsLast'
  <2>1. Len(generations') = Generation
    BY <1>1, <1>4, SampledType DEF Spoke, Fates
  <2>2. ~Uses(T, Generation)
    BY <1>8 DEF Uses
  <2>3. Len(accumulated') = Len(accumulated) + Len(reply)
    BY <1>2, ExtendedType
  <2>4. ASSUME NEW p \in 1..(Len(accumulated) + Len(reply)), accumulated'[p].mask = 1
        PROVE  accumulated'[p].id.of = Generation <=> p > Len(accumulated)
    <3>1. CASE p <= Len(accumulated)
      <4>1. accumulated'[p] = accumulated[p] /\ p \in 1..Len(accumulated)
        BY <1>4, <1>5, <1>6, <3>1
      <4>2. accumulated[p].id \in A
        BY <2>4, <4>1 DEF A, TrainedIds
      <4> QED
        BY <1>4, <1>8, <3>1, <4>1, <4>2
    <3>2. CASE ~(p <= Len(accumulated))
      <4>1. accumulated'[p] = spoken[p - Len(accumulated)] /\ p - Len(accumulated) \in 1..Len(reply)
        BY <1>4, <1>5, <1>6, <3>2
      <4>2. accumulated'[p].id = [of |-> Generation, role |-> "policy", at |-> p - Len(accumulated)]
        BY <1>5, <4>1
      <4>3. accumulated'[p].id.of = Generation
        BY <4>2
      <4> QED
        BY <1>4, <3>2, <4>3
    <3> QED
      BY <3>1, <3>2
  <2>5. Len(accumulated') - response_length' = Len(accumulated)
    BY <1>2, <1>4, <2>3
  <2> QED
    BY <1>11, <2>1, <2>2, <2>3, <2>4, <2>5 DEF LastTurnIsLast
<1> QED
  BY <1>11, <1>12, <1>13, <1>14 DEF TrainedOnce

LEMMA CutOffTrainsOnce ==
  ASSUME Typed, Submissions, TrainedOnce, CutOff
  PROVE  TrainedOnce'
<1> DEFINE T == IdsOf(trajectory_outputs)
           A == TrainedIds(accumulated)
<1>1. PICK reply \in Replies : WasCutOff(reply)
  BY CutOffIs
<1>2. state = "generating" /\ ~is_summarizing /\ Sampled("rolled back")
  BY <1>1, GeneratedType DEF WasCutOff
<1>3. Pending
  BY <1>2 DEF Pending, Submissions, NoneSubmitted, Running
<1>4. Apart(trajectory_outputs) /\ Unrepeated(accumulated) /\ T \cap A = {} /\ Known(T \cup A, generations)
      /\ Complete(T \cup A, generations)
  BY <1>3 DEF TrainedOnce, ResponseIsNew, Carried, Pending
<1>5. /\ Added({}, "rolled back") /\ "rolled back" \in Fates
      /\ T \subseteq (T \cup A) \cup {} /\ T \cup A \subseteq (T \cup A) \cup {} /\ (T \cup A) \cup {} \subseteq T \cup A
  BY DEF Added, Fates
<1>6. Known(T, generations') /\ Known(T \cup A, generations') /\ Complete(T \cup A, generations')
  BY <1>2, <1>4, <1>5, SampledTracked
<1>7. CASE Terminate(Extended(reply), TRUE) /\ UNCHANGED trajectory_outputs
  <2>1. state' = "terminated" /\ overlong' = TRUE /\ trajectory_outputs' = trajectory_outputs
    BY <1>7 DEF Terminate
  <2>2. Carried' = {} /\ ~Pending'
    BY <2>1 DEF Carried, Pending
  <2> QED
    BY <1>4, <1>6, <2>1, <2>2, NothingCarried
<1>8. CASE trajectory_outputs' = Saved(accumulated) /\ Compressed(accumulated)
  <2>1. Apart(trajectory_outputs') /\ IdsOf(trajectory_outputs') = T \cup A
    BY <1>4, <1>8, SavedApart DEF Typed, ContextTypes
  <2>2. /\ state' \in {"generating", "terminated"} /\ Carried' = {}
        /\ (Pending' => Unrepeated(accumulated') /\ TrainedIds(accumulated') = {})
    BY <1>8, CompressedCarries
  <2> QED
    BY <1>6, <2>1, <2>2, NothingCarried
<1> QED
  BY <1>1, <1>7, <1>8 DEF WasCutOff

LEMMA AuxiliaryTrainsOnce ==
  ASSUME Typed, Submissions, TrainedOnce, HasASegment, Summarize \/ SelectTurns
  PROVE  TrainedOnce'
<1> DEFINE T == IdsOf(trajectory_outputs)
           n == Len(generations)
           ids == Tokens(Generation, "policy", 1)
           spoken == Trained(ids)
           N == TrainedIds(spoken)
           k == Len(trajectory_outputs)
<1>1. /\ state = "generating" /\ is_summarizing /\ ~overlong /\ Sampled("auxiliary")
      /\ trajectory_outputs' = WithSummary(ids) \/ (method = "echo_e2e" /\ trajectory_outputs' = WithSelection(ids))
  BY AuxiliaryIs DEF AuxiliaryGeneration, Submissions, NoneSubmitted, Running
<1>2. n \in Nat /\ Generation = n + 1 /\ Generation \in Nat /\ 1 \in Nat \ {0} /\ ids \in Seq(Token)
  <2>1. n \in Nat /\ Generation = n + 1 /\ Generation \in Nat
    BY DEF Typed, HistoryTypes, Generation
  <2> QED
    BY <2>1, TokensType DEF Roles
<1>3. spoken \in Seq(Item) /\ Unrepeated(spoken) /\ N # {} /\ \A id \in N : id.of = Generation
  BY <1>2, SpokenIds
<1> HIDE DEF ids, spoken, N
<1>4. Apart(trajectory_outputs) /\ Known(T, generations) /\ Complete(T, generations)
  <2>1. Carried = {}
    BY <1>1 DEF Carried, Pending
  <2>2. IdsOf(trajectory_outputs) \cup Carried = T
    BY <2>1
  <2> QED
    BY <1>1, <2>2 DEF TrainedOnce
<1> HIDE DEF T
<1>5. T \cap N = {}
  <2>1. \A id \in T : id.of \in 1..n
    BY <1>4 DEF Known
  <2>2. \A i \in 1..n : i # Generation
    BY <1>2
  <2> QED
    BY <1>3, <2>1, <2>2
<1>6. Apart(trajectory_outputs') /\ IdsOf(trajectory_outputs') = T \cup N
  <2>1. CASE trajectory_outputs' = WithSummary(ids)
    <3> DEFINE full == current_traj_prompt_ids \o Ids(accumulated) \o sum_instruction_ids
               before == Untrained(Rest(full, PromptLength))
               s == Segment(First(full, PromptLength), before \o spoken, FALSE)
    <3>1. /\ k \in Nat /\ Len(trajectory_outputs') = k + 1
          /\ \A i \in 1..k : trajectory_outputs'[i] = trajectory_outputs[i]
          /\ trajectory_outputs'[k + 1] = s
      BY <1>2, <2>1, SummaryIs DEF spoken
    <3>2. s.response = before \o spoken
      BY DEF Segment
    <3>3. before \in Seq(Item) /\ TrainedIds(before) = {} /\ Unrepeated(before)
      <4>1. full \in Seq(Token)
        BY IdsType, ConcatProperties DEF Typed, ContextTypes
      <4> HIDE DEF full
      <4>2. Rest(full, PromptLength) \in Seq(Token)
        BY <4>1, Limits, PartsType
      <4> QED
        BY <4>2, MaskedType, MaskedIds
    <3> HIDE DEF s, before
    <3>4. TrainedIds(before \o spoken) = N /\ Unrepeated(before \o spoken)
      BY ZenonT(60), <1>3, <3>3, TrainedConcat DEF N
    <3>5. TrainedIds(trajectory_outputs'[k + 1].response) = N /\ Unrepeated(trajectory_outputs'[k + 1].response)
      BY <3>1, <3>2, <3>4
    <3> QED
      BY ZenonT(60), <1>4, <1>5, <3>1, <3>5, OneSegmentMore DEF T
  <2>2. CASE method = "echo_e2e" /\ trajectory_outputs' = WithSelection(ids)
    <3>1. trajectory_outputs # <<>>
      BY <1>1, <2>2 DEF HasASegment, Running
    <3> DEFINE last == trajectory_outputs[k]
               asked == Untrained(sum_instruction_ids)
               longer == last.response \o asked \o spoken
               s == [prompt |-> last.prompt, response |-> longer, final |-> last.final]
    <3>2. /\ k \in 1..k /\ Len(trajectory_outputs') = k
          /\ \A i \in 1..k : trajectory_outputs'[i] = IF i = k THEN s ELSE trajectory_outputs[i]
      BY <1>2, <2>2, <3>1, SelectionIs DEF spoken
    <3>3. last.response \in Seq(Item)
      BY <3>2, OutputsAre
    <3>4. asked \in Seq(Item) /\ TrainedIds(asked) = {} /\ Unrepeated(asked)
      BY MaskedType, MaskedIds DEF Typed, ContextTypes
    <3>5. Unrepeated(last.response) /\ TrainedIds(last.response) \subseteq T
      BY <1>4, <3>2 DEF Apart, IdsOf, T
    <3>6. s.response = longer
      OBVIOUS
    <3>7. trajectory_outputs'[k] = s /\ \A i \in 1..k : i # k => trajectory_outputs'[i] = trajectory_outputs[i]
      <4> HIDE DEF s
      <4> QED
        BY <3>2
    <3> HIDE DEF s, asked, last
    <3>8. last.response \o asked \in Seq(Item)
      BY <3>3, <3>4, ConcatProperties
    <3>9. TrainedIds(last.response \o asked) = TrainedIds(last.response) /\ Unrepeated(last.response \o asked)
      <4>1. TrainedIds(last.response) \cap TrainedIds(asked) = {}
        BY <3>4
      <4>2. /\ TrainedIds(last.response \o asked) = TrainedIds(last.response) \cup TrainedIds(asked)
            /\ Unrepeated(last.response \o asked)
        BY <3>3, <3>4, <3>5, <4>1, TrainedConcat
      <4> QED
        BY <3>4, <4>2
    <3>10. TrainedIds(longer) = TrainedIds(last.response) \cup N /\ Unrepeated(longer)
      BY <1>3, <1>5, <3>5, <3>8, <3>9, TrainedConcat DEF N
    <3>11. TrainedIds(trajectory_outputs'[k].response) = TrainedIds(trajectory_outputs[k].response) \cup N
           /\ Unrepeated(trajectory_outputs'[k].response)
      BY <3>6, <3>7, <3>10 DEF last
    <3>12. k \in Nat \ {0}
      BY <3>2
    <3> QED
      BY ZenonT(60), <1>4, <1>5, <3>2, <3>7, <3>11, <3>12, LastSegmentExtended DEF T
  <2> QED
    BY <1>1, <2>1, <2>2
<1>7. Known(T \cup N, generations') /\ Complete(T \cup N, generations')
  <2>1. Added(N, "auxiliary") /\ "auxiliary" \in Fates
    BY <1>2, <1>3 DEF Added, Fates
  <2> QED
    BY <1>1, <1>4, <2>1, SampledTracked
<1>8. Carried' = {} /\ (Pending' => Unrepeated(accumulated') /\ TrainedIds(accumulated') = {})
      /\ state' # "processing_tools"
  <2>1. CASE overlong' = TRUE /\ state' = "terminated"
    BY <2>1 DEF Carried, Pending
  <2>2. ASSUME NEW first \in Seq(Token), NEW prefix \in Seq(Token), NewContext(first \o prefix, first, prefix)
        PROVE  Carried' = {} /\ (Pending' => Unrepeated(accumulated') /\ TrainedIds(accumulated') = {})
               /\ state' # "processing_tools"
    <3>1. accumulated' = Untrained(prefix) /\ state' = "generating"
      BY <2>2 DEF NewContext
    <3>2. Unrepeated(accumulated') /\ TrainedIds(accumulated') = {}
      BY <3>1, MaskedIds
    <3> QED
      BY <3>1, <3>2 DEF Carried
  <2> QED
    BY <2>1, <2>2, AuxiliaryIs
<1> QED
  BY <1>6, <1>7, <1>8, NothingCarried

LEMMA OverflowTrainsOnce ==
  ASSUME Typed, Submissions, TrainedOnce, Overflow
  PROVE  TrainedOnce'
<1> DEFINE T == IdsOf(trajectory_outputs)
           A == TrainedIds(accumulated)
           n == Len(generations)
           before == WithoutTurn(accumulated, response_length)
           B == TrainedIds(before)
<1>1. Executed /\ (OverflowSelected \/ \E len \in ToolLengths : OverflowSaved(len))
  BY OverflowIs
<1>2. state = "processing_tools" /\ Pending
  BY <1>1 DEF Executed, Typed, Asking, Pending, Submissions, NoneSubmitted, Running
<1>3. Apart(trajectory_outputs) /\ Unrepeated(accumulated) /\ T \cap A = {} /\ Known(T \cup A, generations)
      /\ Complete(T \cup A, generations)
  BY <1>2 DEF TrainedOnce, ResponseIsNew, Carried, Pending
<1>4. /\ ~Uses(T, n)
      /\ \A p \in 1..Len(accumulated) : accumulated[p].mask = 1 =>
           (accumulated[p].id.of = n <=> p > Len(accumulated) - response_length)
  BY <1>2 DEF TrainedOnce, LastTurnIsLast
<1>5. /\ before \in Seq(Item) /\ Len(before) = Len(accumulated) - response_length
      /\ \A p \in 1..Len(before) : before[p] = accumulated[p]
      /\ accumulated \in Seq(Item) /\ Len(accumulated) \in Nat /\ response_length \in Nat /\ n \in Nat
  BY <1>2, WithoutTurnType DEF Typed, ContextTypes, TurnTypes, HistoryTypes
<1> HIDE DEF T, A, before, B
<1>0. \A p \in 1..Len(accumulated) :
        ~(p > Len(accumulated) - response_length) => p \in 1..Len(before) /\ before[p] = accumulated[p]
  BY <1>5
<1>6. CASE /\ trajectory_outputs' = Saved(before) /\ RollBack /\ Compressed(before)
  <2>1. B \subseteq A /\ Unrepeated(before)
    <3>1. Len(before) <= Len(accumulated)
      BY <1>5
    <3> QED
      BY <1>3, <1>5, <3>1, ShorterIds DEF A, B
  <2>2. Apart(trajectory_outputs') /\ IdsOf(trajectory_outputs') = T \cup B
    <3>1. T \cap B = {}
      BY <1>3, <2>1
    <3> QED
      BY <1>3, <1>5, <1>6, <2>1, <3>1, SavedApart DEF T, B
  <2>3. /\ Len(generations') = n
        /\ \A i \in 1..n : generations'[i].fate = IF i = n THEN "rolled back" ELSE generations[i].fate
    BY <1>2, <1>6, RollBackType
  <2>4. \A id \in B : id.of # n
    <3> SUFFICES ASSUME NEW p \in 1..Len(before), before[p].mask = 1 PROVE before[p].id.of # n
      BY DEF B, TrainedIds
    <3>1. p \in 1..Len(accumulated) /\ ~(p > Len(accumulated) - response_length) /\ before[p] = accumulated[p]
      BY <1>5
    <3> QED
      BY <1>4, <3>1
  <2>5. Known(T \cup B, generations')
    <3> SUFFICES ASSUME NEW id \in T \cup B
                 PROVE  id.of \in 1..n /\ generations'[id.of].fate # "rolled back"
      BY <2>3 DEF Known
    <3>1. id.of \in 1..n /\ generations[id.of].fate # "rolled back"
      BY <1>3, <2>1 DEF Known
    <3>2. id.of # n
      BY <1>4, <2>4 DEF Uses
    <3> QED
      BY <2>3, <3>1, <3>2
  <2>6. Complete(T \cup B, generations')
    <3> SUFFICES ASSUME NEW i \in 1..n, generations'[i].fate # "rolled back"
                 PROVE  Uses(T \cup B, i)
      BY <2>3 DEF Complete
    <3>1. i # n /\ generations[i].fate # "rolled back"
      BY <2>3
    <3>2. PICK id \in T \cup A : id.of = i
      BY <1>3, <3>1 DEF Complete, Uses
    <3>3. CASE id \in T
      BY <3>2, <3>3 DEF Uses
    <3>4. CASE id \in A
      <4>1. PICK p \in 1..Len(accumulated) : accumulated[p].mask = 1 /\ id = accumulated[p].id
        BY <3>4 DEF A, TrainedIds
      <4>2. ~(p > Len(accumulated) - response_length)
        BY <1>4, <3>1, <3>2, <4>1
      <4>3. p \in 1..Len(before) /\ before[p] = accumulated[p]
        BY <1>0, <4>1, <4>2
      <4>4. id \in B
        BY <4>1, <4>3 DEF B, TrainedIds
      <4> QED
        BY <3>2, <4>4 DEF Uses
    <3> QED
      BY <3>2, <3>3, <3>4
  <2>7. /\ state' \in {"generating", "terminated"} /\ Carried' = {}
        /\ (Pending' => Unrepeated(accumulated') /\ TrainedIds(accumulated') = {})
    BY <1>6, CompressedCarries
  <2> QED
    BY <2>2, <2>5, <2>6, <2>7, NothingCarried
<1>7. ASSUME NEW r \in Seq(Item), trajectory_outputs' = Saved(r), TrainedIds(r) = A, Unrepeated(r),
             generations' = generations, Terminate(accumulated, TRUE) \/ Compressed(before)
      PROVE  TrainedOnce'
  <2>1. Apart(trajectory_outputs') /\ IdsOf(trajectory_outputs') = T \cup A
    BY <1>3, <1>7, SavedApart DEF T
  <2>2. CASE Terminate(accumulated, TRUE)
    <3>1. state' = "terminated" /\ overlong' = TRUE
      BY <2>2 DEF Terminate
    <3>2. Carried' = {} /\ ~Pending'
      BY <3>1 DEF Carried, Pending
    <3> QED
      BY <1>3, <1>7, <2>1, <3>1, <3>2, NothingCarried
  <2>3. CASE Compressed(before)
    <3>1. /\ state' \in {"generating", "terminated"} /\ Carried' = {}
          /\ (Pending' => Unrepeated(accumulated') /\ TrainedIds(accumulated') = {})
      BY <2>3, CompressedCarries
    <3> QED
      BY <1>3, <1>7, <2>1, <3>1, NothingCarried
  <2> QED
    BY <1>7, <2>2, <2>3
<1>8. CASE trajectory_outputs' = Saved(accumulated) /\ Terminate(accumulated, TRUE) /\ UNCHANGED generations
  BY <1>3, <1>5, <1>7, <1>8 DEF A
<1>9. ASSUME NEW len \in ToolLengths, OverflowSaved(len)
      PROVE  TrainedOnce'
  <2> DEFINE u == Untrained(Tokens(Len(generations), "tool", len))
  <2>1. u \in Seq(Item) /\ TrainedIds(u) = {} /\ Unrepeated(u) /\ accumulated \o u \in Seq(Item)
    <3>1. Tokens(Len(generations), "tool", len) \in Seq(Token)
      BY ToolType
    <3> QED
      BY <3>1, MaskedType, MaskedIds, ToolType
  <2>2. /\ trajectory_outputs' = Saved(accumulated \o u) /\ generations' = generations
        /\ Terminate(accumulated, TRUE) \/ Compressed(before)
    BY <1>9 DEF OverflowSaved, before
  <2> HIDE DEF u
  <2>3. TrainedIds(accumulated \o u) = A /\ Unrepeated(accumulated \o u)
    <3>1. TrainedIds(accumulated) \cap TrainedIds(u) = {}
      BY <2>1
    <3>2. /\ TrainedIds(accumulated \o u) = TrainedIds(accumulated) \cup TrainedIds(u)
          /\ Unrepeated(accumulated \o u)
      BY <1>3, <1>5, <2>1, <3>1, TrainedConcat
    <3> QED
      BY <2>1, <3>2 DEF A
  <2> QED
    BY <1>7, <2>1, <2>2, <2>3
<1> QED
  BY <1>1, <1>6, <1>8, <1>9 DEF OverflowSelected, before

LEMMA ObserveTrainsOnce ==
  ASSUME Typed, Submissions, TrainedOnce, Observe
  PROVE  TrainedOnce'
<1>1. PICK len \in ToolLengths : Observe!(len)
  BY DEF Observe
<1> DEFINE u == Untrained(Tokens(Len(generations), "tool", len))
<1>2. /\ Executed /\ trajectory_outputs' = trajectory_outputs /\ generations' = generations
      /\ overlong' = overlong /\ is_summarizing' = is_summarizing /\ state' \in {"generating", "terminated"}
      /\ accumulated' = accumulated \/ accumulated' = accumulated \o u
  BY <1>1 DEF Terminate
<1>3. Pending /\ Pending'
  BY <1>2 DEF Executed, Typed, Asking, Pending, Submissions, NoneSubmitted, Running
<1>4. u \in Seq(Item) /\ TrainedIds(u) = {} /\ Unrepeated(u) /\ accumulated \in Seq(Item)
  <2>1. Tokens(Len(generations), "tool", len) \in Seq(Token)
    BY ToolType
  <2> QED
    BY <2>1, MaskedType, MaskedIds DEF Typed, ContextTypes
<1> HIDE DEF u
<1>5. Unrepeated(accumulated)
  BY <1>3 DEF TrainedOnce, ResponseIsNew
<1>6. TrainedIds(accumulated') = TrainedIds(accumulated) /\ Unrepeated(accumulated')
  <2>1. TrainedIds(accumulated) \cap TrainedIds(u) = {}
    BY <1>4
  <2>2. /\ TrainedIds(accumulated \o u) = TrainedIds(accumulated) \cup TrainedIds(u)
        /\ Unrepeated(accumulated \o u)
    BY <1>4, <1>5, <2>1, TrainedConcat
  <2> QED
    BY <1>2, <1>4, <1>5, <2>2
<1>7. Carried' = Carried
  BY <1>3, <1>6 DEF Carried
<1> QED
  BY <1>2, <1>3, <1>6, <1>7 DEF TrainedOnce, ResponseIsNew, LastTurnIsLast

LEMMA OutputTrainsOnce ==
  ASSUME Typed, Submissions, TrainedOnce, Output
  PROVE  TrainedOnce'
<1> DEFINE T == IdsOf(trajectory_outputs)
           A == TrainedIds(accumulated)
<1>1. /\ state = "terminated" /\ state' = "over" /\ overlong' = overlong /\ generations' = generations
      /\ ~is_summarizing
  BY DEF Output, Typed, Asking
<1>2. Carried' = {} /\ ~Pending'
  BY <1>1 DEF Carried, Pending
<1>3. CASE overlong
  <2>1. trajectory_outputs' = trajectory_outputs
    BY <1>3 DEF Output
  <2>2. Known(IdsOf(trajectory_outputs'), generations')
    BY <1>1, <2>1 DEF TrainedOnce, Known
  <2> QED
    BY <1>1, <1>2, <1>3, <2>1, <2>2, NothingCarried DEF TrainedOnce
<1>4. CASE ~overlong
  <2>1. Pending
    BY <1>1, <1>4 DEF Pending
  <2>2. Apart(trajectory_outputs) /\ Unrepeated(accumulated) /\ T \cap A = {} /\ Known(T \cup A, generations)
        /\ Complete(T \cup A, generations)
    BY <1>4, <2>1 DEF TrainedOnce, ResponseIsNew, Carried
  <2> DEFINE s == Segment(current_traj_prompt_ids, accumulated, TRUE)
             k == Len(trajectory_outputs)
  <2>3. trajectory_outputs' = Append(trajectory_outputs, s)
    BY <1>1, <1>4 DEF Output, Submissions, SomethingLeft
  <2>4. trajectory_outputs \in Seq(SegmentType) /\ s \in SegmentType /\ s.response = accumulated
    <3>1. s \in SegmentType
      BY SavedType DEF Typed, ContextTypes
    <3> QED
      BY <3>1 DEF Typed, HistoryTypes, Segment
  <2> HIDE DEF s
  <2>5. /\ k \in Nat /\ Len(trajectory_outputs') = k + 1
        /\ \A i \in 1..k : trajectory_outputs'[i] = trajectory_outputs[i]
        /\ trajectory_outputs'[k + 1] = s
    BY <2>3, <2>4
  <2>6. Apart(trajectory_outputs') /\ IdsOf(trajectory_outputs') = T \cup A
    BY <2>2, <2>4, <2>5, OneSegmentMore
  <2> QED
    BY <1>1, <1>2, <2>2, <2>6, NothingCarried
<1> QED
  BY <1>3, <1>4

LEMMA TrainedOnceStep ==
  ASSUME Typed, Typed', Submissions, HasASegment, TrainedOnce, [EchoNext]_echoVars
  PROVE  TrainedOnce'
<1>1. CASE UNCHANGED echoVars
  BY <1>1 DEF echoVars, context, TrainedOnce, ResponseIsNew, LastTurnIsLast, Carried, Pending
<1> QED
  BY <1>1, TurnTrainsOnce, CutOffTrainsOnce, AuxiliaryTrainsOnce, OverflowTrainsOnce, ObserveTrainsOnce,
     OutputTrainsOnce DEF EchoNext

LEMMA TrainedOnceAlways == EchoSpec => [](HasASegment /\ TrainedOnce)
<1>1. EchoInit => HasASegment /\ TrainedOnce
  <2> SUFFICES ASSUME EchoInit PROVE HasASegment /\ TrainedOnce
    OBVIOUS
  <2>1. /\ state = "generating" /\ is_summarizing = FALSE /\ turn_history = 0 /\ pending_turn = FALSE
        /\ accumulated = <<>> /\ trajectory_outputs = <<>> /\ generations = <<>>
    BY DEF EchoInit
  <2>2. TrainedIds(accumulated) = {} /\ Unrepeated(accumulated)
    BY <2>1 DEF TrainedIds, Unrepeated
  <2>3. IdsOf(trajectory_outputs) = {} /\ Apart(trajectory_outputs) /\ Carried = {}
    BY <2>1, <2>2 DEF IdsOf, Apart, Carried
  <2>4. TrainedOnce
    <3>1. Known(IdsOf(trajectory_outputs) \cup Carried, generations)
      BY <2>3 DEF Known
    <3>2. Complete(IdsOf(trajectory_outputs) \cup Carried, generations)
      <4>1. 1..Len(generations) = {}
        BY <2>1
      <4> QED
        BY <4>1, Zenon DEF Complete
    <3>3. ResponseIsNew /\ LastTurnIsLast
      BY <2>1, <2>2, <2>3 DEF ResponseIsNew, LastTurnIsLast
    <3> QED
      BY <2>3, <3>1, <3>2, <3>3 DEF TrainedOnce
  <2>5. HasASegment
    BY <2>1 DEF HasASegment
  <2> QED
    BY <2>4, <2>5
<1>2. Typed /\ Typed' /\ Submissions /\ HasASegment /\ TrainedOnce /\ [EchoNext]_echoVars
        => HasASegment' /\ TrainedOnce'
  BY HasASegmentStep, TrainedOnceStep
<1> QED
  BY <1>1, <1>2, TypedAlways, SubmissionsAlways, PTL DEF EchoSpec

\* A rollout trains on no token twice, in whichever segment the compressions left
\* it, on no turn that was rolled back and, unless it is overlong, on every other
\* turn (_save_current_trajectory_without_current_turn and the
\* _trigger_ functions of tool_agent_loop.py).
THEOREM TurnsAreTrainedOnce == EchoSpec => []EachTurnIsTrainedOnce
<1>3. ASSUME Typed, TrainedOnce, Over PROVE EachTurnIsTrainedOnce
  <2> DEFINE segs == trajectory_outputs
             T == IdsOf(segs)
             token(x) == segs[x[1]].response[x[2]]
  <2>1. /\ DOMAIN segs = 1..Len(segs)
        /\ \A i \in DOMAIN segs : DOMAIN segs[i].response = 1..Len(segs[i].response)
    <3>1. DOMAIN segs = 1..Len(segs) /\ \A i \in 1..Len(segs) : segs[i].response \in Seq(Item)
      BY <1>3, OutputsAre
    <3> QED
      BY <3>1
  <2>2. ASSUME NEW x \in TrainedAt(segs)
        PROVE  \E i \in 1..Len(segs) : \E p \in 1..Len(segs[i].response) :
                 x = <<i, p>> /\ x[1] = i /\ x[2] = p /\ segs[i].response[p].mask = 1
    <3>1. \E i \in DOMAIN segs :
            \E p \in DOMAIN segs[i].response : segs[i].response[p].mask = 1 /\ x = <<i, p>>
      BY <2>2 DEF TrainedAt
    <3> QED
      BY <2>1, <3>1
  <2>3. Apart(segs) /\ Known(T, generations) /\ (~overlong => Complete(T, generations))
    <3>1. Carried = {}
      BY <1>3 DEF Carried, Pending, Over
    <3>2. T \cup Carried = T
      BY <3>1
    <3> QED
      BY <1>3, <3>2 DEF TrainedOnce
  <2>4. \A x, y \in TrainedAt(segs) : token(x).id = token(y).id => x = y
    <3> SUFFICES ASSUME NEW x \in TrainedAt(segs), NEW y \in TrainedAt(segs), token(x).id = token(y).id
                 PROVE  x = y
      OBVIOUS
    <3>1. PICK i \in Nat, p \in Nat :
            /\ i \in 1..Len(segs) /\ p \in 1..Len(segs[i].response)
            /\ x = <<i, p>> /\ x[1] = i /\ x[2] = p /\ segs[i].response[p].mask = 1
      BY <2>2
    <3>2. PICK j \in Nat, q \in Nat :
            /\ j \in 1..Len(segs) /\ q \in 1..Len(segs[j].response)
            /\ y = <<j, q>> /\ y[1] = j /\ y[2] = q /\ segs[j].response[q].mask = 1
      BY <2>2
    <3>3. segs[i].response[p].id = segs[j].response[q].id
      BY <3>1, <3>2
    <3>4. segs[i].response[p].id \in TrainedIds(segs[i].response) /\ segs[j].response[q].id \in TrainedIds(segs[j].response)
      BY <3>1, <3>2 DEF TrainedIds
    <3>5. i = j
      BY <2>3, <3>1, <3>2, <3>3, <3>4 DEF Apart
    <3>6. p = q
      BY <2>3, <3>1, <3>2, <3>3, <3>5 DEF Apart, Unrepeated
    <3> QED
      BY <3>1, <3>2, <3>5, <3>6
  <2>5. {token(x).id : x \in TrainedAt(segs)} = T
    <3>1. {token(x).id : x \in TrainedAt(segs)} \subseteq T
      <4> SUFFICES ASSUME NEW x \in TrainedAt(segs) PROVE token(x).id \in T
        OBVIOUS
      <4>1. PICK i \in Nat, p \in Nat :
              /\ i \in 1..Len(segs) /\ p \in 1..Len(segs[i].response)
              /\ x = <<i, p>> /\ x[1] = i /\ x[2] = p /\ segs[i].response[p].mask = 1
        BY <2>2
      <4>2. token(x).id \in TrainedIds(segs[i].response)
        BY <4>1 DEF TrainedIds
      <4> QED
        BY <4>1, <4>2 DEF IdsOf
    <3>2. T \subseteq {token(x).id : x \in TrainedAt(segs)}
      <4> SUFFICES ASSUME NEW id \in T PROVE id \in {token(x).id : x \in TrainedAt(segs)}
        OBVIOUS
      <4>1. PICK i \in 1..Len(segs) : id \in TrainedIds(segs[i].response)
        BY DEF IdsOf
      <4>2. PICK p \in 1..Len(segs[i].response) : segs[i].response[p].mask = 1 /\ id = segs[i].response[p].id
        BY <4>1 DEF TrainedIds
      <4>3. <<i, p>> \in TrainedAt(segs)
        BY <2>1, <4>2 DEF TrainedAt
      <4>4. token(<<i, p>>) = segs[i].response[p]
        OBVIOUS
      <4> QED
        BY <4>2, <4>3, <4>4
    <3> QED
      BY <3>1, <3>2
  <2>6. \A n : PolicyTokens(n) = {id \in T : id.of = n}
    BY <2>5 DEF PolicyTokens
  <2>7. DOMAIN generations = 1..Len(generations)
    BY <1>3 DEF Typed, HistoryTypes
  <2>8. ASSUME NEW n \in DOMAIN generations
        PROVE  /\ generations[n].fate = "rolled back" => PolicyTokens(n) = {}
               /\ generations[n].fate # "rolled back" /\ ~overlong => PolicyTokens(n) # {}
    <3>1. generations[n].fate = "rolled back" => {id \in T : id.of = n} = {}
      BY <2>3 DEF Known
    <3>2. generations[n].fate # "rolled back" /\ ~overlong => {id \in T : id.of = n} # {}
      BY <2>3, <2>7 DEF Complete, Uses
    <3> QED
      BY <2>6, <3>1, <3>2
  <2> QED
    BY <2>4, <2>8 DEF EachTurnIsTrainedOnce
<1>4. Typed /\ TrainedOnce => EachTurnIsTrainedOnce
  BY <1>3 DEF EachTurnIsTrainedOnce
<1> QED
  BY <1>4, TrainedOnceAlways, TypedAlways, PTL

-----------------------------------------------------------------------------
(* What the trained tokens were sampled after                               *)

Selection(m, gens, n) == m = "echo_e2e" /\ gens[n].fate = "auxiliary"

Follows(gens, prompt, r, p) ==
  prompt \o Ids(SubSeq(r, 1, p - 1)) =
    gens[r[p].id.of].prompt \o Tokens(r[p].id.of, "policy", r[p].id.at - 1)

\* The token at p of a response keeps its prefix, or is a selection's.
Kept(m, gens, prompt, r, p) ==
  r[p].id.of \in 1..Len(gens) /\ (Selection(m, gens, r[p].id.of) \/ Follows(gens, prompt, r, p))

AllKept(m, gens, prompt, r) ==
  Len(prompt) <= PromptLength /\ \A p \in 1..Len(r) : r[p].mask = 1 => Kept(m, gens, prompt, r, p)

\* Generations are added, or rolled back; their prompts stay.
Later(gens, new) ==
  /\ Len(gens) \in Nat /\ Len(new) \in Nat /\ Len(gens) <= Len(new)
  /\ \A n \in 1..Len(gens) :
       new[n].prompt = gens[n].prompt /\ (gens[n].fate = "auxiliary" => new[n].fate = "auxiliary")

SegmentsKept(m, gens, segments) ==
  \A i \in 1..Len(segments) : AllKept(m, gens, segments[i].prompt, segments[i].response)

\* What the next generation is sampled from.
SampledAfter ==
  Running =>
    /\ ~is_summarizing => prompt_ids = current_traj_prompt_ids \o Ids(accumulated)
    /\ is_summarizing => prompt_ids = current_traj_prompt_ids \o Ids(accumulated) \o sum_instruction_ids

Prefixed ==
  /\ SegmentsKept(method, generations, trajectory_outputs)
  /\ AllKept(method, generations, current_traj_prompt_ids, accumulated)
  /\ SampledAfter

\* The prompts that the configured lengths allow for are within prompt_length.
PromptsFit == {InitialLength, TruncateBudget, SelectionBudget} \subseteq 0..PromptLength

LEMMA SamePrefix ==
  ASSUME NEW m, NEW gens, NEW prompt, NEW r \in Seq(Item), NEW s \in Seq(Item),
         NEW p \in 1..Len(r), p \in 1..Len(s), \A q \in 1..p : s[q] = r[q],
         Kept(m, gens, prompt, r, p)
  PROVE  Kept(m, gens, prompt, s, p)
<1> DEFINE a == SubSeq(r, 1, p - 1)
           b == SubSeq(s, 1, p - 1)
<1>1. p \in Nat \ {0} /\ Len(r) \in Nat /\ Len(s) \in Nat
  OBVIOUS
<1>2. a \in Seq(Item) /\ Len(a) = p - 1 /\ \A q \in 1..(p - 1) : a[q] = r[q]
  BY <1>1
<1>3. b \in Seq(Item) /\ Len(b) = p - 1 /\ \A q \in 1..(p - 1) : b[q] = s[q]
  BY <1>1
<1> HIDE DEF a, b
<1>4. \A q \in 1..(p - 1) : a[q] = b[q]
  BY <1>1, <1>2, <1>3
<1>5. a = b
  BY <1>2, <1>3, <1>4, SeqEqual
<1>6. s[p] = r[p]
  BY <1>1
<1> QED
  BY <1>5, <1>6 DEF Kept, Follows, a, b

LEMMA ShorterKept ==
  ASSUME NEW m, NEW gens, NEW prompt, NEW r \in Seq(Item), NEW s \in Seq(Item),
         Len(s) <= Len(r), \A q \in 1..Len(s) : s[q] = r[q], AllKept(m, gens, prompt, r)
  PROVE  AllKept(m, gens, prompt, s)
<1> SUFFICES ASSUME NEW p \in 1..Len(s), s[p].mask = 1 PROVE Kept(m, gens, prompt, s, p)
  BY DEF AllKept
<1>1. p \in 1..Len(r) /\ \A q \in 1..p : q \in 1..Len(s)
  OBVIOUS
<1>2. \A q \in 1..p : s[q] = r[q]
  BY <1>1
<1>3. r[p].mask = 1
  OBVIOUS
<1> QED
  BY <1>1, <1>2, <1>3, SamePrefix DEF AllKept

LEMMA LaterKept ==
  ASSUME NEW m, NEW gens, NEW new, Later(gens, new)
  PROVE  /\ \A prompt, r : AllKept(m, gens, prompt, r) => AllKept(m, new, prompt, r)
         /\ \A segments : SegmentsKept(m, gens, segments) => SegmentsKept(m, new, segments)
<1>1. ASSUME NEW prompt, NEW r, NEW p, Kept(m, gens, prompt, r, p)
      PROVE  Kept(m, new, prompt, r, p)
  <2> DEFINE n == r[p].id.of
  <2>1. n \in 1..Len(gens) /\ n \in 1..Len(new)
    BY <1>1 DEF Kept, Later
  <2>2. new[n].prompt = gens[n].prompt /\ (gens[n].fate = "auxiliary" => new[n].fate = "auxiliary")
    BY <2>1 DEF Later
  <2>3. Selection(m, gens, n) => Selection(m, new, n)
    BY <2>2 DEF Selection
  <2>4. Follows(gens, prompt, r, p) => Follows(new, prompt, r, p)
    BY <2>2 DEF Follows
  <2> QED
    BY <1>1, <2>1, <2>3, <2>4 DEF Kept
<1>2. \A prompt, r : AllKept(m, gens, prompt, r) => AllKept(m, new, prompt, r)
  BY <1>1 DEF AllKept
<1> QED
  BY <1>2 DEF SegmentsKept

\* Tokens that are not trained on may follow.
LEMMA UntrainedKept ==
  ASSUME NEW m, NEW gens, NEW prompt, NEW r \in Seq(Item), NEW ids \in Seq(Token), AllKept(m, gens, prompt, r)
  PROVE  AllKept(m, gens, prompt, r \o Untrained(ids))
<1> DEFINE u == Untrained(ids)
           s == r \o u
<1>1. u \in Seq(Item) /\ \A i \in 1..Len(u) : u[i].mask = 0
  <2>1. u \in Seq(Item) /\ Len(u) = Len(ids)
    BY MaskedType
  <2>2. ASSUME NEW i \in 1..Len(ids) PROVE u[i].mask = 0
    <3>1. u[i] = [id |-> ids[i], mask |-> 0]
      BY MaskedType
    <3> QED
      BY <3>1
  <2> QED
    BY <2>1, <2>2
<1> HIDE DEF u
<1>2. /\ s \in Seq(Item) /\ Len(s) = Len(r) + Len(u) /\ Len(r) \in Nat /\ Len(u) \in Nat
      /\ \A q \in 1..Len(r) : s[q] = r[q]
      /\ \A q \in 1..Len(u) : s[Len(r) + q] = u[q]
  BY <1>1
<1> HIDE DEF s
<1>3. ASSUME NEW p \in 1..Len(s), s[p].mask = 1 PROVE Kept(m, gens, prompt, s, p)
  <2>1. CASE p <= Len(r)
    <3>1. p \in 1..Len(r) /\ \A q \in 1..p : q \in 1..Len(r)
      BY <1>2, <2>1
    <3>2. \A q \in 1..p : s[q] = r[q]
      BY <1>2, <3>1
    <3>3. r[p].mask = 1
      BY <1>2, <1>3, <3>1
    <3>4. Kept(m, gens, prompt, r, p)
      BY <3>1, <3>3 DEF AllKept
    <3> QED
      BY <1>2, <3>1, <3>2, <3>4, SamePrefix
  <2>2. CASE ~(p <= Len(r))
    <3>1. p - Len(r) \in 1..Len(u) /\ Len(r) + (p - Len(r)) = p
      BY <1>2, <2>2
    <3>2. s[p] = u[p - Len(r)]
      BY <1>2, <3>1
    <3> QED
      BY <1>1, <1>3, <3>1, <3>2
  <2> QED
    BY <2>1, <2>2
<1> QED
  BY <1>3 DEF AllKept, s, u

\* A generation follows the prompt that it was sampled from.
LEMMA SpokenKept ==
  ASSUME NEW m, NEW gens, NEW prompt \in Seq(Token), NEW r \in Seq(Item), NEW n \in 1..Len(gens), n \in Nat,
         NEW len \in Nat \ {0}, AllKept(m, gens, prompt, r),
         Selection(m, gens, n) \/ gens[n].prompt = prompt \o Ids(r)
  PROVE  AllKept(m, gens, prompt, r \o Trained(Tokens(n, "policy", len)))
<1> DEFINE t == Trained(Tokens(n, "policy", len))
           s == r \o t
<1>1. /\ t \in Seq(Item) /\ Len(t) = len
      /\ \A i \in 1..len : t[i].mask = 1 /\ t[i].id = [of |-> n, role |-> "policy", at |-> i]
  BY SpokenIds
<1> HIDE DEF t
<1>2. /\ s \in Seq(Item) /\ Len(s) = Len(r) + len /\ Len(r) \in Nat
      /\ \A q \in 1..Len(r) : s[q] = r[q]
      /\ \A q \in 1..len : s[Len(r) + q] = t[q]
  BY <1>1
<1> HIDE DEF s
<1>3. ASSUME NEW p \in 1..Len(s), s[p].mask = 1 PROVE Kept(m, gens, prompt, s, p)
  <2>1. CASE p <= Len(r)
    <3>1. p \in 1..Len(r) /\ \A q \in 1..p : q \in 1..Len(r)
      BY <1>2, <2>1
    <3>2. \A q \in 1..p : s[q] = r[q]
      BY <1>2, <3>1
    <3>3. r[p].mask = 1
      BY <1>2, <1>3, <3>1
    <3>4. Kept(m, gens, prompt, r, p)
      BY <3>1, <3>3 DEF AllKept
    <3> QED
      BY <1>2, <3>1, <3>2, <3>4, SamePrefix
  <2>2. CASE ~(p <= Len(r))
    <3> DEFINE j == p - Len(r)
               before == Tokens(n, "policy", j - 1)
               prefix == SubSeq(s, 1, p - 1)
    <3>1. j \in 1..len /\ j - 1 \in Nat /\ Len(r) + j = p /\ p - 1 \in 0..Len(s) /\ p \in Nat \ {0}
      BY <1>2, <2>2
    <3>2. s[p] = t[j]
      BY <1>2, <3>1
    <3>3. s[p].id.of = n /\ s[p].id.at = j
      <4>1. s[p].id = [of |-> n, role |-> "policy", at |-> j]
        BY <1>1, <3>1, <3>2
      <4> QED
        BY <4>1
    <3>4. /\ before \in Seq(Token) /\ Len(before) = j - 1
          /\ \A i \in 1..(j - 1) : before[i] = [of |-> n, role |-> "policy", at |-> i]
      BY <3>1, TokensType DEF Roles
    <3>5. prefix \in Seq(Item) /\ Len(prefix) = p - 1 /\ \A i \in 1..(p - 1) : prefix[i] = s[i]
      <4>1. s \in Seq(Item) /\ Len(s) \in Nat /\ p \in 1..Len(s) /\ p - 1 \in Nat
        BY <1>2, <3>1
      <4> HIDE DEF j, before
      <4> QED
        BY <4>1
    <3> HIDE DEF before, prefix, j
    <3>6. Ids(prefix) = Ids(r) \o before
      <4>1. Ids(prefix) \in Seq(Token) /\ Len(Ids(prefix)) = p - 1 /\ \A i \in 1..(p - 1) : Ids(prefix)[i] = prefix[i].id
        BY <3>5, IdsType
      <4>2. Ids(r) \in Seq(Token) /\ Len(Ids(r)) = Len(r) /\ \A i \in 1..Len(r) : Ids(r)[i] = r[i].id
        BY IdsType
      <4>3. Ids(r) \o before \in Seq(Token) /\ Len(Ids(r) \o before) = p - 1
        <5>1. Ids(r) \o before \in Seq(Token) /\ Len(Ids(r) \o before) = Len(Ids(r)) + Len(before)
          BY <3>4, <4>2, ConcatProperties
        <5> QED
          BY <1>2, <3>1, <3>4, <4>2, <5>1
      <4>4. ASSUME NEW i \in 1..(p - 1) PROVE Ids(prefix)[i] = (Ids(r) \o before)[i]
        <5>1. Ids(prefix)[i] = s[i].id
          BY <3>5, <4>1
        <5>2. CASE i <= Len(r)
          <6>1. i \in 1..Len(r) /\ i \in 1..Len(Ids(r))
            BY <1>2, <3>1, <4>2, <5>2
          <6>2. (Ids(r) \o before)[i] = Ids(r)[i]
            BY <3>4, <4>2, <6>1, ConcatProperties
          <6> QED
            BY <1>2, <4>2, <5>1, <6>1, <6>2
        <5>3. CASE ~(i <= Len(r))
          <6>1. i - Len(r) \in 1..(j - 1) /\ i - Len(r) \in 1..len /\ Len(r) + (i - Len(r)) = i
            BY <1>2, <3>1, <5>3
          <6>2. (Ids(r) \o before)[i] = before[i - Len(r)]
            BY <3>4, <4>2, <5>3, <6>1
          <6>3. s[i] = t[i - Len(r)]
            BY <1>2, <6>1
          <6> QED
            BY <1>1, <3>4, <5>1, <6>1, <6>2, <6>3
        <5> QED
          BY <5>2, <5>3
      <4> QED
        BY <4>1, <4>3, <4>4, SeqEqual
    <3>7. CASE Selection(m, gens, n)
      BY <3>3, <3>7 DEF Kept
    <3>8. CASE gens[n].prompt = prompt \o Ids(r)
      <4>1. Ids(r) \in Seq(Token)
        BY IdsType
      <4>2. prompt \o (Ids(r) \o before) = (prompt \o Ids(r)) \o before
        BY SMTT(30), <3>4, <4>1
      <4>3. prompt \o Ids(prefix) = gens[n].prompt \o before
        BY <3>6, <3>8, <4>2
      <4>4. Follows(gens, prompt, s, p)
        BY <3>3, <4>3 DEF Follows, prefix, before
      <4> QED
        BY <3>3, <4>4 DEF Kept
    <3> QED
      BY <3>7, <3>8
  <2> QED
    BY <2>1, <2>2
<1> QED
  BY <1>3 DEF AllKept, s, t

LEMMA SavedKept ==
  ASSUME Typed, NEW r \in Seq(Item), NEW m, NEW gens,
         SegmentsKept(m, gens, trajectory_outputs), AllKept(m, gens, current_traj_prompt_ids, r)
  PROVE  SegmentsKept(m, gens, Saved(r))
<1>1. CASE r = <<>>
  BY <1>1, SavedIs
<1>2. CASE r # <<>>
  <2> DEFINE n == Len(trajectory_outputs)
             new == Saved(r)
  <2>1. /\ n \in Nat /\ Len(new) = n + 1 /\ \A i \in 1..n : new[i] = trajectory_outputs[i]
        /\ new[n + 1] = Segment(current_traj_prompt_ids, r, FALSE)
    BY <1>2, SavedIs
  <2>2. new[n + 1].prompt = current_traj_prompt_ids /\ new[n + 1].response = r
    BY <2>1 DEF Segment
  <2> HIDE DEF n, new
  <2>3. \A i \in 1..(n + 1) : i \in 1..n \/ i = n + 1
    BY <2>1
  <2>4. \A i \in 1..n : AllKept(m, gens, new[i].prompt, new[i].response)
    BY <2>1 DEF SegmentsKept, n
  <2>5. SegmentsKept(m, gens, new)
    BY <2>1, <2>2, <2>3, <2>4 DEF SegmentsKept
  <2> QED
    BY <2>5 DEF new
<1> QED
  BY <1>1, <1>2

\* A context begins with a prompt that fits, and an untrained prefix.
LEMMA NewContextKept ==
  ASSUME NEW first \in Seq(Token), NEW prefix \in Seq(Token), Len(first) <= PromptLength,
         NewContext(first \o prefix, first, prefix), NEW m, NEW gens
  PROVE  AllKept(m, gens, current_traj_prompt_ids', accumulated') /\ SampledAfter'
<1>1. /\ prompt_ids' = first \o prefix /\ current_traj_prompt_ids' = first /\ accumulated' = Untrained(prefix)
      /\ is_summarizing' = FALSE
  BY DEF NewContext
<1>2. Ids(Untrained(prefix)) = prefix
  <2>1. <<>> \in Seq(Item)
    OBVIOUS
  <2> QED
    BY <2>1, IdsOfBoth
<1>3. SampledAfter'
  BY <1>1, <1>2 DEF SampledAfter
<1>4. \A p \in 1..Len(Untrained(prefix)) : Untrained(prefix)[p].mask = 0
  <2>1. Len(Untrained(prefix)) = Len(prefix)
    BY MaskedType
  <2> SUFFICES ASSUME NEW p \in 1..Len(prefix) PROVE Untrained(prefix)[p].mask = 0
    BY <2>1
  <2>2. Untrained(prefix)[p] = [id |-> prefix[p], mask |-> 0]
    BY MaskedType
  <2> QED
    BY <2>2
<1> QED
  BY <1>1, <1>3, <1>4 DEF AllKept

LEMMA NewPromptFits ==
  ASSUME PromptsFit, NEW p, NewPrompt(p)
  PROVE  p \in Seq(Token) /\ Len(p) <= PromptLength
<1>1. p \in Seq(Token) /\ Len(p) \in Nat /\ (Len(p) <= TruncateBudget \/ Len(p) <= SelectionBudget)
  BY DEF NewPrompt
<1>2. TruncateBudget <= PromptLength /\ SelectionBudget <= PromptLength
  BY DEF PromptsFit
<1> QED
  BY <1>1, <1>2, Limits

LEMMA CompressedKept ==
  ASSUME PromptsFit, Typed, NEW before \in Seq(Item), Compressed(before), NEW m, NEW gens,
         AllKept(m, gens, current_traj_prompt_ids, before)
  PROVE  AllKept(m, gens, current_traj_prompt_ids', accumulated') /\ SampledAfter'
<1>1. CASE Terminate(before, TRUE)
  <2>1. /\ accumulated' = before /\ current_traj_prompt_ids' = current_traj_prompt_ids /\ state' = "terminated"
    BY <1>1 DEF Terminate
  <2> QED
    BY <2>1 DEF SampledAfter, Running
<1>2. ASSUME NEW p, NewPrompt(p), NewContext(p, p, <<>>)
      PROVE  AllKept(m, gens, current_traj_prompt_ids', accumulated') /\ SampledAfter'
  <2>1. p \in Seq(Token) /\ Len(p) <= PromptLength /\ p \o <<>> = p /\ <<>> \in Seq(Token)
    BY <1>2, NewPromptFits
  <2>2. NewContext(p \o <<>>, p, <<>>)
    BY <1>2, <2>1
  <2> QED
    BY <2>1, <2>2, NewContextKept
<1>3. CASE AskForCompression(before)
  <2> DEFINE instruction == Tokens(Len(generations'), "instruction", 1)
  <2>1. /\ sum_instruction_ids' = instruction /\ is_summarizing' = TRUE
        /\ prompt_ids' = current_traj_prompt_ids \o Ids(before) \o instruction
        /\ accumulated' = before /\ current_traj_prompt_ids' = current_traj_prompt_ids
    BY <1>3 DEF AskForCompression
  <2> HIDE DEF instruction
  <2> QED
    BY <2>1 DEF SampledAfter
<1> QED
  BY <1>1, <1>2, <1>3 DEF Compressed

LEMMA SampledLater ==
  ASSUME Typed, NEW fate \in Fates, Sampled(fate)
  PROVE  /\ Later(generations, generations')
         /\ Generation \in Nat /\ Generation \in 1..Len(generations')
         /\ generations'[Generation].prompt = prompt_ids /\ generations'[Generation].fate = fate
<1> DEFINE n == Len(generations)
<1>1. n \in Nat /\ Generation = n + 1
  BY DEF Typed, HistoryTypes, Generation
<1>2. /\ Len(generations') = n + 1 /\ \A i \in 1..n : generations'[i] = generations[i]
      /\ generations'[n + 1] = [prompt |-> prompt_ids, fate |-> fate]
  BY SampledType
<1>3. generations'[n + 1].prompt = prompt_ids /\ generations'[n + 1].fate = fate
  BY <1>2
<1>4. Len(generations') \in Nat /\ n <= Len(generations') /\ n + 1 \in 1..Len(generations')
  BY <1>1, <1>2
<1> QED
  BY <1>1, <1>2, <1>3, <1>4 DEF Later

LEMMA RolledBackLater ==
  ASSUME Typed, state = "processing_tools", RollBack
  PROVE  Later(generations, generations')
<1> DEFINE n == Len(generations)
<1>1. n \in Nat /\ n \in 1..n /\ generations[n].fate = "turn"
  <2>1. generations \in Seq(Sample) /\ generations # <<>> /\ generations[n].fate = "turn"
    BY DEF Typed, HistoryTypes
  <2>2. n \in Nat /\ n \in 1..n
    BY <2>1
  <2> QED
    BY <2>1, <2>2
<1>2. /\ Len(generations') = n
      /\ \A i \in 1..n : generations'[i].prompt = generations[i].prompt
      /\ \A i \in 1..n : i # n => generations'[i].fate = generations[i].fate
  BY RollBackType
<1>3. n <= n
  BY <1>1
<1> QED
  BY <1>1, <1>2, <1>3 DEF Later

LEMMA TurnKept ==
  ASSUME Typed, Prefixed, LastTurn \/ Turn
  PROVE  Prefixed'
<1>1. PICK reply \in Replies : Spoke(reply)
  BY TurnIs
<1>2. /\ state = "generating" /\ ~is_summarizing /\ Sampled("turn") /\ accumulated' = Extended(reply)
      /\ trajectory_outputs' = trajectory_outputs /\ current_traj_prompt_ids' = current_traj_prompt_ids
      /\ is_summarizing' = is_summarizing /\ method' = method
      /\ state' = "terminated" \/ prompt_ids' = prompt_ids \o Response(reply)
      /\ "turn" \in Fates
  BY <1>1, GeneratedType DEF Spoke, Fates
<1>3. /\ accumulated \in Seq(Item) /\ current_traj_prompt_ids \in Seq(Token)
      /\ Response(reply) \in Seq(Token) /\ Len(reply) \in Nat \ {0}
  BY ExtendedType, ReplyType DEF Typed, ContextTypes
<1>4. prompt_ids = current_traj_prompt_ids \o Ids(accumulated)
  BY <1>2 DEF Prefixed, SampledAfter, Running
<1>5. /\ Later(generations, generations')
      /\ Generation \in Nat /\ Generation \in 1..Len(generations') /\ generations'[Generation].prompt = prompt_ids
  BY <1>2, SampledLater
<1>6. /\ SegmentsKept(method, generations', trajectory_outputs)
      /\ AllKept(method, generations', current_traj_prompt_ids, accumulated)
  BY <1>5, LaterKept DEF Prefixed
<1>7. AllKept(method, generations', current_traj_prompt_ids, Extended(reply))
  BY <1>3, <1>4, <1>5, <1>6, SpokenKept DEF Extended, Response
<1>8. SampledAfter'
  <2>1. CASE state' = "terminated"
    BY <2>1 DEF SampledAfter, Running
  <2>2. CASE prompt_ids' = prompt_ids \o Response(reply)
    <3> DEFINE t == Response(reply)
    <3>1. Trained(t) \in Seq(Item) /\ Ids(accumulated) \in Seq(Token)
      BY <1>3, MaskedType, IdsType
    <3>2. Ids(accumulated \o Trained(t)) = Ids(accumulated) \o t
      BY <1>3, <3>1, IdsOfBoth
    <3> HIDE DEF t
    <3>3. current_traj_prompt_ids \o (Ids(accumulated) \o t) = (current_traj_prompt_ids \o Ids(accumulated)) \o t
      BY SMTT(30), <1>3, <3>1 DEF t
    <3>4. prompt_ids' = current_traj_prompt_ids \o Ids(accumulated \o Trained(t))
      BY <1>4, <2>2, <3>2, <3>3 DEF t
    <3>5. prompt_ids' = current_traj_prompt_ids' \o Ids(accumulated')
      BY <1>2, <3>4 DEF t, Extended
    <3> QED
      BY <1>2, <3>5 DEF SampledAfter
  <2> QED
    BY <1>2, <2>1, <2>2
<1> QED
  BY <1>2, <1>6, <1>7, <1>8 DEF Prefixed

LEMMA CutOffKept ==
  ASSUME PromptsFit, Typed, Prefixed, CutOff
  PROVE  Prefixed'
<1>1. PICK reply \in Replies : WasCutOff(reply)
  BY CutOffIs
<1>2. /\ state = "generating" /\ ~is_summarizing /\ method' = method
  BY <1>1, GeneratedType DEF WasCutOff
<1>3. /\ accumulated \in Seq(Item) /\ current_traj_prompt_ids \in Seq(Token) /\ Len(reply) \in Nat \ {0}
  BY ReplyType DEF Typed, ContextTypes
<1>4. prompt_ids = current_traj_prompt_ids \o Ids(accumulated)
  BY <1>2 DEF Prefixed, SampledAfter, Running
<1>5. /\ Later(generations, generations')
      /\ Generation \in Nat /\ Generation \in 1..Len(generations') /\ generations'[Generation].prompt = prompt_ids
  <2>1. Sampled("rolled back") /\ "rolled back" \in Fates
    BY <1>1 DEF WasCutOff, Fates
  <2> QED
    BY <2>1, SampledLater
<1>6. /\ SegmentsKept(method, generations', trajectory_outputs)
      /\ AllKept(method, generations', current_traj_prompt_ids, accumulated)
  BY <1>5, LaterKept DEF Prefixed
<1>7. CASE Terminate(Extended(reply), TRUE) /\ UNCHANGED trajectory_outputs
  <2>1. /\ state' = "terminated" /\ accumulated' = Extended(reply)
        /\ current_traj_prompt_ids' = current_traj_prompt_ids /\ trajectory_outputs' = trajectory_outputs
    BY <1>7 DEF Terminate
  <2>2. AllKept(method, generations', current_traj_prompt_ids, Extended(reply))
    BY <1>3, <1>4, <1>5, <1>6, SpokenKept DEF Extended, Response
  <2>3. SampledAfter'
    BY <2>1 DEF SampledAfter, Running
  <2> QED
    BY <1>2, <1>6, <2>1, <2>2, <2>3 DEF Prefixed
<1>8. CASE trajectory_outputs' = Saved(accumulated) /\ Compressed(accumulated)
  <2>1. SegmentsKept(method, generations', trajectory_outputs')
    BY <1>3, <1>6, <1>8, SavedKept
  <2>2. AllKept(method, generations', current_traj_prompt_ids', accumulated') /\ SampledAfter'
    BY <1>3, <1>6, <1>8, CompressedKept
  <2> QED
    BY <1>2, <2>1, <2>2 DEF Prefixed
<1> QED
  BY <1>1, <1>7, <1>8 DEF WasCutOff

LEMMA AuxiliaryKept ==
  ASSUME PromptsFit, Typed, HasASegment, Prefixed, Summarize \/ SelectTurns
  PROVE  Prefixed'
<1> DEFINE ids == Tokens(Generation, "policy", 1)
           k == Len(trajectory_outputs)
           full == current_traj_prompt_ids \o Ids(accumulated) \o sum_instruction_ids
<1>1. /\ state = "generating" /\ is_summarizing /\ Sampled("auxiliary") /\ method' = method
      /\ \/ trajectory_outputs' = WithSummary(ids)
         \/ method = "echo_e2e" /\ trajectory_outputs' = WithSelection(ids)
  BY AuxiliaryIs DEF AuxiliaryGeneration, config
<1>2. prompt_ids = full
  BY <1>1 DEF Prefixed, SampledAfter, Running
<1>3. /\ Later(generations, generations')
      /\ Generation \in Nat /\ Generation \in 1..Len(generations')
      /\ generations'[Generation].prompt = prompt_ids /\ generations'[Generation].fate = "auxiliary"
  BY <1>1, SampledLater DEF Fates
<1>4. /\ SegmentsKept(method, generations', trajectory_outputs)
      /\ AllKept(method, generations', current_traj_prompt_ids, accumulated)
  BY <1>3, LaterKept DEF Prefixed
<1>5. ids \in Seq(Token) /\ full \in Seq(Token) /\ sum_instruction_ids \in Seq(Token) /\ 1 \in Nat \ {0}
  BY <1>3, TokensType, IdsType, ConcatProperties DEF Roles, Typed, ContextTypes
<1>6. SegmentsKept(method, generations', trajectory_outputs')
  <2>1. CASE trajectory_outputs' = WithSummary(ids)
    <3> DEFINE first == First(full, PromptLength)
               rest == Rest(full, PromptLength)
               response == Untrained(rest) \o Trained(ids)
               s == Segment(first, response, FALSE)
    <3>1. /\ k \in Nat /\ Len(trajectory_outputs') = k + 1
          /\ \A i \in 1..k : trajectory_outputs'[i] = trajectory_outputs[i]
          /\ trajectory_outputs'[k + 1] = s
      BY <1>5, <2>1, SummaryIs
    <3>2. s.prompt = first /\ s.response = response
      BY DEF Segment
    <3> HIDE DEF full
    <3>3. /\ first \in Seq(Token) /\ rest \in Seq(Token) /\ first \o rest = full
          /\ Len(first) = (IF PromptLength < Len(full) THEN PromptLength ELSE Len(full))
      BY <1>5, Limits, PartsType, PartsAre
    <3>4. Len(first) <= PromptLength
      BY <1>5, <3>3, Limits
    <3> HIDE DEF first, rest
    <3>5. Untrained(rest) \in Seq(Item) /\ Ids(Untrained(rest)) = rest
      <4>1. <<>> \in Seq(Item)
        OBVIOUS
      <4> QED
        BY <3>3, <4>1, MaskedType, IdsOfBoth
    <3>6. AllKept(method, generations', first, Untrained(rest))
      <4>1. \A p \in 1..Len(Untrained(rest)) : Untrained(rest)[p].mask = 0
        <5>1. Len(Untrained(rest)) = Len(rest)
          BY <3>3, MaskedType
        <5> SUFFICES ASSUME NEW p \in 1..Len(rest) PROVE Untrained(rest)[p].mask = 0
          BY <5>1
        <5>2. Untrained(rest)[p] = [id |-> rest[p], mask |-> 0]
          BY <3>3, MaskedType
        <5> QED
          BY <5>2
      <4> QED
        BY <3>4, <4>1 DEF AllKept
    <3>7. generations'[Generation].prompt = first \o Ids(Untrained(rest))
      BY <1>2, <1>3, <3>3, <3>5
    <3>8. AllKept(method, generations', first, response)
      BY <1>3, <1>5, <3>3, <3>5, <3>6, <3>7, SpokenKept
    <3> HIDE DEF s, response
    <3>9. \A i \in 1..k : AllKept(method, generations', trajectory_outputs'[i].prompt, trajectory_outputs'[i].response)
      BY <1>4, <3>1 DEF SegmentsKept
    <3>10. AllKept(method, generations', trajectory_outputs'[k + 1].prompt, trajectory_outputs'[k + 1].response)
      BY <3>1, <3>2, <3>8
    <3>11. \A i \in 1..(k + 1) : i \in 1..k \/ i = k + 1
      BY <3>1
    <3> QED
      BY <3>1, <3>9, <3>10, <3>11 DEF SegmentsKept
  <2>2. CASE method = "echo_e2e" /\ trajectory_outputs' = WithSelection(ids)
    <3>1. trajectory_outputs # <<>>
      BY <1>1, <2>2 DEF HasASegment, Running
    <3> DEFINE last == trajectory_outputs[k]
               asked == last.response \o Untrained(sum_instruction_ids)
               longer == last.response \o Untrained(sum_instruction_ids) \o Trained(ids)
               s == [prompt |-> last.prompt, response |-> longer, final |-> last.final]
    <3>2. /\ k \in 1..k /\ Len(trajectory_outputs') = k
          /\ \A i \in 1..k : trajectory_outputs'[i] = IF i = k THEN s ELSE trajectory_outputs[i]
      BY <1>5, <2>2, <3>1, SelectionIs
    <3>3. last.response \in Seq(Item) /\ last.prompt \in Seq(Token)
      BY <3>2, OutputsAre
    <3>4. AllKept(method, generations', last.prompt, last.response)
      BY <1>4, <3>2 DEF SegmentsKept
    <3>5. s.prompt = last.prompt /\ s.response = longer
      OBVIOUS
    <3> HIDE DEF last
    <3>6. asked \in Seq(Item) /\ AllKept(method, generations', last.prompt, asked)
      BY <1>5, <3>3, <3>4, MaskedType, ConcatProperties, UntrainedKept
    <3>7. Selection(method, generations', Generation)
      BY <1>3, <2>2 DEF Selection
    <3>8. longer = asked \o Trained(ids)
      OBVIOUS
    <3> HIDE DEF asked, longer
    <3>9. AllKept(method, generations', last.prompt, longer)
      BY <1>3, <1>5, <3>3, <3>6, <3>7, <3>8, SpokenKept
    <3> HIDE DEF s
    <3>10. ASSUME NEW i \in 1..k
           PROVE  AllKept(method, generations', trajectory_outputs'[i].prompt, trajectory_outputs'[i].response)
      <4>1. CASE i = k
        BY <3>2, <3>5, <3>9, <4>1
      <4>2. CASE i # k
        BY <1>4, <3>2, <4>2 DEF SegmentsKept
      <4> QED
        BY <4>1, <4>2
    <3> QED
      BY <3>2, <3>10 DEF SegmentsKept
  <2> QED
    BY <1>1, <2>1, <2>2
<1>7. AllKept(method, generations', current_traj_prompt_ids', accumulated') /\ SampledAfter'
  <2>1. CASE /\ state' = "terminated"
             /\ UNCHANGED <<prompt_ids, current_traj_prompt_ids, accumulated, sum_instruction_ids, summary_count>>
    BY <1>4, <2>1 DEF SampledAfter, Running
  <2>2. ASSUME NEW first \in Seq(Token), NEW prefix \in Seq(Token),
               Len(first) <= PromptLength \/ NewPrompt(first), NewContext(first \o prefix, first, prefix)
        PROVE  AllKept(method, generations', current_traj_prompt_ids', accumulated') /\ SampledAfter'
    <3>1. Len(first) <= PromptLength
      BY <2>2, NewPromptFits
    <3> QED
      BY <2>2, <3>1, NewContextKept
  <2> QED
    BY <2>1, <2>2, AuxiliaryIs
<1> QED
  BY <1>1, <1>6, <1>7 DEF Prefixed

LEMMA OverflowKept ==
  ASSUME PromptsFit, Typed, Prefixed, Overflow
  PROVE  Prefixed'
<1> DEFINE before == WithoutTurn(accumulated, response_length)
<1>1. Executed /\ (OverflowSelected \/ \E len \in ToolLengths : OverflowSaved(len))
  BY OverflowIs
<1>2. state = "processing_tools" /\ method' = method
  BY <1>1 DEF Executed, config
<1>3. /\ before \in Seq(Item) /\ Len(before) = Len(accumulated) - response_length
      /\ \A p \in 1..Len(before) : before[p] = accumulated[p]
      /\ accumulated \in Seq(Item) /\ Len(accumulated) \in Nat /\ response_length \in Nat
      /\ current_traj_prompt_ids \in Seq(Token)
  BY <1>2, WithoutTurnType DEF Typed, ContextTypes, TurnTypes
<1>4. Later(generations, generations)
  <2>1. Len(generations) \in Nat
    BY DEF Typed, HistoryTypes
  <2> QED
    BY <2>1 DEF Later
<1> HIDE DEF before
<1>5. ASSUME Later(generations, generations')
      PROVE  /\ SegmentsKept(method, generations', trajectory_outputs)
             /\ AllKept(method, generations', current_traj_prompt_ids, accumulated)
             /\ AllKept(method, generations', current_traj_prompt_ids, before)
  <2>1. /\ SegmentsKept(method, generations', trajectory_outputs)
        /\ AllKept(method, generations', current_traj_prompt_ids, accumulated)
    BY <1>5, LaterKept DEF Prefixed
  <2>2. Len(before) <= Len(accumulated)
    BY <1>3
  <2> QED
    BY <1>3, <2>1, <2>2, ShorterKept
<1>6. ASSUME Later(generations, generations'), Terminate(accumulated, TRUE) \/ Compressed(before)
      PROVE  AllKept(method, generations', current_traj_prompt_ids', accumulated') /\ SampledAfter'
  <2>1. CASE Terminate(accumulated, TRUE)
    <3>1. Compressed(accumulated)
      BY <2>1 DEF Compressed
    <3> QED
      BY <1>3, <1>5, <1>6, <3>1, CompressedKept
  <2>2. CASE Compressed(before)
    BY <1>3, <1>5, <1>6, <2>2, CompressedKept
  <2> QED
    BY <1>6, <2>1, <2>2
<1>7. CASE /\ trajectory_outputs' = Saved(before) /\ RollBack /\ Compressed(before)
  <2>1. Later(generations, generations')
    BY <1>2, <1>7, RolledBackLater
  <2>2. SegmentsKept(method, generations', trajectory_outputs')
    BY <1>3, <1>5, <1>7, <2>1, SavedKept
  <2> QED
    BY <1>2, <1>6, <1>7, <2>1, <2>2 DEF Prefixed
<1>8. CASE trajectory_outputs' = Saved(accumulated) /\ Terminate(accumulated, TRUE) /\ UNCHANGED generations
  <2>1. Later(generations, generations')
    BY <1>4, <1>8
  <2>2. SegmentsKept(method, generations', trajectory_outputs')
    BY <1>3, <1>5, <1>8, <2>1, SavedKept
  <2> QED
    BY <1>2, <1>6, <1>8, <2>1, <2>2 DEF Prefixed
<1>9. ASSUME NEW len \in ToolLengths, OverflowSaved(len)
      PROVE  Prefixed'
  <2> DEFINE tool == Tokens(Len(generations), "tool", len)
             r == accumulated \o Untrained(tool)
  <2>1. /\ trajectory_outputs' = Saved(r) /\ generations' = generations
        /\ Terminate(accumulated, TRUE) \/ Compressed(before)
    BY <1>9 DEF OverflowSaved, before
  <2>2. tool \in Seq(Token) /\ r \in Seq(Item)
    BY ToolType
  <2> HIDE DEF tool
  <2>3. Later(generations, generations')
    BY <1>4, <2>1
  <2>4. AllKept(method, generations', current_traj_prompt_ids, r)
    BY <1>3, <1>5, <2>2, <2>3, UntrainedKept
  <2> HIDE DEF r
  <2>5. SegmentsKept(method, generations', trajectory_outputs')
    BY <1>5, <2>1, <2>2, <2>3, <2>4, SavedKept
  <2> QED
    BY <1>2, <1>6, <2>1, <2>3, <2>5 DEF Prefixed
<1> QED
  BY <1>1, <1>7, <1>8, <1>9 DEF OverflowSelected, before

LEMMA ObserveKept ==
  ASSUME Typed, Prefixed, Observe
  PROVE  Prefixed'
<1>1. PICK len \in ToolLengths : Observe!(len)
  BY DEF Observe
<1> DEFINE tool == Tokens(Len(generations), "tool", len)
<1>2. /\ state = "processing_tools" /\ trajectory_outputs' = trajectory_outputs /\ generations' = generations
      /\ method' = method /\ is_summarizing' = is_summarizing
      /\ current_traj_prompt_ids' = current_traj_prompt_ids
      /\ \/ state' = "terminated" /\ accumulated' = accumulated
         \/ accumulated' = accumulated \o Untrained(tool) /\ prompt_ids' = prompt_ids \o tool
  BY <1>1 DEF Executed, config, Terminate
<1>3. ~is_summarizing
  BY <1>2 DEF Typed, Asking
<1>4. /\ accumulated \in Seq(Item) /\ current_traj_prompt_ids \in Seq(Token) /\ tool \in Seq(Token)
      /\ Ids(accumulated) \in Seq(Token) /\ Untrained(tool) \in Seq(Item)
  BY ToolType, IdsType, MaskedType DEF Typed, ContextTypes
<1>5. prompt_ids = current_traj_prompt_ids \o Ids(accumulated)
  BY <1>2, <1>3 DEF Prefixed, SampledAfter, Running
<1> HIDE DEF tool
<1>6. CASE state' = "terminated" /\ accumulated' = accumulated
  BY <1>2, <1>6 DEF Prefixed, SampledAfter, Running
<1>7. CASE accumulated' = accumulated \o Untrained(tool) /\ prompt_ids' = prompt_ids \o tool
  <2>1. AllKept(method, generations, current_traj_prompt_ids, accumulated \o Untrained(tool))
    BY <1>4, UntrainedKept DEF Prefixed
  <2>2. Ids(accumulated \o Untrained(tool)) = Ids(accumulated) \o tool
    BY <1>4, IdsOfBoth
  <2>3. current_traj_prompt_ids \o (Ids(accumulated) \o tool) = (current_traj_prompt_ids \o Ids(accumulated)) \o tool
    BY <1>4
  <2>4. prompt_ids' = current_traj_prompt_ids' \o Ids(accumulated')
    BY <1>2, <1>5, <1>7, <2>2, <2>3
  <2>5. SampledAfter'
    BY <1>2, <1>3, <2>4 DEF SampledAfter
  <2> QED
    BY <1>2, <1>7, <2>1, <2>5 DEF Prefixed
<1> QED
  BY <1>2, <1>6, <1>7

LEMMA OutputKept ==
  ASSUME Typed, Prefixed, Output
  PROVE  Prefixed'
<1> DEFINE s == Segment(current_traj_prompt_ids, accumulated, TRUE)
           k == Len(trajectory_outputs)
<1>1. /\ state' = "over" /\ generations' = generations /\ method' = method
      /\ accumulated' = accumulated /\ current_traj_prompt_ids' = current_traj_prompt_ids
      /\ trajectory_outputs' = trajectory_outputs \/ trajectory_outputs' = Append(trajectory_outputs, s)
  BY DEF Output, config, context
<1>2. SampledAfter' /\ AllKept(method, generations', current_traj_prompt_ids', accumulated')
  BY <1>1 DEF SampledAfter, Running, Prefixed
<1>3. CASE trajectory_outputs' = trajectory_outputs
  BY <1>1, <1>2, <1>3 DEF Prefixed
<1>4. CASE trajectory_outputs' = Append(trajectory_outputs, s)
  <2>1. trajectory_outputs \in Seq(SegmentType) /\ s \in SegmentType
    BY SavedType DEF Typed, HistoryTypes, ContextTypes
  <2>2. s.prompt = current_traj_prompt_ids /\ s.response = accumulated
    BY DEF Segment
  <2> HIDE DEF s
  <2>3. /\ k \in Nat /\ Len(trajectory_outputs') = k + 1 /\ trajectory_outputs'[k + 1] = s
        /\ \A i \in 1..k : trajectory_outputs'[i] = trajectory_outputs[i]
    BY <1>4, <2>1
  <2>4. \A i \in 1..(k + 1) : i \in 1..k \/ i = k + 1
    BY <2>3
  <2>5. \A i \in 1..k : AllKept(method, generations', trajectory_outputs'[i].prompt, trajectory_outputs'[i].response)
    BY <1>1, <2>3 DEF Prefixed, SegmentsKept
  <2>6. AllKept(method, generations', trajectory_outputs'[k + 1].prompt, trajectory_outputs'[k + 1].response)
    BY <1>1, <1>2, <2>2, <2>3
  <2>7. SegmentsKept(method, generations', trajectory_outputs')
    BY <2>3, <2>4, <2>5, <2>6 DEF SegmentsKept
  <2> QED
    BY <1>1, <1>2, <2>7 DEF Prefixed
<1> QED
  BY <1>1, <1>3, <1>4

LEMMA PrefixedStep ==
  ASSUME PromptsFit, Typed, HasASegment, Prefixed, [EchoNext]_echoVars
  PROVE  Prefixed'
<1>1. CASE UNCHANGED echoVars
  BY <1>1 DEF echoVars, context, config, Prefixed, SegmentsKept, SampledAfter, Running
<1> QED
  BY <1>1, TurnKept, CutOffKept, AuxiliaryKept, OverflowKept, ObserveKept, OutputKept DEF EchoNext

\* When the first prompt and the budgets of a truncation and of a rebuilt prompt
\* are within prompt_length, each trained token that the trainer receives comes
\* after exactly the tokens it was sampled after, however often the context was
\* truncated, summarized, rebuilt or rolled back; the selections of echo_e2e
\* apart.  Without the hypothesis the trainer's cut of the prompt field loses the
\* beginning of a prefix (the lost_prefix run).
THEOREM TrainedTokensKeepTheirPrefix ==
  ASSUME PromptsFit
  PROVE  EchoSpec => []SegmentsKeepTheirPrefix
<1>1. EchoInit => Prefixed
  <2> SUFFICES ASSUME EchoInit PROVE Prefixed
    OBVIOUS
  <2> DEFINE first == Tokens(0, "prompt", InitialLength)
  <2>1. /\ prompt_ids = first /\ current_traj_prompt_ids = first /\ accumulated = <<>>
        /\ is_summarizing = FALSE /\ trajectory_outputs = <<>>
    BY DEF EchoInit
  <2>2. first \in Seq(Token) /\ Len(first) = InitialLength /\ InitialLength <= PromptLength
    <3>1. InitialLength \in Nat /\ "prompt" \in Roles
      BY Limits DEF Roles
    <3>2. InitialLength <= PromptLength
      <4>1. InitialLength \in 0..PromptLength /\ PromptLength \in Nat
        BY Limits DEF PromptsFit
      <4> QED
        BY <3>1, <4>1
    <3> QED
      BY <3>1, <3>2, TokensType
  <2> HIDE DEF first
  <2>3. Ids(accumulated) = <<>>
    <3>1. accumulated \in Seq(Item) /\ Len(accumulated) = 0
      BY <2>1
    <3>2. Ids(accumulated) \in Seq(Token) /\ Len(Ids(accumulated)) = 0
      BY <3>1, IdsType
    <3> QED
      BY <3>2
  <2>4. prompt_ids = current_traj_prompt_ids \o Ids(accumulated)
    BY <2>1, <2>2, <2>3
  <2>5. SegmentsKept(method, generations, trajectory_outputs)
    BY <2>1 DEF SegmentsKept
  <2>6. AllKept(method, generations, current_traj_prompt_ids, accumulated)
    BY <2>1, <2>2 DEF AllKept
  <2> QED
    BY <2>1, <2>4, <2>5, <2>6 DEF Prefixed, SampledAfter
<1>2. Typed /\ HasASegment /\ Prefixed /\ [EchoNext]_echoVars => Prefixed'
  BY PrefixedStep
<1>3. ASSUME Typed, Prefixed, NEW x \in TrainedAt(Outputs)
      PROVE  (method = "echo_e2e" /\ Auxiliary(x[1], x[2])) \/ HasItsPrefix(x[1], x[2])
  <2> DEFINE n == Len(trajectory_outputs)
  <2>1. PICK i \in 1..n : \E p \in DOMAIN Outputs[i].response : Outputs[i].response[p].mask = 1 /\ x = <<i, p>>
    <3>1. \E i \in DOMAIN Outputs : \E p \in DOMAIN Outputs[i].response :
            Outputs[i].response[p].mask = 1 /\ x = <<i, p>>
      BY <1>3 DEF TrainedAt
    <3> QED
      BY <1>3, <3>1, OutputsAre
  <2> DEFINE s == trajectory_outputs[i]
             o == Outputs[i]
  <2>2. /\ s.prompt \in Seq(Token) /\ s.response \in Seq(Item) /\ o.response \in Seq(Item)
        /\ o.prompt = LastOnes(s.prompt, PromptLength)
        /\ \A p \in 1..Len(o.response) : p \in 1..Len(s.response) /\ o.response[p] = s.response[p]
    BY <1>3, OutputsAre
  <2>3. AllKept(method, generations, s.prompt, s.response)
    BY <1>3 DEF Prefixed, SegmentsKept
  <2>4. PICK p \in 1..Len(o.response) : o.response[p].mask = 1 /\ x = <<i, p>>
    BY <2>1, <2>2
  <2>5. x[1] = i /\ x[2] = p
    BY <2>4
  <2> HIDE DEF s, o
  <2>6. Len(s.prompt) <= PromptLength /\ Len(o.response) <= Len(s.response)
    BY <2>2, <2>3, <2>4 DEF AllKept
  <2>7. o.prompt = s.prompt
    BY <2>2, <2>6, Limits, PartsAre
  <2>8. AllKept(method, generations, s.prompt, o.response)
    BY <2>2, <2>3, <2>6, ShorterKept
  <2>9. Kept(method, generations, o.prompt, o.response, p)
    BY <2>4, <2>7, <2>8 DEF AllKept
  <2>10. First(o.response, p - 1) = SubSeq(o.response, 1, p - 1)
    <3>1. p - 1 < Len(o.response)
      BY <2>2, <2>4
    <3> QED
      BY <3>1 DEF First
  <2>11. CASE Selection(method, generations, o.response[p].id.of)
    BY <2>5, <2>11 DEF Selection, Auxiliary, o
  <2>12. CASE Follows(generations, o.prompt, o.response, p)
    BY <2>5, <2>10, <2>12 DEF Follows, HasItsPrefix, o
  <2> QED
    BY <2>9, <2>11, <2>12 DEF Kept
<1>4. Typed /\ Prefixed => SegmentsKeepTheirPrefix
  BY <1>3 DEF SegmentsKeepTheirPrefix
<1> QED
  BY <1>1, <1>2, <1>4, TypedAlways, TrainedOnceAlways, PTL DEF EchoSpec

=============================================================================
