--------------------------- MODULE LLMCache_proofs ---------------------------
(***************************************************************************)
(* Proofs about LLMCache, for any clients, payloads and models.  IInv is   *)
(* inductive for any number of clients at a time, OneInv for one.          *)
(***************************************************************************)
EXTENDS LLMCache, FiniteSetTheorems, TLAPS

USE DEF LLMCacheAssumption

-----------------------------------------------------------------------------
(* No more clients are alive than the model lets in.                       *)
LEMMA AliveStep ==
  ASSUME LLMCacheAssumption, TypeOK, Next
  PROVE  Cardinality(Alive') <= MaxAlive
<1> USE DEF TypeOK
<1>1. IsFiniteSet(Alive) /\ Cardinality(Alive) \in Nat
  BY FS_Subset, FS_CardinalityType DEF Alive
<1>2. ASSUME NEW c \in Clients, Create(c) PROVE Cardinality(Alive') <= MaxAlive
  <2>1. Alive' \subseteq Alive \union {c}
    BY <1>2 DEF Create, Goes, Alive
  <2>2. /\ IsFiniteSet(Alive \union {c})
        /\ Cardinality(Alive \union {c}) \in {Cardinality(Alive), Cardinality(Alive) + 1}
    BY <1>1, FS_AddElement
  <2>3. /\ Cardinality(Alive') <= Cardinality(Alive \union {c})
        /\ Cardinality(Alive') \in Nat
    BY <2>1, <2>2, FS_Subset, FS_CardinalityType
  <2>4. Cardinality(Alive) < MaxAlive
    BY <1>2 DEF Create
  <2>5. QED
    BY <1>1, <2>2, <2>3, <2>4, SMT
<1>3. ASSUME NEW c \in Clients, ~Create(c),
             (\E p \in Payloads : Ask(c, p)) \/ Inference(c) \/ InferenceRaises(c)
               \/ Open(c) \/ Write(c) \/ Stop(c)
      PROVE  Cardinality(Alive') <= MaxAlive
  <2>1. Alive' \subseteq Alive
    BY <1>3 DEF Ask, Inference, InferenceRaises, Open, Write, Stop, Goes, Alive
  <2>2. Cardinality(Alive') <= Cardinality(Alive) /\ Cardinality(Alive') \in Nat
    BY <1>1, <2>1, FS_Subset, FS_CardinalityType
  <2>3. QED
    BY <1>1, <2>2
<1>4. QED
  BY <1>2, <1>3 DEF Next

(* Every step keeps the types.                                             *)
LEMMA TypeStep ==
  ASSUME LLMCacheAssumption, TypeOK, Next
  PROVE  TypeOK'
<1> USE DEF TypeOK, Dictionaries, Answers
<1>1. Cardinality(Alive') <= MaxAlive
  BY AliveStep
<1>2. PICK c \in Clients :
        Create(c) \/ (\E p \in Payloads : Ask(c, p)) \/ Inference(c)
          \/ InferenceRaises(c) \/ Open(c) \/ Write(c) \/ Stop(c)
  BY DEF Next
<1>3. CASE Create(c)
  BY <1>1, <1>3 DEF Create, Goes
<1>4. ASSUME NEW p \in Payloads, Ask(c, p) PROVE TypeOK'
  <2>1. cache[c][p] \in Answers \union {Missing}
    OBVIOUS
  <2>2. QED
    BY <1>1, <1>4, <2>1 DEF Ask, Goes
<1>5. CASE Inference(c)
  <2>1. Model[c] \in Answers
    OBVIOUS
  <2>2. QED
    BY <1>1, <1>5, <2>1 DEF Inference, Goes
<1>6. CASE InferenceRaises(c)
  BY <1>1, <1>6 DEF InferenceRaises, Goes
<1>7. CASE Open(c)
  <2>1. cache' \in [Clients -> Dictionaries]
    BY <1>7 DEF Open
  <2>2. file' \in [state : {"absent", "valid", "cut"}, dict : Dictionaries]
    BY <1>7 DEF Open, Cut, Empty
  <2>3. mixed' \subseteq Clients
    BY <1>7 DEF Open, Writers
  <2>4. QED
    BY <1>1, <1>7, <2>1, <2>2, <2>3 DEF Open, Goes
<1>8. CASE Write(c)
  <2>1. file' \in [state : {"absent", "valid", "cut"}, dict : Dictionaries]
    BY <1>8 DEF Write, Whole, Cut, Empty
  <2>2. saved' \subseteq Payloads
    BY <1>8 DEF Write, Keys
  <2>3. QED
    BY <1>1, <1>8, <2>1, <2>2 DEF Write, Goes
<1>9. CASE Stop(c)
  BY <1>1, <1>9 DEF Stop
<1>10. QED
  BY <1>2, <1>3, <1>4, <1>5, <1>6, <1>7, <1>8, <1>9

-----------------------------------------------------------------------------
(* A file is cut short while it is written, and for good only when its     *)
(* writer was killed or met another one.                                   *)
LEMMA UnreadableStep ==
  ASSUME TypeOK, UnreadableExplained, Next
  PROVE  UnreadableExplained'
<1> USE DEF TypeOK, UnreadableExplained, Writers
<1>1. PICK c \in Clients :
        Create(c) \/ (\E p \in Payloads : Ask(c, p)) \/ Inference(c)
          \/ InferenceRaises(c) \/ Open(c) \/ Write(c) \/ Stop(c)
  BY DEF Next
<1>2. CASE Create(c) \/ (\E p \in Payloads : Ask(c, p)) \/ Inference(c) \/ InferenceRaises(c)
  <2>1. UNCHANGED <<file, spoilt>> /\ Writers' = Writers
    BY <1>2 DEF Create, Ask, Inference, InferenceRaises, Goes
  <2>2. QED
    BY <2>1
<1>3. CASE Open(c)
  <2>1. c \in Writers'
    BY <1>3 DEF Open, Goes
  <2>2. QED
    BY <2>1
<1>4. CASE Write(c)
  <2>1. CASE file' = Whole(cache[c])
    <3>1. file'.state = "valid"
      BY <2>1 DEF Whole
    <3>2. QED
      BY <3>1
  <2>2. CASE c \in mixed
    <3>1. spoilt'
      BY <1>4, <2>2 DEF Write
    <3>2. QED
      BY <3>1
  <2>3. QED
    BY <1>4, <2>1, <2>2 DEF Write
<1>5. CASE Stop(c)
  <2>1. UNCHANGED file
    BY <1>5 DEF Stop
  <2>2. CASE pc[c] = "write"
    BY <1>5, <2>2 DEF Stop
  <2>3. CASE pc[c] # "write"
    <3>1. Writers' = Writers /\ spoilt' = spoilt
      BY <1>5, <2>3 DEF Stop
    <3>2. QED
      BY <2>1, <3>1
  <2>4. QED
    BY <2>2, <2>3
<1>6. QED
  BY <1>1, <1>2, <1>3, <1>4, <1>5

(* What a client knows it has from its own model, or it was stored.        *)
LEMMA KnownStep ==
  ASSUME LLMCacheAssumption, TypeOK, KnownOrOwn, Next
  PROVE  KnownOrOwn'
<1> USE DEF TypeOK, KnownOrOwn, Known, Dictionaries
<1>1. PICK c \in Clients :
        Create(c) \/ (\E p \in Payloads : Ask(c, p)) \/ Inference(c)
          \/ InferenceRaises(c) \/ Open(c) \/ Write(c) \/ Stop(c)
  BY DEF Next
<1>2. CASE Create(c)
  BY <1>2 DEF Create, Goes, Keys
<1>3. ASSUME NEW p \in Payloads, Ask(c, p) PROVE KnownOrOwn'
  BY <1>3 DEF Ask, Goes, Keys
<1>4. CASE Inference(c)
  BY <1>4 DEF Inference, Goes, Keys
<1>5. CASE InferenceRaises(c)
  BY <1>5 DEF InferenceRaises, Goes, Keys
<1>6. CASE Open(c)
  BY <1>6 DEF Open, Goes, Keys, Cut, Empty
<1>7. CASE Write(c)
  BY <1>7 DEF Write, Goes, Keys, Cut, Whole, Empty
<1>8. CASE Stop(c)
  BY <1>8 DEF Stop, Keys
<1>9. QED
  BY <1>1, <1>2, <1>3, <1>4, <1>5, <1>6, <1>7, <1>8

(* IInv holds when the program starts.                                     *)
LEMMA InitInv == ASSUME LLMCacheAssumption PROVE Init => IInv
<1> SUFFICES ASSUME Init PROVE IInv
  OBVIOUS
<1>1. Alive = {} /\ Known = {}
  BY DEF Init, Alive, Known
<1>2. Cardinality(Alive) <= MaxAlive
  BY <1>1, FS_EmptySet
<1>3. TypeOK
  BY <1>2 DEF Init, TypeOK, Dictionaries, Empty
<1>4. UnreadableExplained
  BY DEF Init, UnreadableExplained
<1>5. KnownOrOwn
  BY <1>1 DEF Init, KnownOrOwn, Keys, Empty
<1>6. QED
  BY <1>3, <1>4, <1>5 DEF IInv

(* IInv is kept by every step.                                             *)
LEMMA StepInv ==
  ASSUME LLMCacheAssumption PROVE IInv /\ [Next]_vars => IInv'
<1> SUFFICES ASSUME IInv, [Next]_vars PROVE IInv'
  OBVIOUS
<1> USE DEF IInv
<1>1. CASE Next
  BY <1>1, TypeStep, UnreadableStep, KnownStep
<1>2. CASE UNCHANGED vars
  BY <1>2
     DEF vars, TypeOK, UnreadableExplained, KnownOrOwn, Known, Alive, Writers
<1>3. QED
  BY <1>1, <1>2

(* IInv holds of every state that can be reached.                          *)
THEOREM Invariance == ASSUME LLMCacheAssumption PROVE Spec => []IInv
  BY InitInv, StepInv, PTL DEF Spec

(* The variables keep their types.                                         *)
THEOREM CacheTypes == ASSUME LLMCacheAssumption PROVE Spec => []TypeOK
<1>1. QED
  BY Invariance, PTL DEF IInv

(* An answer of another model comes from a whole file, however many        *)
(* clients of whatever models there are (llm.py:298).                      *)
THEOREM OtherModelOnlyFromFile ==
  ASSUME LLMCacheAssumption
  PROVE  Spec => []OtherModelExplained
<1>1. IInv => OtherModelExplained
  BY DEF IInv, KnownOrOwn, Known, OtherModelExplained
<1>2. QED
  BY <1>1, Invariance, PTL

-----------------------------------------------------------------------------
(* With one client at a time the one that is alive is the only one.        *)
LEMMA OnlyOne ==
  ASSUME LLMCacheAssumption, TypeOK, MaxAlive = 1,
         NEW c \in Alive, NEW d \in Alive
  PROVE  c = d
<1>1. SUFFICES ASSUME c # d PROVE FALSE
  OBVIOUS
<1>2. IsFiniteSet({c}) /\ Cardinality({c}) = 1
  BY FS_Singleton
<1>3. IsFiniteSet({c, d}) /\ Cardinality({c, d}) = 2
  <2>1. {c, d} = {c} \union {d} /\ d \notin {c}
    BY <1>1
  <2>2. /\ IsFiniteSet({c} \union {d})
        /\ Cardinality({c} \union {d}) = Cardinality({c}) + 1
    BY <1>2, <2>1, FS_AddElement, Zenon
  <2>3. QED
    BY <1>2, <2>1, <2>2
<1>4. IsFiniteSet(Alive) /\ {c, d} \in SUBSET Alive
  BY FS_Subset DEF Alive
<1>5. Cardinality(Alive) \in Nat /\ 2 <= Cardinality(Alive)
  BY <1>3, <1>4, FS_Subset, FS_CardinalityType
<1>6. QED
  BY <1>5 DEF TypeOK

LEMMA OneStep ==
  ASSUME LLMCacheAssumption, MaxAlive = 1, OneInv, Next
  PROVE  OneWriter' /\ StoredIsKept'
<1> USE DEF OneInv, IInv, OneWriter, StoredIsKept, TypeOK, Known, Dictionaries
<1>0. \A c, d \in Alive : c = d
  BY OnlyOne
<1>1. PICK c \in Clients :
        Create(c) \/ (\E p \in Payloads : Ask(c, p)) \/ Inference(c)
          \/ InferenceRaises(c) \/ Open(c) \/ Write(c) \/ Stop(c)
  BY DEF Next
<1>2. CASE Create(c)
  BY <1>2 DEF Create, Goes, Keys
<1>3. ASSUME NEW p \in Payloads, Ask(c, p) PROVE OneWriter' /\ StoredIsKept'
  BY <1>3 DEF Ask, Goes
<1>4. CASE Inference(c) \/ InferenceRaises(c)
  BY <1>4 DEF Inference, InferenceRaises, Goes
<1>5. CASE Open(c)
  <2>1. Writers = {}
    BY <1>0, <1>5 DEF Open, Goes, Writers, Alive
  <2>2. answer[c] # Missing
    BY <1>5 DEF Open, Goes, KnownOrOwn
  <2>3. \A d \in Known' : saved' \subseteq Keys(cache'[d])
    BY <1>5, <2>2 DEF Open, Goes, Keys
  <2>4. QED
    BY <1>5, <2>1, <2>3 DEF Open, Cut
<1>6. CASE Write(c)
  <2>1. file' = Whole(cache[c]) /\ mixed' = {} /\ UNCHANGED cache
    BY <1>6 DEF Write
  <2>2. saved' = Keys(cache[c])
    <3>1. saved \subseteq Keys(cache[c])
      BY <1>6 DEF Write, Goes
    <3>2. Whole(cache[c]) # Cut
      BY DEF Whole, Cut
    <3>3. QED
      BY <1>6, <2>1, <3>1, <3>2 DEF Write
  <2>3. Known' \subseteq {c}
    BY <1>0, <1>6 DEF Write, Goes, Alive
  <2>4. QED
    BY <2>1, <2>2, <2>3 DEF Whole
<1>7. CASE Stop(c)
  BY <1>7 DEF Stop
<1>8. QED
  BY <1>1, <1>2, <1>3, <1>4, <1>5, <1>6, <1>7

(* OneInv holds at the start and, with one client at a time, ever after.   *)
LEMMA OneInitInv == ASSUME LLMCacheAssumption PROVE Init => OneInv
<1>1. Init => OneWriter /\ StoredIsKept
  BY DEF Init, OneWriter, StoredIsKept, Known
<1>2. QED
  BY <1>1, InitInv DEF OneInv

LEMMA OneStepInv ==
  ASSUME LLMCacheAssumption, MaxAlive = 1
  PROVE  OneInv /\ [Next]_vars => OneInv'
<1> SUFFICES ASSUME OneInv, [Next]_vars PROVE OneInv'
  OBVIOUS
<1>1. IInv'
  BY StepInv DEF OneInv
<1>2. OneWriter' /\ StoredIsKept'
  <2>1. CASE Next
    BY <2>1, OneStep
  <2>2. CASE UNCHANGED vars
    BY <2>2 DEF OneInv, vars, OneWriter, StoredIsKept, Known
  <2>3. QED
    BY <2>1, <2>2
<1>3. QED
  BY <1>1, <1>2 DEF OneInv

(* With one client at a time a whole file has every answer that was stored *)
(* (llm.py:38), and with any number of them a file that nobody writes is   *)
(* whole unless a writer was killed or met another one (llm.py:65).        *)
THEOREM FileIsWhole ==
  ASSUME LLMCacheAssumption
  PROVE  Spec => []WholeCache
<1>1. CASE MaxAlive = 1
  <2>1. OneInv => WholeCache
    BY DEF OneInv, IInv, WholeCache
  <2>2. OneInv /\ [Next]_vars => OneInv'
    BY <1>1, OneStepInv
  <2>3. QED
    BY <2>1, <2>2, OneInitInv, PTL DEF Spec
<1>2. CASE MaxAlive # 1
  <2>1. IInv => WholeCache
    BY <1>2 DEF IInv, WholeCache
  <2>2. QED
    BY <2>1, Invariance, PTL
<1>3. QED
  BY <1>1, <1>2

=============================================================================
