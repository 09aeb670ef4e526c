------------------------------ MODULE LLMCache ------------------------------
(***************************************************************************)
(* The cache of answers that every LLM client keeps (clients/utils/llm.py),*)
(* and the judge's, which is the same code with another file               *)
(* (aiopslab/utils/cache.py).  A client loads the file when it is made and *)
(* writes its whole dictionary back after every answer; the key is the     *)
(* payload alone.  Clients live in the worker threads of the service or in *)
(* processes of their own.                                                 *)
(***************************************************************************)
EXTENDS FiniteSets, Naturals

CONSTANTS
  Clients,   \* the clients there may be
  Payloads,  \* the dialogues sent to a model
  Model,     \* the model of each client
  MaxAlive,  \* clients alive at a time
  Missing    \* no answer

LLMCacheAssumption ==
  /\ IsFiniteSet(Clients)
  /\ Model \in [Clients -> STRING]
  /\ \A c \in Clients : Model[c] # Missing
  /\ MaxAlive \in Nat

VARIABLES
  file,     \* cache.json: "absent", "valid" or "cut", and its dictionary
  cache,    \* cache_dict of each client
  pc,       \* "off", "ready", "call", "add", "write" or "raised"
  payload,  \* what each client was asked last
  answer,   \* and what it answers
  saved,    \* payloads whose answer has been in a whole file
  mixed,    \* clients whose writing overlaps with another's
  spoilt    \* a client was killed, or mixed with another, while it wrote

vars == <<file, cache, pc, payload, answer, saved, mixed, spoilt>>

Answers == {Model[c] : c \in Clients}
Dictionaries == [Payloads -> Answers \union {Missing}]
Empty == [p \in Payloads |-> Missing]
Keys(d) == {p \in Payloads : d[p] # Missing}

Alive == {c \in Clients : pc[c] \notin {"off", "raised"}}
Writers == {c \in Clients : pc[c] = "write"}

TypeOK ==
  /\ file \in [state : {"absent", "valid", "cut"}, dict : Dictionaries]
  /\ cache \in [Clients -> Dictionaries]
  /\ pc \in [Clients -> {"off", "ready", "call", "add", "write", "raised"}]
  /\ payload \in [Clients -> Payloads]
  /\ answer \in [Clients -> Answers \union {Missing}]
  /\ saved \subseteq Payloads
  /\ mixed \subseteq Clients
  /\ spoilt \in BOOLEAN
  /\ Cardinality(Alive) <= MaxAlive

Whole(d) == [state |-> "valid", dict |-> d]
Cut == [state |-> "cut", dict |-> Empty]

Init ==
  /\ file = [state |-> "absent", dict |-> Empty]
  /\ cache = [c \in Clients |-> Empty]
  /\ pc = [c \in Clients |-> "off"]
  /\ payload \in [Clients -> Payloads]
  /\ \A c, d \in Clients : payload[c] = payload[d]
  /\ answer = [c \in Clients |-> Missing]
  /\ saved = {} /\ mixed = {} /\ spoilt = FALSE

Goes(c, from, to) == pc[c] = from /\ pc' = [pc EXCEPT ![c] = to]

(* Mutation of Create: a file that cannot be read is taken for none.       *)
CreateForgiving(c) ==
  /\ Cardinality(Alive) < MaxAlive
  /\ Goes(c, "off", "ready")
  /\ cache' = [cache EXCEPT ![c] = file.dict]
  /\ UNCHANGED <<file, payload, answer, saved, mixed, spoilt>>

(* Cache.__init__: json.load raises on a file that is cut short.           *)
Create(c) ==
  /\ Cardinality(Alive) < MaxAlive
  /\ Goes(c, "off", IF file.state = "cut" THEN "raised" ELSE "ready")
  /\ cache' = [cache EXCEPT ![c] = file.dict]
  /\ UNCHANGED <<file, payload, answer, saved, mixed, spoilt>>

(* run, inference: an answer in the dictionary spares the call.            *)
Ask(c, p) ==
  /\ Goes(c, "ready", IF cache[c][p] = Missing THEN "call" ELSE "add")
  /\ payload' = [payload EXCEPT ![c] = p]
  /\ answer' = [answer EXCEPT ![c] = cache[c][p]]
  /\ UNCHANGED <<file, cache, saved, mixed, spoilt>>

(* The model answers.                                                      *)
Inference(c) ==
  /\ Goes(c, "call", "add")
  /\ answer' = [answer EXCEPT ![c] = Model[c]]
  /\ UNCHANGED <<file, cache, payload, saved, mixed, spoilt>>

(* Mutation of InferenceRaises: what was raised becomes the answer.        *)
InferenceRaisesNothing(c) ==
  /\ Goes(c, "call", "add")
  /\ answer' = [answer EXCEPT ![c] = "APITimeoutError()"]
  /\ UNCHANGED <<file, cache, payload, saved, mixed, spoilt>>

(* Or the call raises, which ends the dialogue and its agent.              *)
InferenceRaises(c) ==
  /\ Goes(c, "call", "off")
  /\ UNCHANGED <<file, cache, payload, answer, saved, mixed, spoilt>>

(* add_to_cache, and save_cache opens the file, which empties it.          *)
Open(c) ==
  /\ Goes(c, "add", "write")
  /\ cache' = [cache EXCEPT ![c][payload[c]] = answer[c]]
  /\ file' = Cut
  /\ mixed' = IF Writers = {} THEN mixed ELSE mixed \union Writers \union {c}
  /\ UNCHANGED <<payload, answer, saved, spoilt>>

(* The dictionary is written and the file closed; over the text of another *)
(* writer it may leave what no one can read.                               *)
Write(c) ==
  /\ Goes(c, "write", "ready")
  /\ \/ file' = Whole(cache[c])
     \/ c \in mixed /\ file' = Cut
  /\ saved' = saved \union (IF file' = Cut THEN {} ELSE Keys(cache[c]))
  /\ mixed' = mixed \ {c}
  /\ spoilt' = (spoilt \/ c \in mixed)
  /\ UNCHANGED <<cache, payload, answer>>

(* The agent is done, or its process is killed or interrupted.             *)
Stop(c) ==
  /\ pc[c] # "off"
  /\ pc' = [pc EXCEPT ![c] = "off"]
  /\ mixed' = mixed \ {c}
  /\ spoilt' = (spoilt \/ pc[c] = "write")
  /\ UNCHANGED <<file, cache, payload, answer, saved>>

Next ==
  \E c \in Clients :
    \/ Create(c)
    \/ \E p \in Payloads : Ask(c, p)
    \/ Inference(c)
    \/ InferenceRaises(c)
    \/ Open(c)
    \/ Write(c)
    \/ Stop(c)

Spec == Init /\ [][Next]_vars

-----------------------------------------------------------------------------
(* "to store the results of the LLM inference" (llm.py:38): a whole file   *)
(* holds every answer that ever was in one.  It does with one client at a  *)
(* time, also when that is killed while it writes.                         *)
StoredIsKept == file.state = "valid" => saved \subseteq Keys(file.dict)

(* A file that nobody is writing can be read, unless a client was killed   *)
(* while it wrote or two have written at the same time.                    *)
UnreadableExplained == file.state = "cut" /\ Writers = {} => spoilt

(* The file is whole as far as it can be with the clients there are.       *)
WholeCache == UnreadableExplained /\ (MaxAlive = 1 => StoredIsKept)

(* "Abstraction for OpenRouter API with support for multiple models"       *)
(* (llm.py:290): the answer of a client is its own model's, or else one    *)
(* that was in the file when the client was created: the key of the cache  *)
(* leaves out the model.                                                   *)
OtherModelExplained ==
  \A c \in Clients :
    pc[c] = "add" /\ answer[c] # Model[c] => payload[c] \in saved

-----------------------------------------------------------------------------
(* The inductive invariants.  What a client knows it has from a whole file *)
(* or from its own model.                                                  *)
Known == {c \in Clients : pc[c] \in {"ready", "call", "add", "write"}}

KnownOrOwn ==
  /\ Keys(file.dict) \subseteq saved
  /\ \A c \in Known : \A p \in Payloads :
       cache[c][p] \notin {Missing, Model[c]} => p \in saved
  /\ \A c \in Known : pc[c] = "add" =>
       answer[c] # Missing /\ (answer[c] # Model[c] => payload[c] \in saved)

(* With one client at a time nothing overlaps, and the client that is      *)
(* alive knows all that was ever stored.                                   *)
OneWriter ==
  /\ mixed = {}
  /\ file.state = "absent" => saved = {}
  /\ \A c \in Known : saved \subseteq Keys(cache[c])

IInv == TypeOK /\ UnreadableExplained /\ KnownOrOwn
OneInv == IInv /\ OneWriter /\ StoredIsKept

=============================================================================
