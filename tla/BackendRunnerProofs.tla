------------------------ MODULE BackendRunnerProofs ------------------------
(***************************************************************************)
(* Proofs about BackendRunner, for models with any number of inputs and    *)
(* outputs.                                                                *)
(***************************************************************************)
EXTENDS BackendRunner, SequenceTheorems, TLAPS

(* What a runner owns, from nothing to all it loads.                       *)
Owned ==
  IF backend = "llama" THEN {{}, {"model"}, {"model", "context"}}
                       ELSE {{}, {"env"}, {"env", "session"}}

All == IF backend = "llama" THEN {"model", "context"} ELSE {"env", "session"}

(* The members say what is alive, but for the batch; and how RunBackend    *)
(* has come where it is says what has been loaded.                         *)
ObjectsInv ==
  /\ backend \in {"llama", "onnx"}
  /\ members \in Owned
  /\ objects = IF at = "decode" THEN members \cup {"batch"} ELSE members
  /\ at = "load" => members = {}
  /\ at = "context" => members = {"model"}
  /\ at = "session" => backend = "onnx" /\ members = {"env"}
  /\ at = "decode" => backend = "llama"
  /\ at \in {"run", "decode"} \/ result = "run failed" => members = All
  /\ result \in {"ok", "load failed"} => members = {}
  /\ at # "end" => result = "none"

Sides == {"input", "output"}
Pointers == [of : Nat, short : BOOLEAN, valid : BOOLEAN]
Descriptions == [short : BOOLEAN, supported : BOOLEAN]

(* The k-th pointer is to the name of input k, or output k, and has been   *)
(* lost only if names have moved that are kept inside their strings.       *)
SideInv(side) ==
  /\ Len(names[side]) <= Len(model[side])
  /\ \A k \in 1 .. Len(names[side]) :
       /\ names[side][k].of = k
       /\ names[side][k].short = model[side][k].short
       /\ PlainSide(side) => names[side][k].valid

(* While no input has been skipped the k-th tensor is that of input k.     *)
TensorsInv ==
  PlainSide("input") =>
    Len(inputs) = Len(names["input"]) /\ \A k \in 1 .. Len(inputs) : inputs[k] = k

NamesInv ==
  /\ model \in [Sides -> Seq(Descriptions)]
  /\ names \in [Sides -> Seq(Pointers)]
  /\ inputs \in Seq(Nat)
  /\ at \in {"load", "session"} => names = NoNames /\ inputs = << >>
  /\ \A side \in Sides : SideInv(side)
  /\ TensorsInv

-----------------------------------------------------------------------------
(* What is alive.                                                          *)

LEMMA InitObjects == Init => ObjectsInv
  BY DEF Init, ObjectsInv, Owned

LEMMA LlamaObjects ==
  ASSUME ObjectsInv, LoadModel \/ InitContext \/ Tokenize \/ Decode
  PROVE  ObjectsInv'
<1>1. CASE LoadModel
  BY <1>1 DEF ObjectsInv, Owned, All, LoadModel, Goes, Ends
<1>2. CASE InitContext
  BY <1>2 DEF ObjectsInv, Owned, All, InitContext, ContextMissing, Goes, Ends
<1>3. CASE Tokenize
  BY <1>3 DEF ObjectsInv, Owned, All, Tokenize, Goes, Ends
<1>4. CASE Decode
  BY <1>4 DEF ObjectsInv, Owned, All, Decode, DecodeFails, Goes, Ends
<1> QED BY <1>1, <1>2, <1>3, <1>4

LEMMA OnnxObjects ==
  ASSUME ObjectsInv,
         CreateEnv \/ CreateSession \/ CollectInput \/ CollectOutput
           \/ SessionThrows \/ Run
  PROVE  ObjectsInv'
<1>1. CASE CreateEnv
  BY <1>1 DEF ObjectsInv, Owned, All, CreateEnv, Goes, Ends
<1>2. CASE CreateSession
  BY <1>2 DEF ObjectsInv, Owned, All, CreateSession, Goes, Ends
<1>3. CASE CollectInput \/ CollectOutput
  BY <1>3 DEF ObjectsInv, Owned, All, CollectInput, CollectOutput
<1>4. CASE SessionThrows
  BY <1>4 DEF ObjectsInv, Owned, All, SessionThrows, Goes, Ends
<1>5. CASE Run
  BY <1>5 DEF ObjectsInv, Owned, All, Run, Collected, Goes, Ends
<1> QED BY <1>1, <1>2, <1>3, <1>4, <1>5

LEMMA UnloadFrees ==
  ASSUME ObjectsInv, Unload
  PROVE  /\ members' \in Owned /\ objects' = members'
         /\ at' = "unload" /\ UNCHANGED <<backend, result>>
<1>1. PICK i \in DOMAIN Unloads :
        /\ Unloads[i] \in members
        /\ \A j \in 1 .. i - 1 : Unloads[j] \notin members
        /\ Goes("unload", objects \ {Unloads[i]}, members \ {Unloads[i]})
  BY DEF Unload
<1>2. DOMAIN Unloads = {1, 2}
  BY DEF Unloads
<1>3. at = "unload"
  BY DEF Unload
<1>4. CASE i = 1
  BY <1>1, <1>3, <1>4 DEF ObjectsInv, Owned, Unloads, Goes
<1>5. CASE i = 2
  <2>1. Unloads[1] \notin members
    BY <1>1, <1>5
  <2> QED BY <1>1, <1>3, <1>5, <2>1 DEF ObjectsInv, Owned, Unloads, Goes
<1> QED BY <1>2, <1>4, <1>5

LEMMA NextObjects == ObjectsInv /\ [Next]_vars => ObjectsInv'
<1> SUFFICES ASSUME ObjectsInv, [Next]_vars PROVE ObjectsInv'
  OBVIOUS
<1>1. CASE Unload
  <2>1. result = "none"
    BY <1>1 DEF Unload, ObjectsInv
  <2> QED BY <2>1, <1>1, UnloadFrees DEF ObjectsInv, Owned, All
<1>2. CASE ReturnOk
  BY <1>2 DEF ObjectsInv, Owned, All, ReturnOk, Ends
<1>3. CASE UNCHANGED vars
  BY <1>3 DEF vars, ObjectsInv, Owned, All
<1> QED BY <1>1, <1>2, <1>3, LlamaObjects, OnnxObjects DEF Next

(* Whatever fails or throws in Load, RunOnce and Unload, a context never   *)
(* outlives its model and a session never its environment, and no member   *)
(* of a runner points to what has been freed.                              *)
THEOREM OwnersAlwaysOutlive == Spec => []OwnersOutlive
<1>1. ASSUME ObjectsInv PROVE OwnersOutlive
  <2>1. members \subseteq objects /\ objects \subseteq members \cup {"batch"}
    BY <1>1 DEF ObjectsInv
  <2>2. \/ members = {} \/ members = {"model"} \/ members = {"model", "context"}
        \/ members = {"env"} \/ members = {"env", "session"}
    BY <1>1 DEF ObjectsInv, Owned
  <2> QED BY <2>1, <2>2 DEF OwnersOutlive
<1> QED BY <1>1, InitObjects, NextObjects, PTL DEF Spec

(* A RunBackend that has succeeded, or whose Load returned false, leaves   *)
(* no object behind, and one whose RunOnce returned false leaves those     *)
(* that the runner's members still name.                                   *)
THEOREM NothingIsLeft == Spec => []LeavesNothing
<1>1. ObjectsInv => LeavesNothing
  BY DEF ObjectsInv, LeavesNothing
<1> QED BY <1>1, InitObjects, NextObjects, PTL DEF Spec

-----------------------------------------------------------------------------
(* Names and tensors.                                                      *)

LEMMA NamesAreDescriptions == Names \subseteq Seq(Descriptions)
<1> SUFFICES ASSUME NEW s \in Names PROVE s \in Seq(Descriptions)
  OBVIOUS
<1>1. PICK n \in 0 .. MaxNames : s \in [1 .. n -> Descriptions]
  BY DEF Names, Descriptions
<1>2. n \in Nat
  BY <1>1, MaxNamesAssumption
<1> QED BY <1>1, <1>2, SeqDef

LEMMA InitNames == Init => NamesInv
<1> SUFFICES ASSUME Init PROVE NamesInv
  OBVIOUS
<1>1. /\ model = NoNames /\ names = NoNames /\ inputs = << >> /\ at = "load"
  BY DEF Init
<1>2. \A S : << >> \in Seq(S) /\ Len(<< >>) = 0
  OBVIOUS
<1>3. NoNames["input"] = << >> /\ NoNames["output"] = << >>
  BY DEF NoNames
<1>4. ASSUME NEW S PROVE NoNames \in [Sides -> Seq(S)]
  <2>1. NoNames \in [input : Seq(S), output : Seq(S)]
    BY <1>2 DEF NoNames
  <2>2. DOMAIN NoNames = Sides /\ NoNames = [x \in Sides |-> NoNames[x]]
    BY DEF NoNames, Sides
  <2> QED BY <1>2, <1>3, <2>2 DEF Sides
<1> QED BY <1>1, <1>2, <1>3, <1>4 DEF NamesInv, SideInv, TensorsInv, Sides

(* What push_back does to the pointers there are.                          *)
LEMMA PushedFacts ==
  ASSUME NEW s \in Seq(Pointers), NEW i \in Nat, NEW short \in BOOLEAN,
         NEW moves \in BOOLEAN
  PROVE  LET p == Pushed(s, i, short, moves)
         IN /\ p \in Seq(Pointers) /\ Len(p) = Len(s) + 1
            /\ p[Len(p)] = [of |-> i, short |-> short, valid |-> TRUE]
            /\ \A j \in 1 .. Len(s) :
                 /\ p[j].of = s[j].of /\ p[j].short = s[j].short
                 /\ s[j].valid /\ ~s[j].short => p[j].valid
<1> DEFINE V(j) == s[j].valid /\ ~(moves /\ s[j].short)
           q == [j \in DOMAIN s |-> [s[j] EXCEPT !.valid = V(j)]]
           new == [of |-> i, short |-> short, valid |-> TRUE]
<1>1. DOMAIN s = 1 .. Len(s) /\ Len(s) \in Nat
  BY LenProperties
<1>2. \A j \in 1 .. Len(s) : s[j] \in Pointers
  BY ElementOfSeq
<1>3. ASSUME NEW j \in 1 .. Len(s)
      PROVE  /\ q[j] \in Pointers
             /\ q[j].of = s[j].of /\ q[j].short = s[j].short
             /\ q[j].valid = V(j)
  <2>1. ASSUME NEW v \in BOOLEAN
        PROVE  /\ [s[j] EXCEPT !.valid = v] \in Pointers
               /\ [s[j] EXCEPT !.valid = v].of = s[j].of
               /\ [s[j] EXCEPT !.valid = v].short = s[j].short
               /\ [s[j] EXCEPT !.valid = v].valid = v
    BY <1>2 DEF Pointers
  <2>2. V(j) \in BOOLEAN
    OBVIOUS
  <2>3. q[j] = [s[j] EXCEPT !.valid = V(j)]
    BY <1>1
  <2> HIDE DEF V, q
  <2> QED BY <2>1, <2>2, <2>3, Zenon
<1>4. q \in Seq(Pointers) /\ Len(q) = Len(s)
  <2>1. \A j \in 1 .. Len(s) : q[j] \in Pointers
    BY <1>3, Zenon
  <2>2. q = [j \in 1 .. Len(s) |-> q[j]]
    BY <1>1
  <2> HIDE DEF q
  <2>3. q \in [1 .. Len(s) -> Pointers]
    BY <2>1, <2>2
  <2> QED BY <1>1, <2>3, SeqDef, LenProperties
<1>5. new \in Pointers
  BY DEF Pointers
<1>6. Pushed(s, i, short, moves) = Append(q, new)
  BY DEF Pushed
<1> HIDE DEF q, new
<1>7. /\ Append(q, new) \in Seq(Pointers) /\ Len(Append(q, new)) = Len(s) + 1
      /\ Append(q, new)[Len(s) + 1] = new
      /\ \A j \in 1 .. Len(s) : Append(q, new)[j] = q[j]
  BY <1>4, <1>5, AppendProperties
<1>8. \A j \in 1 .. Len(s) :
        /\ q[j].of = s[j].of /\ q[j].short = s[j].short
        /\ s[j].valid /\ ~s[j].short => q[j].valid
  <2> SUFFICES ASSUME NEW j \in 1 .. Len(s)
               PROVE  /\ q[j].of = s[j].of /\ q[j].short = s[j].short
                      /\ s[j].valid /\ ~s[j].short => q[j].valid
    OBVIOUS
  <2>1. s[j].valid /\ ~s[j].short => V(j)
    OBVIOUS
  <2> HIDE DEF V, q
  <2> QED BY <1>3, <2>1, Zenon
<1> QED BY <1>6, <1>7, <1>8 DEF new

(* A turn of one of the loops that collect names.                          *)
LEMMA CollectNameFacts ==
  ASSUME NamesInv, NEW side \in Sides, CollectName(side), model' = model
  PROVE  /\ names' \in [Sides -> Seq(Pointers)]
         /\ \A s \in Sides : SideInv(s)'
         /\ \A s \in Sides : s # side => names'[s] = names[s]
         /\ Len(names'[side]) = Len(names[side]) + 1
         /\ Len(names[side]) + 1 \in DOMAIN model[side]
<1> DEFINE s == names[side]
           i == Len(s) + 1
           m == model[side]
<1>1. PICK moves \in BOOLEAN :
        names' = [names EXCEPT ![side] = Pushed(s, i, m[i].short, moves)]
  BY DEF CollectName
<1>2. /\ s \in Seq(Pointers) /\ Len(s) \in Nat /\ DOMAIN s = 1 .. Len(s)
      /\ m \in Seq(Descriptions) /\ Len(m) \in Nat /\ DOMAIN m = 1 .. Len(m)
      /\ i \in DOMAIN m
      /\ \A k \in 1 .. Len(m) : m[k] \in Descriptions
      /\ \A k \in 1 .. Len(s) : s[k] \in Pointers
  <2>1. s \in Seq(Pointers) /\ m \in Seq(Descriptions) /\ i \in DOMAIN m
    BY DEF NamesInv, CollectName
  <2> HIDE DEF s, m
  <2> QED BY <2>1, LenProperties, ElementOfSeq
<1> DEFINE short == m[i].short
           p == Pushed(s, i, short, moves)
<1>3. short \in BOOLEAN /\ i \in Nat
  BY <1>2 DEF Descriptions
<1>4. /\ p \in Seq(Pointers) /\ Len(p) = i
      /\ p[i] = [of |-> i, short |-> short, valid |-> TRUE]
      /\ \A j \in 1 .. Len(s) :
           /\ p[j].of = s[j].of /\ p[j].short = s[j].short
           /\ s[j].valid /\ ~s[j].short => p[j].valid
  <2> HIDE DEF s, i, short
  <2>1. Len(s) + 1 = i
    BY DEF i
  <2> QED BY <1>2, <1>3, <2>1, PushedFacts
<1>5. /\ names' \in [Sides -> Seq(Pointers)] /\ names'[side] = p
      /\ \A o \in Sides : o # side => names'[o] = names[o]
  <2>1. names \in [Sides -> Seq(Pointers)]
    BY DEF NamesInv
  <2> HIDE DEF s, i, short, p, m
  <2>2. names' = [names EXCEPT ![side] = p]
    BY <1>1 DEF p, short
  <2> QED BY <1>4, <2>1, <2>2
<1>6. PlainSide(side)' = PlainSide(side)
  BY DEF PlainSide
<1>7. SideInv(side)
  BY DEF NamesInv
<1>8. SideInv(side)'
  <2>0. Len(p) = i /\ i <= Len(m) /\ names'[side] = p /\ model' = model
    BY <1>2, <1>4, <1>5
  <2> SUFFICES ASSUME NEW k \in 1 .. i
               PROVE  /\ p[k].of = k /\ p[k].short = m[k].short
                      /\ PlainSide(side) => p[k].valid
    <3> HIDE DEF p, i
    <3> QED BY <2>0, <1>6 DEF SideInv
  <2>1. CASE k = i
    <3> HIDE DEF p, short, i
    <3> QED BY <1>4, <2>1 DEF short
  <2>2. CASE k # i
    <3>1. k \in 1 .. Len(s) /\ Len(m) > 1 /\ k \in DOMAIN m
      BY <1>2, <2>2
    <3>2. s[k].of = k /\ s[k].short = m[k].short /\ (PlainSide(side) => s[k].valid)
      BY <1>7, <3>1 DEF SideInv
    <3>3. PlainSide(side) => ~m[k].short
      BY <3>1 DEF PlainSide
    <3> HIDE DEF p, s, m, i
    <3> QED BY <1>4, <3>1, <3>2, <3>3
  <2> QED BY <2>1, <2>2
<1>9. \A o \in Sides : o # side => SideInv(o)'
  <2> SUFFICES ASSUME NEW o \in Sides, o # side PROVE SideInv(o)'
    OBVIOUS
  <2>1. SideInv(o) /\ names'[o] = names[o] /\ PlainSide(o)' = PlainSide(o)
    BY <1>5 DEF NamesInv, PlainSide
  <2> QED BY <2>1 DEF SideInv
<1> QED BY <1>2, <1>4, <1>5, <1>8, <1>9

LEMMA CollectInputNames ==
  ASSUME NamesInv, CollectInput
  PROVE  NamesInv'
<1> DEFINE s == names["input"]
           i == Len(s) + 1
<1>1. /\ "input" \in Sides /\ CollectName("input") /\ model' = model /\ at = "run" /\ at' = at
      /\ inputs' = WithTensor(i)
  BY DEF CollectInput, CollectName, Sides
<1>2. /\ names' \in [Sides -> Seq(Pointers)]
      /\ \A o \in Sides : SideInv(o)'
      /\ Len(names'["input"]) = i /\ i \in DOMAIN model["input"]
  BY <1>1, CollectNameFacts
<1>3. Len(s) \in Nat /\ i \in Nat
  BY LenProperties DEF NamesInv, Sides
<1>4. inputs \in Seq(Nat) /\ TensorsInv
  BY DEF NamesInv
<1>5. inputs' \in Seq(Nat)
  BY <1>1, <1>3, <1>4, AppendProperties DEF WithTensor
<1>6. TensorsInv'
  <2>1. PlainSide("input")' = PlainSide("input")
    BY <1>1 DEF PlainSide
  <2> SUFFICES ASSUME PlainSide("input")
               PROVE  Len(inputs') = i /\ \A k \in 1 .. i : inputs'[k] = k
    BY <1>2, <2>1 DEF TensorsInv
  <2>2. inputs' = Append(inputs, i)
    BY <1>1, <1>2 DEF PlainSide, WithTensor
  <2>3. Len(inputs) = Len(s) /\ \A k \in 1 .. Len(inputs) : inputs[k] = k
    BY <1>4 DEF TensorsInv
  <2>4. /\ Len(inputs') = Len(inputs) + 1 /\ inputs'[Len(inputs) + 1] = i
        /\ \A k \in 1 .. Len(inputs) : inputs'[k] = inputs[k]
    BY <1>3, <1>4, <2>2, AppendProperties
  <2> QED BY <1>3, <2>3, <2>4
<1> QED BY <1>1, <1>2, <1>5, <1>6 DEF NamesInv

LEMMA CollectOutputNames ==
  ASSUME NamesInv, CollectOutput
  PROVE  NamesInv'
<1>1. /\ "output" \in Sides /\ "input" \in Sides /\ CollectName("output")
      /\ model' = model /\ at = "run" /\ at' = at /\ inputs' = inputs
  BY DEF CollectOutput, CollectName, Sides
<1>2. /\ names' \in [Sides -> Seq(Pointers)]
      /\ \A o \in Sides : SideInv(o)'
      /\ names'["input"] = names["input"]
  BY <1>1, CollectNameFacts
<1>3. TensorsInv'
  BY <1>1, <1>2 DEF NamesInv, TensorsInv, PlainSide
<1> QED BY <1>1, <1>2, <1>3 DEF NamesInv

(* The model's description is read when there are no names yet.            *)
LEMMA CreateSessionNames ==
  ASSUME NamesInv, model' \in [input : Names, output : Names],
         at = "session", at' = "run", UNCHANGED <<names, inputs>>
  PROVE  NamesInv'
<1>1. names = NoNames /\ inputs = << >>
  BY DEF NamesInv
<1>2. names["input"] = << >> /\ names["output"] = << >>
  BY <1>1 DEF NoNames
<1>3. model' \in [Sides -> Seq(Descriptions)]
  <2>1. model'.input \in Seq(Descriptions) /\ model'.output \in Seq(Descriptions)
    BY NamesAreDescriptions
  <2>2. DOMAIN model' = Sides /\ model' = [x \in Sides |-> model'[x]]
    BY DEF Sides
  <2> QED BY <2>1, <2>2 DEF Sides
<1>4. \A o \in Sides : Len(names[o]) = 0 /\ Len(model'[o]) \in Nat
  BY <1>2, <1>3, LenProperties DEF Sides
<1>5. \A o \in Sides : SideInv(o)'
  BY <1>4 DEF SideInv
<1>6. TensorsInv'
  BY <1>1, <1>2 DEF TensorsInv
<1> QED BY <1>3, <1>5, <1>6 DEF NamesInv

LEMMA PlainNames ==
  ASSUME NamesInv, Plain, at' \in {"load", "session"} => at \in {"load", "session"}
  PROVE  NamesInv'
<1>1. \A side \in Sides : PlainSide(side)' = PlainSide(side) /\ SideInv(side)
  BY DEF Plain, PlainSide, NamesInv
<1>2. \A side \in Sides : SideInv(side)'
  BY <1>1 DEF Plain, SideInv
<1>3. TensorsInv'
  BY <1>1 DEF Plain, TensorsInv, NamesInv, Sides
<1> QED BY <1>2, <1>3 DEF Plain, NamesInv

LEMMA NextNames == NamesInv /\ [Next]_vars => NamesInv'
<1> SUFFICES ASSUME NamesInv, [Next]_vars PROVE NamesInv'
  OBVIOUS
<1>1. CASE LoadModel \/ InitContext \/ Tokenize \/ Decode
  BY <1>1, PlainNames
  DEF LoadModel, InitContext, ContextMissing, Tokenize, Decode, DecodeFails, Goes, Ends
<1>2. CASE CreateEnv \/ SessionThrows \/ Run
  BY <1>2, PlainNames DEF CreateEnv, SessionThrows, Run, Goes, Ends
<1>3. CASE Unload \/ ReturnOk
  BY <1>3, PlainNames DEF Unload, ReturnOk, Goes, Ends
<1>4. CASE CreateSession
  <2>1. CASE UNCHANGED model
    BY <1>4, <2>1, PlainNames DEF CreateSession, Plain, Goes, Ends
  <2>2. CASE model' # model
    <3>1. /\ model' \in [input : Names, output : Names]
          /\ at = "session" /\ at' = "run" /\ UNCHANGED <<names, inputs>>
      BY <1>4, <2>2 DEF CreateSession, Goes
    <3> QED BY <3>1, CreateSessionNames
  <2> QED BY <2>1, <2>2
<1>5. CASE UNCHANGED vars
  BY <1>5, PlainNames DEF vars, Plain
<1> QED BY <1>1, <1>2, <1>3, <1>4, <1>5, CollectInputNames, CollectOutputNames DEF Next

(* session->Run gets every tensor with the name of its input, and all the  *)
(* names can be read, of models with one name or none that is kept inside  *)
(* its std::string, and whose inputs are all supported.                    *)
THEOREM PlainModelsAreNamed == Spec => []PlainModelsNamed
<1>1. NamesInv => PlainModelsNamed
  <2> SUFFICES ASSUME NamesInv, PlainSide("input"), PlainSide("output"),
                      NEW side \in Sides, NEW k \in DOMAIN names[side]
               PROVE  Paired(side, k)
    BY DEF PlainModelsNamed, Sides
  <2>1. PlainSide(side) /\ SideInv(side) /\ SideInv("input") /\ TensorsInv
    BY DEF NamesInv, Sides
  <2>2. k \in 1 .. Len(names[side])
    BY LenProperties DEF NamesInv
  <2>3. DOMAIN inputs = 1 .. Len(inputs)
    BY LenProperties DEF NamesInv
  <2> QED BY <2>1, <2>2, <2>3 DEF Paired, SideInv, TensorsInv
<1> QED BY <1>1, InitNames, NextNames, PTL DEF Spec

=============================================================================
