--------------------------- MODULE BackendRunner ---------------------------
(***************************************************************************)
(* run-llama and run-onnx: RunBackend of src/backend/backend_runner.h with *)
(* the two runners of llama_runner.cc and onnx_runner.cc, each of which    *)
(* owns two objects of its library through members that are plain pointers *)
(* and has no destructor.                                                  *)
(*                                                                         *)
(* The libraries are not part of the repository: a call of theirs succeeds *)
(* or fails in the ways that the code tests for or lets through.  Of the   *)
(* models that are loaded the inputs and outputs of an ONNX model matter.  *)
(***************************************************************************)
EXTENDS Integers, Sequences

CONSTANT MaxNames     \* bound on the inputs, and outputs, of an ONNX model

ASSUME MaxNamesAssumption == MaxNames \in Nat

VARIABLES
  backend,      \* the template argument: "llama" or "onnx"
  at,           \* where RunBackend is
  objects,      \* the objects of the libraries that are alive
  members,      \* the runner's members that are not null
  result,       \* "none" while it runs, then how it ended
  model,        \* of an ONNX model: its [input, output], sequences of
                \* [short, supported]
  names,        \* [input, output]: the vectors of const char*; each element
                \* is [of, short, valid], valid while its string has not moved
  inputs        \* the vector of tensors: for which input each has been made

vars == <<backend, at, objects, members, result, model, names, inputs>>

(* short: std::string keeps the characters inside itself.                  *)
Names == UNION {[1 .. n -> [short : BOOLEAN, supported : BOOLEAN]] : n \in 0 .. MaxNames}

NoNames == [input |-> << >>, output |-> << >>]

Init ==
  /\ backend \in {"llama", "onnx"}
  /\ at = "load"
  /\ objects = {} /\ members = {}
  /\ result = "none"
  /\ model = NoNames /\ names = NoNames
  /\ inputs = << >>

(* RunBackend goes on at l, with the library objects O and members M.      *)
Goes(l, O, M) ==
  /\ at' = l /\ objects' = O /\ members' = M
  /\ UNCHANGED <<backend, result>>

(* RunBackend returns, or an exception leaves it, uncaught up to main.     *)
Ends(r, O, M) ==
  /\ at' = "end" /\ objects' = O /\ members' = M /\ result' = r
  /\ UNCHANGED backend

Plain == UNCHANGED <<model, names, inputs>>

-----------------------------------------------------------------------------
(* LlamaRunner.                                                            *)

LoadModel ==
  /\ backend = "llama" /\ at = "load"
  /\ \/ Goes("context", {"model"}, {"model"})
     \/ Ends("load failed", objects, members)
  /\ Plain

(* "llama_init_from_model failed": the model is freed, model_ is nullptr.  *)
ContextMissing == Ends("load failed", objects \ {"model"}, members \ {"model"})

InitContext ==
  /\ backend = "llama" /\ at = "context"
  /\ \/ Goes("run", objects \cup {"context"}, members \cup {"context"})
     \/ ContextMissing
  /\ Plain

(* Both calls of llama_tokenize are there to fail.                         *)
Tokenize ==
  /\ backend = "llama" /\ at = "run"
  /\ \/ Goes("decode", objects \cup {"batch"}, members)
     \/ Ends("run failed", objects, members)
  /\ Plain

(* Mutant: the batch is freed after the test of llama_decode's result.     *)
DecodeFailsLeaks == Ends("run failed", objects, members)

DecodeFails == Ends("run failed", objects \ {"batch"}, members)

(* llama_decode; what follows it cannot fail.                              *)
Decode ==
  /\ at = "decode"
  /\ DecodeFails \/ Goes("unload", objects \ {"batch"}, members)
  /\ Plain

-----------------------------------------------------------------------------
(* OnnxRunner.                                                             *)

(* The constructors of Ort::Env, SessionOptions and Session can throw, and *)
(* only AppendExecutionProvider_CUDA is caught.                            *)
CreateEnv ==
  /\ backend = "onnx" /\ at = "load"
  /\ Goes("session", {"env"}, {"env"}) \/ Ends("thrown", objects, members)
  /\ Plain

CreateSession ==
  /\ at = "session"
  /\ \/ /\ Goes("run", objects \cup {"session"}, members \cup {"session"})
        /\ model' \in [input : Names, output : Names]
     \/ Ends("thrown", objects, members) /\ UNCHANGED model
  /\ UNCHANGED <<names, inputs>>

(* Mutant: the pointer is name.get(), freed at the end of the loop's turn. *)
PushedFreed(s, i, short, moves) ==
  Append(s, [of |-> i, short |-> short, valid |-> FALSE])

(* What push_back(name) and push_back(back().c_str()) make of the vector   *)
(* of pointers s, whose strings move if the vector of strings has to grow. *)
Pushed(s, i, short, moves) ==
  Append([j \in DOMAIN s |-> [s[j] EXCEPT !.valid = @ /\ ~(moves /\ s[j].short)]],
         [of |-> i, short |-> short, valid |-> TRUE])

CollectName(side) ==
  LET i == Len(names[side]) + 1
  IN /\ backend = "onnx" /\ at = "run"
     /\ i \in DOMAIN model[side]
     /\ \E moves \in BOOLEAN :
          names' = [names EXCEPT ![side] = Pushed(@, i, model[side][i].short, moves)]

(* "Skipping input": an unsupported type has a name and no tensor.         *)
WithTensor(i) ==
  IF model.input[i].supported THEN Append(inputs, i) ELSE inputs

(* One turn of the loop over the inputs.  (Calls of the session throw,     *)
(* too.)                                                                   *)
CollectInput ==
  /\ CollectName("input")
  /\ inputs' = WithTensor(Len(names.input) + 1)
  /\ UNCHANGED <<backend, at, objects, members, result, model>>

InputsCollected == Len(names.input) = Len(model.input)

CollectOutput ==
  /\ InputsCollected
  /\ CollectName("output")
  /\ UNCHANGED <<backend, at, objects, members, result, model, inputs>>

SessionThrows ==
  /\ backend = "onnx" /\ at = "run"
  /\ Ends("thrown", objects, members)
  /\ Plain

(* Both loops are done.                                                    *)
Collected ==
  backend = "onnx" /\ at = "run" /\ InputsCollected /\ Len(names.output) = Len(model.output)

(* The call of session->Run: "Run failed", or not.                         *)
Run ==
  /\ Collected
  /\ Goes("unload", objects, members) \/ Ends("run failed", objects, members)
  /\ Plain

-----------------------------------------------------------------------------
(* Mutant: the objects are freed in the order of their creation.           *)
LastCreated ==
  IF backend = "llama" THEN <<"model", "context">> ELSE <<"env", "session">>

(* What Unload frees, in its order.                                        *)
Unloads ==
  IF backend = "llama" THEN <<"context", "model">> ELSE <<"session", "env">>

(* One "if" or "delete" of Unload.                                         *)
Unload ==
  /\ at = "unload"
  /\ \E i \in DOMAIN Unloads :
       /\ Unloads[i] \in members
       /\ \A j \in 1 .. i - 1 : Unloads[j] \notin members
       /\ Goes("unload", objects \ {Unloads[i]}, members \ {Unloads[i]})
  /\ Plain

ReturnOk ==
  /\ at = "unload"
  /\ members = {}
  /\ Ends("ok", objects, members)
  /\ Plain

Next ==
  \/ LoadModel \/ InitContext \/ Tokenize \/ Decode
  \/ CreateEnv \/ CreateSession
  \/ CollectInput \/ CollectOutput \/ SessionThrows \/ Run
  \/ Unload \/ ReturnOk

Spec == Init /\ [][Next]_vars

-----------------------------------------------------------------------------
(* Properties.                                                             *)

(* However Load, RunOnce and Unload end, an object never outlives the one  *)
(* it was made from (a context its model, a session its environment), and  *)
(* no member points to what has been freed, so that nothing is freed twice.*)
OwnersOutlive ==
  /\ "context" \in objects => "model" \in objects
  /\ "session" \in objects => "env" \in objects
  /\ members \subseteq objects

(* RunBackend that returns "Status: OK", or whose Load has returned false, *)
(* leaves nothing behind.  After "RunOnce: FAILED" the runner is still     *)
(* loaded, since RunBackend returns without Unload; the batch is freed.    *)
LeavesNothing ==
  /\ result \in {"ok", "load failed"} => objects = {}
  /\ result = "run failed" => objects = members

(* In the k-th places of what session->Run gets, tensor and name are of    *)
(* one input, and the name is there to be read.                            *)
Paired(side, k) ==
  /\ names[side][k].valid
  /\ side = "input" /\ k \in DOMAIN inputs => names.input[k].of = inputs[k]

(* "Build input tensors and collect input names.": session->Run gets each  *)
(* tensor with the name of the input that it was made for.                 *)
InputsNamed ==
  Collected => \A k \in DOMAIN inputs : Paired("input", k)

(* The side has one name, or names too long to be kept inside a            *)
(* std::string, and all its types are supported if it is that of inputs.   *)
PlainSide(side) ==
  /\ Len(model[side]) > 1 => \A i \in DOMAIN model[side] : ~model[side][i].short
  /\ side = "input" => \A i \in DOMAIN model[side] : model[side][i].supported

(* InputsNamed does hold, and the names of the outputs can be read as      *)
(* well, for models both of whose sides are plain.                         *)
PlainModelsNamed ==
  (Collected /\ PlainSide("input") /\ PlainSide("output"))
  => \A side \in {"input", "output"} : \A k \in DOMAIN names[side] : Paired(side, k)

=============================================================================
