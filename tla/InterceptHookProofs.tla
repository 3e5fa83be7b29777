------------------------ MODULE InterceptHookProofs ------------------------
(***************************************************************************)
(* Proofs about InterceptHook, for every size of trampolines and pages and *)
(* however many pages there are.                                           *)
(***************************************************************************)
EXTENDS InterceptHook, SequenceTheorems, TLAPS

Bytes == {"own", "hook"}
Blocks == Nat \X Nat

-----------------------------------------------------------------------------
(* The inductive invariant.                                                *)

SetupOK ==
  \/ setup = Idle
  \/ setup \in [op : {"install"}, i : 1 .. 5, ok : BOOLEAN]
  \/ setup \in [op : {"record"}, i : 1 .. 4, ok : BOOLEAN, block : Blocks]
  \/ setup \in [op : {"remove"}, i : 1 .. 4]

CallRecords == [at : {"entry", "hook", "trampoline", "nowhere"} \cup Ends,
                fn : Functions, in : Functions]

CallOK ==
  \/ call = NoCall
  \/ call \in CallRecords

TypeInv ==
  /\ code \in [Functions -> Bytes]
  /\ pages \in Seq(0 .. kPageSize)
  /\ DOMAIN trampolines \subseteq Blocks
  /\ \A b \in DOMAIN trampolines : trampolines[b] \in [of : Functions, bytes : Bytes]
  /\ g_tramp \in [Functions -> Blocks \cup {NoBlock}]
  /\ g_vmm_active \in BOOLEAN
  /\ twice \in BOOLEAN
  /\ SetupOK
  /\ CallOK

(* Every trampoline lies in the used part of a page, apart from the others.*)
PagesInv ==
  /\ \A b \in DOMAIN trampolines :
       /\ b[1] \in 1 .. Len(pages)
       /\ b[2] + kTrampolineSize <= pages[b[1]]
  /\ TrampolinesWhole

(* HookInstall has patched f, and its caller does not know the trampoline. *)
Unrecorded(f) == setup.op = "record" /\ Order[setup.i] = f

(* g_tramp_* is null or f's own trampoline, which f has if it is hooked.   *)
RecordInv ==
  /\ \A f \in Functions :
       g_tramp[f] # NoBlock => /\ g_tramp[f] \in DOMAIN trampolines
                               /\ trampolines[g_tramp[f]].of = f
  /\ setup.op = "record" => /\ setup.block \in DOMAIN trampolines
                            /\ trampolines[setup.block].of = Order[setup.i]
  /\ \A f \in Functions :
       code[f] = "hook" => g_tramp[f] # NoBlock \/ Unrecorded(f)

CallInv ==
  call # NoCall =>
    /\ call.in = call.fn
    /\ call.at = "hook" => g_tramp[call.in] # NoBlock \/ Unrecorded(call.in)
    /\ call.at = "nowhere" => Unrecorded(call.in)
    /\ call.at = "trampoline" => g_tramp[call.in] # NoBlock

(* How far the installation or removal under way has come.                 *)
ProgressInv ==
  ~twice =>
    /\ \A b \in DOMAIN trampolines : trampolines[b].bytes = "own"
    /\ setup = Idle => \A f, g \in Functions : code[f] = code[g]
    /\ setup.op = "install" =>
         \A j \in 1 .. 4 : IF j < setup.i THEN setup.ok => code[Order[j]] = "hook"
                                          ELSE code[Order[j]] = "own"
    /\ setup.op = "record" =>
         \A j \in 1 .. 4 : IF j < setup.i THEN setup.ok => code[Order[j]] = "hook"
                           ELSE j > setup.i => code[Order[j]] = "own"
    /\ setup.op = "record" => code[Order[setup.i]] = "hook"
    /\ setup.op = "remove" => \A j \in 1 .. setup.i - 1 : code[Order[j]] = "own"

IInv == TypeInv /\ PagesInv /\ RecordInv /\ CallInv /\ ProgressInv

-----------------------------------------------------------------------------
LEMMA OrderFacts ==
  /\ DOMAIN Order = 1 .. 4 /\ Len(Order) = 4
  /\ Functions = {"cudaMalloc", "cudaFree", "cudaMemcpy", "cudaLaunchKernel"}
  /\ \A i \in 1 .. 4 : Order[i] \in Functions
  /\ \A i, j \in 1 .. 4 : Order[i] = Order[j] => i = j
  /\ \A f \in Functions : \E i \in 1 .. 4 : Order[i] = f
<1>1. DOMAIN Order = 1 .. 4 /\ Len(Order) = 4
  BY DEF Order
<1>2. /\ Order[1] = "cudaMalloc" /\ Order[2] = "cudaFree"
      /\ Order[3] = "cudaMemcpy" /\ Order[4] = "cudaLaunchKernel"
  BY DEF Order
<1>3. 1 .. 4 = {1, 2, 3, 4}
  OBVIOUS
<1> HIDE DEF Order
<1> QED BY <1>1, <1>2, <1>3 DEF Functions

(* AllocateTrampolineBlock returns a block that lies in its page, apart    *)
(* from every block there was.                                             *)
LEMMA NewBlockFacts ==
  ASSUME TypeInv, PagesInv
  PROVE  /\ Taken \in Seq(0 .. kPageSize)
         /\ NewBlock \in Blocks /\ NewBlock \notin DOMAIN trampolines
         /\ NewBlock[1] \in 1 .. Len(Taken)
         /\ NewBlock[2] + kTrampolineSize <= Taken[NewBlock[1]]
         /\ \A i \in 1 .. Len(pages) :
              i \in 1 .. Len(Taken) /\ pages[i] <= Taken[i]
         /\ \A b \in DOMAIN trampolines :
              b[1] = NewBlock[1] => b[2] + kTrampolineSize <= NewBlock[2]
<1>1. /\ pages \in Seq(0 .. kPageSize) /\ Len(pages) \in Nat
      /\ \A i \in 1 .. Len(pages) : pages[i] \in 0 .. kPageSize
      /\ pages # << >> => Len(pages) \in 1 .. Len(pages)
      /\ DOMAIN pages = 1 .. Len(pages)
  <2>1. pages \in Seq(0 .. kPageSize)
    BY DEF TypeInv
  <2>2. pages # << >> => Len(pages) # 0
    BY <2>1, EmptySeq
  <2>3. Len(pages) \in Nat /\ DOMAIN pages = 1 .. Len(pages)
    BY <2>1, LenProperties
  <2>4. \A i \in 1 .. Len(pages) : pages[i] \in 0 .. kPageSize
    BY <2>1, ElementOfSeq
  <2> QED BY <2>1, <2>2, <2>3, <2>4
<1>2. kPageSize \in Nat /\ kTrampolineSize \in Nat \ {0} /\ kTrampolineSize <= kPageSize
  BY SizesAssumption
<1>3. \A b \in DOMAIN trampolines :
        /\ b[1] \in 1 .. Len(pages) /\ b[1] \in Nat /\ b[2] \in Nat
        /\ b[2] + kTrampolineSize <= pages[b[1]]
  BY DEF TypeInv, PagesInv, Blocks
<1>4. CASE PageFull
  <2>1. Taken = Append(pages, kTrampolineSize) /\ NewBlock = <<Len(pages) + 1, 0>>
    BY <1>4 DEF Taken, NewBlock
  <2>2. /\ Taken \in Seq(0 .. kPageSize) /\ Len(Taken) = Len(pages) + 1
        /\ Taken[Len(pages) + 1] = kTrampolineSize
        /\ \A i \in 1 .. Len(pages) : Taken[i] = pages[i]
    BY <1>1, <1>2, <2>1, AppendProperties
  <2> QED BY <1>1, <1>2, <1>3, <2>1, <2>2 DEF Blocks
<1>5. CASE ~PageFull
  <2>1. pages # << >> /\ Used = pages[Len(pages)] /\ Used + kTrampolineSize <= kPageSize
    BY <1>1, <1>2, <1>5 DEF PageFull, Used
  <2>2. /\ Taken = [pages EXCEPT ![Len(pages)] = @ + kTrampolineSize]
        /\ NewBlock = <<Len(pages), Used>>
    BY <1>5 DEF Taken, NewBlock
  <2>3. /\ Taken \in Seq(0 .. kPageSize) /\ Len(Taken) = Len(pages)
        /\ Taken[Len(pages)] = Used + kTrampolineSize
        /\ \A i \in 1 .. Len(pages) : i # Len(pages) => Taken[i] = pages[i]
    <3>1. Len(pages) \in 1 .. Len(pages) /\ Used + kTrampolineSize \in 0 .. kPageSize
      BY <1>1, <1>2, <2>1 DEF Used
    <3>2. Taken = [pages EXCEPT ![Len(pages)] = Used + kTrampolineSize]
      BY <2>1, <2>2
    <3> DEFINE n == Len(pages)
               u == Used + kTrampolineSize
    <3> HIDE DEF n, u
    <3>3. /\ [pages EXCEPT ![n] = u] \in Seq(0 .. kPageSize)
          /\ Len([pages EXCEPT ![n] = u]) = Len(pages)
          /\ \A j \in 1 .. Len(pages) :
               [pages EXCEPT ![n] = u][j] = IF j = n THEN u ELSE pages[j]
      BY <1>1, <3>1, ExceptSeq DEF n, u
    <3>4. n = Len(pages) /\ u = Used + kTrampolineSize
      BY DEF n, u
    <3> QED BY <1>1, <3>1, <3>2, <3>3, <3>4
  <2>4. /\ NewBlock[1] = Len(pages) /\ NewBlock[2] = Used
        /\ Used \in Nat /\ Len(pages) \in Nat
    BY <1>1, <2>1, <2>2
  <2>5. NewBlock \in Blocks
    BY <2>2, <2>4 DEF Blocks
  <2>6. \A b \in DOMAIN trampolines :
          b[1] = NewBlock[1] => b[2] + kTrampolineSize <= NewBlock[2]
    BY <1>3, <2>1, <2>4
  <2>7. NewBlock \notin DOMAIN trampolines
    BY <1>2, <2>4, <2>6
  <2>8. \A i \in 1 .. Len(pages) : pages[i] <= Taken[i]
    <3> SUFFICES ASSUME NEW i \in 1 .. Len(pages) PROVE pages[i] <= Taken[i]
      OBVIOUS
    <3>1. pages[i] \in Nat /\ Used \in Nat
      BY <1>1, <1>2, <2>4
    <3>2. CASE i = Len(pages)
      BY <1>2, <2>1, <2>3, <3>1, <3>2
    <3>3. CASE i # Len(pages)
      BY <2>3, <3>1, <3>3
    <3> QED BY <3>2, <3>3
  <2>9. NewBlock[1] \in 1 .. Len(pages)
    BY <1>1, <2>1, <2>4
  <2>10. NewBlock[2] + kTrampolineSize <= Taken[NewBlock[1]]
    BY <1>2, <2>3, <2>4
  <2> QED BY <2>3, <2>5, <2>6, <2>7, <2>8, <2>9, <2>10
<1> QED BY <1>4, <1>5

-----------------------------------------------------------------------------
(* What EXCEPT makes of the records call and setup.                        *)

LEMMA CallExcept ==
  ASSUME NEW c \in CallRecords, NEW at, NEW in
  PROVE  /\ [c EXCEPT !.at = at] = [at |-> at, fn |-> c.fn, in |-> c.in]
         /\ [c EXCEPT !.in = in, !.at = at] = [at |-> at, fn |-> c.fn, in |-> in]
<1> DEFINE d == [c EXCEPT !.in = in]
<1>1. d = [at |-> c.at, fn |-> c.fn, in |-> in]
  BY DEF CallRecords
<1>2. [c EXCEPT !.in = in, !.at = at] = [d EXCEPT !.at = at]
  OBVIOUS
<1> HIDE DEF d
<1>3. [d EXCEPT !.at = at] = [at |-> at, fn |-> c.fn, in |-> in]
  BY <1>1
<1>4. [c EXCEPT !.at = at] = [at |-> at, fn |-> c.fn, in |-> c.in]
  BY DEF CallRecords
<1> QED BY <1>2, <1>3, <1>4

LEMMA SetupExcept ==
  /\ \A s \in [op : {"install"}, i : 1 .. 5, ok : BOOLEAN] :
       [s EXCEPT !.i = @ + 1, !.ok = FALSE] =
         [op |-> "install", i |-> s.i + 1, ok |-> FALSE]
  /\ \A s \in [op : {"remove"}, i : 1 .. 4] :
       [s EXCEPT !.i = @ + 1] = [op |-> "remove", i |-> s.i + 1]
<1>1. ASSUME NEW s \in [op : {"install"}, i : 1 .. 5, ok : BOOLEAN]
      PROVE  [s EXCEPT !.i = @ + 1, !.ok = FALSE] =
               [op |-> "install", i |-> s.i + 1, ok |-> FALSE]
  <2> DEFINE d == [s EXCEPT !.i = @ + 1]
  <2>1. /\ d = [op |-> "install", i |-> s.i + 1, ok |-> s.ok]
        /\ d \in [op : {"install"}, i : Int, ok : BOOLEAN]
    OBVIOUS
  <2>2. [s EXCEPT !.i = @ + 1, !.ok = FALSE] = [d EXCEPT !.ok = FALSE]
    OBVIOUS
  <2> HIDE DEF d
  <2>3. [d EXCEPT !.ok = FALSE] = [op |-> "install", i |-> s.i + 1, ok |-> FALSE]
    <3>1. ASSUME NEW x
          PROVE  [d EXCEPT !.ok = x] = [op |-> d.op, i |-> d.i, ok |-> x]
      BY <2>1
    <3>2. [d EXCEPT !.ok = FALSE] = [op |-> d.op, i |-> d.i, ok |-> FALSE]
      BY <3>1, Zenon
    <3> QED BY <2>1, <3>2
  <2> QED BY <2>2, <2>3
<1>2. ASSUME NEW s \in [op : {"remove"}, i : 1 .. 4]
      PROVE  [s EXCEPT !.i = @ + 1] = [op |-> "remove", i |-> s.i + 1]
  OBVIOUS
<1> QED BY <1>1, <1>2

-----------------------------------------------------------------------------
LEMMA InitIInv == Init => IInv
<1> SUFFICES ASSUME Init PROVE IInv
  OBVIOUS
<1> USE DEF Init
<1>1. TypeInv
  <2>1. code \in [Functions -> Bytes] /\ g_tramp \in [Functions -> Blocks \cup {NoBlock}]
    BY DEF Bytes
  <2>2. /\ pages \in Seq(0 .. kPageSize)
        /\ DOMAIN trampolines = {}
    OBVIOUS
  <2> QED BY <2>1, <2>2 DEF TypeInv, SetupOK, CallOK
<1>2. PagesInv
  BY DEF PagesInv, TrampolinesWhole
<1>3. RecordInv
  BY DEF RecordInv, Idle
<1>4. CallInv
  BY DEF CallInv
<1>5. ProgressInv
  BY DEF ProgressInv, Idle
<1> QED BY <1>1, <1>2, <1>3, <1>4, <1>5 DEF IInv

(* A step of the application's call changes no code and no trampoline.     *)
LEMMA CallStepIInv ==
  ASSUME IInv, UNCHANGED <<hookVars, setup, twice>>, CallOK', CallInv'
  PROVE  IInv'
  BY DEF IInv, hookVars, TypeInv, SetupOK, PagesInv, TrampolinesWhole,
         RecordInv, Unrecorded, ProgressInv

LEMMA InitializeIInv ==
  ASSUME IInv, call.at # "nowhere", InitializeIntercept
  PROVE  IInv'
<1> USE DEF InitializeIntercept
<1>1. TypeInv'
  <2>1. CallOK'
    BY DEF IInv, TypeInv, CallOK
  <2>2. [op |-> "install", i |-> 1, ok |-> TRUE]
          \in [op : {"install"}, i : 1 .. 5, ok : BOOLEAN]
    OBVIOUS
  <2>3. SetupOK'
    BY <2>2 DEF SetupOK
  <2> QED BY <2>1, <2>3 DEF IInv, TypeInv
<1>2. PagesInv'
  BY DEF IInv, PagesInv, TrampolinesWhole
<1>3. RecordInv'
  BY DEF IInv, RecordInv, Unrecorded, Idle
<1>4. CallInv'
  BY DEF IInv, CallInv, Unrecorded, Idle
<1>5. ProgressInv'
  <2>1. CASE setup' = Idle /\ twice' = twice
    BY <2>1 DEF IInv, ProgressInv, Idle
  <2>2. CASE /\ setup' = [op |-> "install", i |-> 1, ok |-> TRUE]
             /\ twice' = (twice \/ \E f \in Functions : code[f] = "hook")
    <3> SUFFICES ASSUME ~twice' PROVE ProgressInv'
      BY DEF ProgressInv
    <3>1. ~twice /\ \A f \in Functions : code[f] = "own"
      BY <2>2 DEF IInv, TypeInv, Bytes
    <3>2. \A j \in 1 .. 4 : code[Order[j]] = "own"
      BY <3>1, OrderFacts
    <3> QED BY <2>2, <3>1, <3>2 DEF IInv, ProgressInv, Idle
  <2> QED BY <2>1, <2>2
<1> QED BY <1>1, <1>2, <1>3, <1>4, <1>5 DEF IInv

(* HookInstall: the bytes that are copied and patched are the function's   *)
(* own, unless hooks are installed over hooks.                             *)
LEMMA InstallHookIInv ==
  ASSUME IInv, call.at # "nowhere", InstallHook
  PROVE  IInv'
<1> DEFINE f == Order[setup.i]
           b == NewBlock
           t == [of |-> f, bytes |-> code[f]]
<1>1. /\ setup \in [op : {"install"}, i : 1 .. 5, ok : BOOLEAN] /\ setup.i \in 1 .. 4
      /\ f \in Functions
  BY OrderFacts DEF IInv, TypeInv, SetupOK, InstallHook, Idle
<1>2. /\ pages' = Taken
      /\ trampolines' = Put(trampolines, b, t)
      /\ code' = [code EXCEPT ![f] = "hook"]
      /\ setup' = [op |-> "record", i |-> setup.i, ok |-> setup.ok, block |-> b]
      /\ UNCHANGED <<g_tramp, g_cuda_dll, g_vmm_active, call, twice>>
  BY DEF InstallHook, Current, Copy
<1>3. /\ TypeInv /\ PagesInv /\ RecordInv /\ CallInv /\ ProgressInv
      /\ code \in [Functions -> Bytes] /\ code[f] \in Bytes
  BY <1>1 DEF IInv, TypeInv
<1>4. /\ DOMAIN trampolines' = DOMAIN trampolines \cup {b}
      /\ trampolines'[b] = t
      /\ \A x \in DOMAIN trampolines : x # b => trampolines'[x] = trampolines[x]
  <2> HIDE DEF b, t
  <2>1. trampolines' = Put(trampolines, b, t)
    BY <1>2
  <2> QED BY <2>1 DEF Put
<1>5. t \in [of : Functions, bytes : Bytes] /\ t.of = f /\ t.bytes = code[f]
  BY <1>1, <1>3
<1>6. /\ setup'.op = "record" /\ setup'.i = setup.i /\ setup'.ok = setup.ok
      /\ setup'.block = b /\ setup' # Idle /\ setup # Idle
  BY <1>1, <1>2 DEF Idle
<1>7. /\ b \in Blocks /\ b \notin DOMAIN trampolines
      /\ pages' \in Seq(0 .. kPageSize)
      /\ b[1] \in 1 .. Len(pages')
      /\ b[2] + kTrampolineSize <= pages'[b[1]]
      /\ \A i \in 1 .. Len(pages) : i \in 1 .. Len(pages') /\ pages[i] <= pages'[i]
      /\ \A x \in DOMAIN trampolines :
           x[1] = b[1] => x[2] + kTrampolineSize <= b[2]
  BY <1>2, <1>3, NewBlockFacts
<1> HIDE DEF b, t
<1>8. TypeInv'
  <2>1. code' \in [Functions -> Bytes]
    BY <1>2, <1>3 DEF Bytes
  <2>2. SetupOK'
    BY <1>1, <1>2, <1>7 DEF SetupOK
  <2>3. CallOK'
    BY <1>2, <1>3 DEF CallOK, TypeInv
  <2>4. \A x \in DOMAIN trampolines' :
          x \in Blocks /\ trampolines'[x] \in [of : Functions, bytes : Bytes]
    BY <1>3, <1>4, <1>5, <1>7 DEF TypeInv
  <2> QED BY <1>2, <1>3, <1>7, <2>1, <2>2, <2>3, <2>4 DEF TypeInv
<1>9. PagesInv'
  <2>1. \A x \in DOMAIN trampolines :
          /\ x[1] \in 1 .. Len(pages) /\ x[2] \in Nat
          /\ x[2] + kTrampolineSize <= pages[x[1]]
    BY <1>3 DEF PagesInv, TypeInv, Blocks
  <2>2. /\ kTrampolineSize \in Nat /\ kPageSize \in Nat
        /\ \A i \in 1 .. Len(pages) : pages[i] \in 0 .. kPageSize
        /\ \A i \in 1 .. Len(pages') : pages'[i] \in 0 .. kPageSize
    BY <1>3, <1>7, SizesAssumption, ElementOfSeq DEF TypeInv
  <2>3. ASSUME NEW x \in DOMAIN trampolines'
        PROVE  /\ x[1] \in 1 .. Len(pages') /\ x[2] \in Nat
               /\ x[2] + kTrampolineSize <= pages'[x[1]]
               /\ x[2] + kTrampolineSize <= kPageSize
    <3>1. CASE x = b
      <4>1. b[1] \in 1 .. Len(pages') /\ b[2] \in Nat /\ pages'[b[1]] \in 0 .. kPageSize
        BY <1>7, <2>2 DEF Blocks
      <4> QED BY <1>7, <2>2, <3>1, <4>1
    <3>2. CASE x \in DOMAIN trampolines
      <4>1. /\ x[1] \in 1 .. Len(pages) /\ x[2] \in Nat
            /\ x[2] + kTrampolineSize <= pages[x[1]]
        BY <2>1, <3>2
      <4>2. /\ x[1] \in 1 .. Len(pages') /\ pages[x[1]] <= pages'[x[1]]
            /\ pages[x[1]] \in 0 .. kPageSize /\ pages'[x[1]] \in 0 .. kPageSize
        BY <1>7, <2>2, <4>1
      <4> QED BY <2>2, <4>1, <4>2
    <3> QED BY <1>4, <3>1, <3>2
  <2>4. ASSUME NEW x \in DOMAIN trampolines', NEW y \in DOMAIN trampolines',
               x # y, x[1] = y[1]
        PROVE  \/ x[2] + kTrampolineSize <= y[2]
               \/ y[2] + kTrampolineSize <= x[2]
    <3>1. CASE x = b \/ y = b
      BY <1>4, <1>7, <2>4, <3>1
    <3>2. CASE x # b /\ y # b
      BY <1>3, <1>4, <2>4, <3>2 DEF PagesInv, TrampolinesWhole
    <3> QED BY <3>1, <3>2
  <2> QED BY <2>3, <2>4 DEF PagesInv, TrampolinesWhole
<1>10. RecordInv'
  <2>1. ASSUME NEW g \in Functions, g_tramp'[g] # NoBlock
        PROVE  /\ g_tramp'[g] \in DOMAIN trampolines'
               /\ trampolines'[g_tramp'[g]].of = g
    BY <1>2, <1>3, <1>4, <1>7, <2>1 DEF RecordInv
  <2>2. Order[setup'.i] = f
    BY <1>6
  <2>3. ASSUME NEW g \in Functions, code'[g] = "hook"
        PROVE  g_tramp'[g] # NoBlock \/ Unrecorded(g)'
    <3>1. CASE g = f
      BY <1>6, <2>2, <3>1 DEF Unrecorded
    <3>2. CASE g # f
      <4>1. code[g] = "hook" /\ ~Unrecorded(g)
        BY <1>1, <1>2, <1>3, <2>3, <3>2 DEF Unrecorded
      <4> QED BY <1>2, <1>3, <4>1 DEF RecordInv
    <3> QED BY <3>1, <3>2
  <2>4. /\ setup'.block \in DOMAIN trampolines'
        /\ trampolines'[setup'.block].of = Order[setup'.i]
    BY <1>4, <1>5, <1>6, <2>2
  <2> QED BY <2>1, <2>3, <2>4 DEF RecordInv
<1>11. CallInv'
  BY <1>1, <1>2, <1>3, <1>6 DEF CallInv, Unrecorded
<1>12. ProgressInv'
  <2> SUFFICES ASSUME ~twice
               PROVE  ProgressInv'
    BY <1>2 DEF ProgressInv
  <2>1. \A j \in 1 .. 4 : IF j < setup.i THEN setup.ok => code[Order[j]] = "hook"
                                        ELSE code[Order[j]] = "own"
    BY <1>1, <1>3 DEF ProgressInv
  <2>2. \A x \in DOMAIN trampolines' : trampolines'[x].bytes = "own"
    <3>1. code[f] = "own"
      BY <1>1, <2>1
    <3> QED BY <1>3, <1>4, <1>5, <3>1 DEF ProgressInv
  <2>3. \A j \in 1 .. 4 : j # setup.i => code'[Order[j]] = code[Order[j]]
    BY <1>1, <1>2, <1>3, OrderFacts
  <2>4. code'[Order[setup.i]] = "hook"
    BY <1>1, <1>2, <1>3
  <2>5. \A j \in 1 .. 4 : IF j < setup.i THEN setup.ok => code'[Order[j]] = "hook"
                         ELSE j > setup.i => code'[Order[j]] = "own"
    BY <1>1, <2>1, <2>3
  <2> QED BY <1>6, <2>2, <2>4, <2>5 DEF ProgressInv
<1> QED BY <1>8, <1>9, <1>10, <1>11, <1>12 DEF IInv

(* The trampoline becomes known to the hook.                               *)
LEMMA RecordTrampolineIInv ==
  ASSUME IInv, call.at # "nowhere", RecordTrampoline
  PROVE  IInv'
<1> DEFINE f == Order[setup.i]
<1>1. /\ setup \in [op : {"record"}, i : 1 .. 4, ok : BOOLEAN, block : Blocks]
      /\ f \in Functions /\ setup # Idle
  BY OrderFacts DEF IInv, TypeInv, SetupOK, RecordTrampoline, Idle
<1>2. /\ g_tramp' = [g_tramp EXCEPT ![f] = setup.block]
      /\ setup' = [op |-> "install", i |-> setup.i + 1, ok |-> setup.ok]
      /\ UNCHANGED <<code, pages, trampolines, g_cuda_dll, g_vmm_active, call, twice>>
  BY DEF RecordTrampoline, Current
<1>3. /\ TypeInv /\ PagesInv /\ RecordInv /\ CallInv /\ ProgressInv
      /\ g_tramp \in [Functions -> Blocks \cup {NoBlock}]
  BY DEF IInv, TypeInv
<1>4. /\ setup'.op = "install" /\ setup'.i = setup.i + 1 /\ setup'.ok = setup.ok
      /\ setup' # Idle
  BY <1>2 DEF Idle
<1>5. /\ g_tramp'[f] = setup.block /\ setup.block # NoBlock
      /\ \A g \in Functions : g # f => g_tramp'[g] = g_tramp[g]
  BY <1>1, <1>2, <1>3, NoBlockAssumption DEF Blocks
<1>6. TypeInv'
  <2>1. g_tramp' \in [Functions -> Blocks \cup {NoBlock}]
    BY <1>1, <1>2, <1>3
  <2>2. SetupOK'
    BY <1>1, <1>2 DEF SetupOK
  <2>3. CallOK'
    BY <1>2, <1>3 DEF CallOK, TypeInv
  <2> QED BY <1>2, <1>3, <2>1, <2>2, <2>3 DEF TypeInv
<1>7. PagesInv'
  BY <1>2, <1>3 DEF PagesInv, TrampolinesWhole
<1>8. RecordInv'
  <2>1. ASSUME NEW g \in Functions, g_tramp'[g] # NoBlock
        PROVE  /\ g_tramp'[g] \in DOMAIN trampolines
               /\ trampolines[g_tramp'[g]].of = g
    <3>1. CASE g = f
      BY <1>1, <1>3, <1>5, <3>1 DEF RecordInv
    <3>2. CASE g # f
      BY <1>3, <1>5, <2>1, <3>2 DEF RecordInv
    <3> QED BY <3>1, <3>2
  <2>2. ASSUME NEW g \in Functions, code[g] = "hook"
        PROVE  g_tramp'[g] # NoBlock
    BY <1>1, <1>3, <1>5, <2>2 DEF RecordInv, Unrecorded
  <2> QED BY <1>2, <1>4, <2>1, <2>2 DEF RecordInv
<1>9. CallInv'
  BY <1>1, <1>2, <1>3, <1>4, <1>5 DEF CallInv, Unrecorded, TypeInv, CallOK, CallRecords
<1>10. ProgressInv'
  <2> SUFFICES ASSUME ~twice
               PROVE  ProgressInv'
    BY <1>2 DEF ProgressInv
  <2>1. \A j \in 1 .. 4 : IF j < setup.i THEN setup.ok => code[Order[j]] = "hook"
                         ELSE j > setup.i => code[Order[j]] = "own"
    BY <1>1, <1>3 DEF ProgressInv
  <2>2. code[Order[setup.i]] = "hook" /\ setup.i \in 1 .. 4
    BY <1>1, <1>3 DEF ProgressInv
  <2>3. \A j \in 1 .. 4 : IF j < setup'.i THEN setup'.ok => code[Order[j]] = "hook"
                                         ELSE code[Order[j]] = "own"
    BY <1>4, <2>1, <2>2
  <2>4. \A x \in DOMAIN trampolines : trampolines[x].bytes = "own"
    BY <1>3 DEF ProgressInv
  <2> QED BY <1>2, <1>4, <2>3, <2>4 DEF ProgressInv
<1> QED BY <1>6, <1>7, <1>8, <1>9, <1>10 DEF IInv

(* The steps that only change how far the installation has come.           *)
LEMMA SetupIInv ==
  ASSUME IInv, UNCHANGED <<code, pages, trampolines, g_tramp, call, twice>>,
         g_vmm_active' \in BOOLEAN, SetupOK', CallInv', ProgressInv',
         setup.op # "record", setup'.op # "record"
  PROVE  IInv'
<1>1. TypeInv'
  BY DEF IInv, TypeInv, CallOK
<1>2. PagesInv'
  BY DEF IInv, PagesInv, TrampolinesWhole
<1>3. RecordInv'
  BY DEF IInv, RecordInv, Unrecorded
<1> QED BY <1>1, <1>2, <1>3 DEF IInv

LEMMA InstallHookFailsIInv ==
  ASSUME IInv, call.at # "nowhere", InstallHookFails
  PROVE  IInv'
<1>1. /\ setup \in [op : {"install"}, i : 1 .. 5, ok : BOOLEAN] /\ setup.i \in 1 .. 4
      /\ setup # Idle
  BY OrderFacts DEF IInv, TypeInv, SetupOK, InstallHookFails, Idle
<1>2. /\ setup' = [op |-> "install", i |-> setup.i + 1, ok |-> FALSE]
      /\ UNCHANGED <<code, pages, trampolines, g_tramp, g_vmm_active, call, twice>>
  BY <1>1, SetupExcept DEF InstallHookFails, hookVars
<1>3. /\ setup'.op = "install" /\ setup'.i = setup.i + 1 /\ setup'.ok = FALSE
      /\ setup' # Idle
  BY <1>2 DEF Idle
<1>4. SetupOK'
  BY <1>1, <1>2 DEF SetupOK
<1>5. CallInv'
  BY <1>1, <1>2 DEF IInv, CallInv, Unrecorded
<1>6. ProgressInv'
  BY <1>1, <1>2, <1>3 DEF IInv, ProgressInv
<1> QED BY <1>1, <1>2, <1>3, <1>4, <1>5, <1>6, SetupIInv DEF IInv, TypeInv

LEMMA InstallEndsIInv ==
  ASSUME IInv, call.at # "nowhere", InstallEnds
  PROVE  IInv'
<1>1. /\ setup \in [op : {"install"}, i : 1 .. 5, ok : BOOLEAN]
      /\ setup.i = 5 /\ setup.ok /\ setup # Idle
  BY OrderFacts DEF IInv, TypeInv, SetupOK, InstallEnds, Idle
<1>2. /\ setup' = Idle /\ setup'.op = "idle" /\ g_vmm_active' \in BOOLEAN
      /\ UNCHANGED <<code, pages, trampolines, g_tramp, call, twice>>
  BY DEF InstallEnds, IInv, TypeInv, Idle
<1>3. CallInv'
  BY <1>1, <1>2 DEF IInv, CallInv, Unrecorded
<1>4. ProgressInv'
  <2> SUFFICES ASSUME ~twice
               PROVE  ProgressInv'
    BY <1>2 DEF ProgressInv
  <2>1. \A j \in 1 .. 4 : code[Order[j]] = "hook"
    BY <1>1 DEF IInv, ProgressInv
  <2>2. \A f \in Functions : code[f] = "hook"
    BY <2>1, OrderFacts
  <2>3. \A b \in DOMAIN trampolines : trampolines[b].bytes = "own"
    BY DEF IInv, ProgressInv
  <2> QED BY <1>2, <2>2, <2>3 DEF ProgressInv
<1>5. SetupOK'
  BY <1>2 DEF SetupOK
<1> QED BY <1>1, <1>2, <1>3, <1>4, <1>5, SetupIInv

(* Both begin a removal.                                                   *)
LEMMA RemovalIInv ==
  ASSUME IInv, call.at # "nowhere", InstallRollsBack \/ ShutdownIntercept
  PROVE  IInv'
<1>1. /\ setup' = Removal /\ setup'.op = "remove" /\ setup'.i = 1 /\ setup' # Idle
      /\ setup.op # "record"
      /\ UNCHANGED <<code, pages, trampolines, g_tramp, g_vmm_active, twice>>
  BY DEF InstallRollsBack, ShutdownIntercept, Removal, hookVars, Idle
<1>2. SetupOK'
  BY <1>1 DEF SetupOK, Removal
<1>3. ProgressInv'
  BY <1>1 DEF IInv, ProgressInv
<1>4. call' = call
  BY DEF InstallRollsBack, ShutdownIntercept
<1>5. CallInv'
  BY <1>1, <1>4 DEF IInv, CallInv, Unrecorded
<1> QED BY <1>1, <1>2, <1>3, <1>4, <1>5, SetupIInv DEF IInv, TypeInv

(* HookRemove: while no hook has been installed over a hook, the bytes     *)
(* that come back are the function's own, from whatever installation the   *)
(* trampoline is.                                                          *)
LEMMA RestoredFacts ==
  ASSUME IInv, NEW f \in Functions, setup.op # "record"
  PROVE  /\ Restored(f) \in Bytes
         /\ ~twice => Restored(f) = "own"
<1>1. CASE g_tramp[f] = NoBlock
  BY <1>1 DEF IInv, TypeInv, RecordInv, Unrecorded, Restored, Bytes
<1>2. CASE g_tramp[f] # NoBlock
  BY <1>2 DEF IInv, TypeInv, RecordInv, ProgressInv, Restored, Bytes
<1> QED BY <1>1, <1>2

LEMMA RemoveHookIInv ==
  ASSUME IInv, call.at # "nowhere", RemoveHook
  PROVE  IInv'
<1> DEFINE f == Order[setup.i]
<1>1. /\ setup \in [op : {"remove"}, i : 1 .. 4] /\ setup # Idle /\ setup.op = "remove"
      /\ f \in Functions
  BY OrderFacts DEF IInv, TypeInv, SetupOK, RemoveHook, Idle
<1>2. /\ code' = [code EXCEPT ![f] = Restored(f)]
      /\ UNCHANGED <<pages, trampolines, g_tramp, g_vmm_active, call, twice>>
      /\ IF setup.i = 4 THEN setup' = Idle
                         ELSE setup' = [op |-> "remove", i |-> setup.i + 1]
  BY <1>1, OrderFacts, SetupExcept DEF RemoveHook, Current
<1>3. /\ TypeInv /\ PagesInv /\ RecordInv /\ CallInv /\ ProgressInv
      /\ code \in [Functions -> Bytes] /\ Restored(f) \in Bytes
      /\ Restored(f) = "hook" => g_tramp[f] # NoBlock
      /\ ~twice => Restored(f) = "own"
  BY <1>1, RestoredFacts DEF IInv, TypeInv, RecordInv, Unrecorded, Restored
<1>4. /\ code'[f] = Restored(f)
      /\ \A g \in Functions : g # f => code'[g] = code[g]
      /\ code' \in [Functions -> Bytes]
  BY <1>1, <1>2, <1>3
<1>5. setup'.op # "record"
  BY <1>2 DEF Idle
<1>6. TypeInv'
  <2>1. SetupOK'
    BY <1>1, <1>2 DEF SetupOK
  <2> QED BY <1>2, <1>3, <1>4, <2>1 DEF TypeInv, CallOK
<1>7. PagesInv'
  BY <1>2, <1>3 DEF PagesInv, TrampolinesWhole
<1>8. RecordInv'
  BY <1>1, <1>2, <1>3, <1>4, <1>5 DEF RecordInv, Unrecorded
<1>9. CallInv'
  BY <1>1, <1>2, <1>3 DEF CallInv, Unrecorded
<1>10. ProgressInv'
  <2> SUFFICES ASSUME ~twice
               PROVE  ProgressInv'
    BY <1>2 DEF ProgressInv
  <2>1. \A j \in 1 .. setup.i : code'[Order[j]] = "own"
    BY <1>1, <1>3, <1>4, OrderFacts DEF ProgressInv
  <2>2. \A b \in DOMAIN trampolines : trampolines[b].bytes = "own"
    BY <1>3 DEF ProgressInv
  <2>3. CASE setup.i = 4
    <3>1. \A g \in Functions : code'[g] = "own"
      BY <2>1, <2>3, OrderFacts
    <3>2. setup' = Idle /\ setup'.op = "idle"
      BY <1>2, <2>3 DEF Idle
    <3> QED BY <1>2, <2>2, <3>1, <3>2 DEF ProgressInv
  <2>4. CASE setup.i # 4
    <3>1. setup'.op = "remove" /\ setup'.i = setup.i + 1 /\ setup' # Idle
      BY <1>2, <2>4 DEF Idle
    <3> QED BY <1>1, <1>2, <2>1, <2>2, <3>1 DEF ProgressInv
  <2> QED BY <2>3, <2>4
<1> QED BY <1>6, <1>7, <1>8, <1>9, <1>10 DEF IInv

(* The application's call begins in the function that it is for.           *)
LEMMA CallIInv ==
  ASSUME IInv, NEW f \in Functions, Call(f)
  PROVE  IInv'
<1>1. /\ call' = [at |-> "entry", fn |-> f, in |-> f]
      /\ UNCHANGED <<hookVars, setup, twice>>
  BY DEF Call
<1>2. CallOK'
  BY <1>1 DEF CallOK, CallRecords
<1>3. CallInv'
  BY <1>1 DEF CallInv
<1> QED BY <1>1, <1>2, <1>3, CallStepIInv

(* The steps of a call: what the hook or the trampoline does depends on    *)
(* the trampolines that are known.                                         *)
LEMMA GoesIInv ==
  ASSUME IInv, call # NoCall,
         NEW at \in {"runtime", "allocator", "driver", "hook", "trampoline", "nowhere"},
         Goes(at),
         at = "hook" => g_tramp[call.in] # NoBlock \/ Unrecorded(call.in),
         at = "nowhere" => Unrecorded(call.in),
         at = "trampoline" => g_tramp[call.in] # NoBlock
  PROVE  IInv'
<1>1. call \in CallRecords
  BY DEF IInv, TypeInv, CallOK
<1>2. /\ call' = [at |-> at, fn |-> call.fn, in |-> call.in]
      /\ UNCHANGED <<hookVars, setup, twice>>
  BY <1>1, CallExcept DEF Goes
<1>3. CallOK'
  BY <1>1, <1>2 DEF CallOK, CallRecords, Ends
<1>4. CallInv'
  BY <1>2 DEF IInv, CallInv, Unrecorded, hookVars
<1> QED BY <1>2, <1>3, <1>4, CallStepIInv

LEMMA CallStepsIInv ==
  ASSUME IInv, CallStep
  PROVE  IInv'
<1>1. CASE Enter
  <2>1. /\ call \in CallRecords /\ call # NoCall
        /\ code[call.in] \in Bytes
    BY <1>1 DEF Enter, IInv, TypeInv, CallOK, CallRecords, NoCall
  <2>2. code[call.in] # "own" => g_tramp[call.in] # NoBlock \/ Unrecorded(call.in)
    BY <2>1 DEF IInv, CallInv, RecordInv, Unrecorded, Bytes, CallRecords, Idle
  <2>3. CASE code[call.in] = "own"
    <3>1. Goes("runtime")
      BY <1>1, <2>3 DEF Enter
    <3> QED BY <2>1, <3>1, GoesIInv
  <2>4. CASE code[call.in] # "own"
    <3>1. Goes("hook")
      BY <1>1, <2>4 DEF Enter
    <3> QED BY <2>1, <2>2, <2>4, <3>1, GoesIInv
  <2> QED BY <2>3, <2>4
<1>2. CASE HookServes
  <2>1. call # NoCall /\ Goes("allocator")
    BY <1>2 DEF HookServes, NoCall
  <2> QED BY <2>1, GoesIInv
<1>3. CASE HookFreesDirectly
  <2>1. call # NoCall /\ Goes("driver")
    BY <1>3 DEF HookFreesDirectly, NoCall
  <2> QED BY <2>1, GoesIInv
<1>4. CASE HookPassesOn
  <2>1. call # NoCall /\ call.at = "hook"
    BY <1>4 DEF HookPassesOn, NoCall
  <2>2. CASE g_tramp[call.in] = NoBlock
    <3>1. Goes("nowhere") /\ Unrecorded(call.in)
      BY <1>4, <2>1, <2>2 DEF HookPassesOn, IInv, CallInv
    <3> QED BY <2>1, <3>1, GoesIInv
  <2>3. CASE g_tramp[call.in] # NoBlock
    <3>1. Goes("trampoline")
      BY <1>4, <2>3 DEF HookPassesOn
    <3> QED BY <2>1, <2>3, <3>1, GoesIInv
  <2> QED BY <2>2, <2>3
<1>5. CASE Trampoline
  <2> DEFINE t == trampolines[g_tramp[call.in]]
             at == IF t.bytes = "own" THEN "runtime" ELSE "hook"
  <2>1. /\ call \in CallRecords /\ call # NoCall /\ call.at = "trampoline"
        /\ call.in \in Functions
    BY <1>5 DEF Trampoline, IInv, TypeInv, CallOK, CallRecords, NoCall
  <2>2. g_tramp[call.in] # NoBlock /\ t.of = call.in
    BY <2>1 DEF IInv, CallInv, RecordInv
  <2>3. /\ call' = [at |-> at, fn |-> call.fn, in |-> t.of]
        /\ UNCHANGED <<hookVars, setup, twice>>
    <3>1. call' = [call EXCEPT !.in = t.of, !.at = at]
      BY <1>5 DEF Trampoline
    <3> HIDE DEF t, at
    <3>2. call' = [at |-> at, fn |-> call.fn, in |-> t.of]
      BY <2>1, <3>1, CallExcept
    <3> QED BY <1>5, <3>2 DEF Trampoline
  <2>4. at \in {"runtime", "hook"}
    OBVIOUS
  <2> HIDE DEF t, at
  <2>5. CallOK'
    BY <2>1, <2>2, <2>3, <2>4 DEF CallOK, CallRecords, Ends
  <2>6. CallInv'
    BY <2>1, <2>2, <2>3, <2>4 DEF IInv, CallInv, Unrecorded, hookVars
  <2> QED BY <2>3, <2>5, <2>6, CallStepIInv
<1>6. CASE Return
  <2>1. call' = NoCall /\ UNCHANGED <<hookVars, setup, twice>>
    BY <1>6 DEF Return
  <2>2. CallOK' /\ CallInv'
    BY <2>1 DEF CallOK, CallInv
  <2> QED BY <2>1, <2>2, CallStepIInv
<1> QED BY <1>1, <1>2, <1>3, <1>4, <1>5, <1>6 DEF CallStep

LEMMA NextIInv == IInv /\ [Next]_vars => IInv'
<1> SUFFICES ASSUME IInv, [Next]_vars PROVE IInv'
  OBVIOUS
<1>1. CASE UNCHANGED vars
  <2>1. CallOK' /\ CallInv' /\ UNCHANGED <<hookVars, setup, twice>>
    BY <1>1 DEF vars, hookVars, IInv, TypeInv, CallOK, CallInv, Unrecorded
  <2> QED BY <2>1, CallStepIInv
<1>2. CASE call.at # "nowhere" /\ Next
  BY <1>2, InitializeIInv, InstallHookIInv, RecordTrampolineIInv,
     InstallHookFailsIInv, InstallEndsIInv, RemovalIInv, RemoveHookIInv,
     CallIInv, CallStepsIInv DEF Next
<1>3. CASE call.at = "nowhere" /\ Next
  BY <1>3, CallStepsIInv DEF Next
<1> QED BY <1>1, <1>2, <1>3

LEMMA Invariance == Spec => []IInv
  BY InitIInv, NextIInv, PTL DEF Spec

-----------------------------------------------------------------------------
(* AllocateTrampolineBlock: however often hooks are installed, and         *)
(* installations fail, no two trampolines overlap, and none leaves its     *)
(* page.                                                                   *)
THEOREM TrampolinesStayWhole == Spec => []TrampolinesWhole
<1>1. IInv => TrampolinesWhole
  BY DEF IInv, PagesInv
<1> QED BY <1>1, Invariance, PTL

(* InitializeIntercept leaves all four functions hooked or none, unless    *)
(* hooks were installed over hooks.                                        *)
THEOREM InstallsAllOrNothing == Spec => []AllOrNothing
<1>1. IInv => AllOrNothing
  BY DEF IInv, ProgressInv, AllOrNothing
<1> QED BY <1>1, Invariance, PTL

(* A call through hooks and trampolines, between any two steps of an       *)
(* installation or a removal, reaches the function that it is for; or it   *)
(* goes nowhere, which it does only while this function is patched and     *)
(* g_tramp_* for it is not assigned yet.                                   *)
THEOREM CallsReachTheirFunction == Spec => []CallsReachTheirOwn
<1>1. IInv => CallsReachTheirOwn
  <2>1. call.at \in {"runtime", "nowhere"} => call # NoCall
    BY DEF NoCall
  <2> QED BY <2>1 DEF IInv, CallInv, CallsReachTheirOwn, Unrecorded, Current
<1> QED BY <1>1, Invariance, PTL

(* HookRemove gives every function its own code back, from the trampolines *)
(* of whichever installation it was hooked by, unless hooks were installed *)
(* over hooks.                                                             *)
THEOREM RemovalRestores == Spec => ShutdownRestores
<1>1. IInv /\ IInv' /\ [Next]_vars
        => [setup.op = "remove" /\ setup' = Idle /\ ~twice
              => \A f \in Functions : code'[f] = "own"]_vars
  <2> SUFFICES ASSUME IInv, Next, setup.op = "remove", setup' = Idle, ~twice,
                      NEW f \in Functions
               PROVE  code'[f] = "own"
    BY DEF vars
  <2>1. setup # Idle
    BY DEF Idle
  <2>2. RemoveHook
    BY <2>1 DEF Next, InitializeIntercept, InstallHook, RecordTrampoline,
            InstallHookFails, InstallEnds, InstallRollsBack, ShutdownIntercept,
            Call, CallStep, Enter, HookServes, HookFreesDirectly, HookPassesOn,
            Trampoline, Return, Goes
  <2>3. setup \in [op : {"remove"}, i : 1 .. 4]
    BY <2>1 DEF IInv, TypeInv, SetupOK
  <2>4. setup.i = 4 /\ code' = [code EXCEPT ![Order[4]] = Restored(Order[4])]
    <3>1. [setup EXCEPT !.i = @ + 1].op = "remove"
      BY <2>3
    <3>2. setup.i = 4
      BY <2>2, <3>1, OrderFacts DEF RemoveHook, Idle
    <3> QED BY <2>2, <3>2 DEF RemoveHook, Current
  <2>5. code \in [Functions -> Bytes] /\ Order[4] \in Functions
    BY OrderFacts DEF IInv, TypeInv
  <2>6. Restored(Order[4]) = "own"
    BY <2>3, <2>4, <2>5, RestoredFacts DEF IInv, RecordInv, Unrecorded, Restored, Bytes
  <2>7. \A j \in 1 .. 3 : code[Order[j]] = "own"
    BY <2>3, <2>4 DEF IInv, ProgressInv
  <2>8. PICK j \in 1 .. 4 : Order[j] = f
    BY OrderFacts
  <2> QED BY <2>4, <2>5, <2>6, <2>7, <2>8, OrderFacts
<1> QED BY <1>1, Invariance, PTL DEF Spec, ShutdownRestores

=============================================================================
