--------------------------- MODULE InterceptHook ---------------------------
(***************************************************************************)
(* How the functions of the CUDA runtime are redirected:                   *)
(* src/interpose/intercept_hook.{h,cc}, and InitializeIntercept and        *)
(* ShutdownIntercept of intercept_real.cc.                                 *)
(*                                                                         *)
(* One thread calls InitializeIntercept and ShutdownIntercept, and another *)
(* one, of the application, calls the functions.  Of a function's code the *)
(* first kJmpPatchSize bytes matter: they are the function's "own", or a   *)
(* jump to its "hook".  A trampoline is a copy of these bytes, with a jump *)
(* to the rest of the function behind them.                                *)
(*                                                                         *)
(* HookInstall and HookRemove write the bytes in one step: no thread is to *)
(* execute them meanwhile, and nothing in the code sees to that.           *)
(***************************************************************************)
EXTENDS Integers, Sequences, Maps

CONSTANTS
  kPageSize,
  kTrampolineSize,
  MaxPages,       \* pages VirtualAlloc has
  NoBlock         \* nullptr

ASSUME SizesAssumption ==
  /\ kTrampolineSize \in Nat \ {0}
  /\ kPageSize \in Nat /\ kPageSize >= kTrampolineSize
ASSUME MaxPagesAssumption == MaxPages \in Nat
ASSUME NoBlockAssumption == NoBlock \notin Nat \X Nat   \* no block is at null

VARIABLES
  code,           \* what each function begins with: "own" or "hook"
  pages,          \* used of each TrampolinePage, the oldest first
  trampolines,    \* from blocks to [of, bytes]: the function a block copies
                  \* and goes on with, and what it copied of it
  g_tramp,        \* g_raw_tramp_* and g_tramp_*, which are equal
  g_cuda_dll,     \* the runtime has been loaded
  g_vmm_active,
  setup,          \* the InitializeIntercept or ShutdownIntercept under way
  call,           \* the application's call
  twice           \* has InitializeIntercept ever met hooks in place?

hookVars == <<code, pages, trampolines, g_tramp, g_cuda_dll, g_vmm_active>>
vars == <<hookVars, setup, call, twice>>

(* In the order in which they are hooked and restored.                     *)
Order == <<"cudaMalloc", "cudaFree", "cudaMemcpy", "cudaLaunchKernel">>
Functions == {Order[i] : i \in DOMAIN Order}

Idle == [op |-> "idle"]
NoCall == [at |-> "none"]

Init ==
  /\ code = [f \in Functions |-> "own"]
  /\ pages = << >>
  /\ trampolines = << >>
  /\ g_tramp = [f \in Functions |-> NoBlock]
  /\ g_cuda_dll = FALSE
  /\ g_vmm_active = FALSE
  /\ setup = Idle
  /\ call = NoCall
  /\ twice = FALSE

-----------------------------------------------------------------------------
(* Installation.                                                           *)

(* used of the page that has room, if any has.                             *)
Used == IF pages = << >> THEN kPageSize ELSE pages[Len(pages)]

(* Mutant: the end of the block is not looked at.                          *)
PageFullLate == Used >= kPageSize

PageFull == Used + kTrampolineSize > kPageSize

(* Mutant: "used" stays where it was.                                      *)
TakenNothing == IF PageFull THEN Append(pages, 0) ELSE pages

(* AllocateTrampolineBlock: the pages with one block more.                 *)
Taken ==
  IF PageFull THEN Append(pages, kTrampolineSize)
              ELSE [pages EXCEPT ![Len(pages)] = @ + kTrampolineSize]

(* The block it returns: its page and where it begins there.               *)
NewBlock ==
  IF PageFull THEN <<Len(pages) + 1, 0>> ELSE <<Len(pages), Used>>

(* The runtime is loaded, and the four functions are found in it or not.   *)
InitializeIntercept ==
  /\ setup = Idle
  /\ g_cuda_dll' = TRUE
  /\ \/ setup' = Idle /\ UNCHANGED twice
     \/ /\ setup' = [op |-> "install", i |-> 1, ok |-> TRUE]
        /\ twice' = (twice \/ \E f \in Functions : code[f] = "hook")
  /\ UNCHANGED <<code, pages, trampolines, g_tramp, g_vmm_active, call>>

Current == Order[setup.i]

(* Mutant: the function is patched before it is copied.                    *)
CopyPatched(f) == [of |-> f, bytes |-> "hook"]

(* "Copy kCopyBytes of original code."                                     *)
Copy(f) == [of |-> f, bytes |-> code[f]]

(* HookInstall.                                                            *)
InstallHook ==
  /\ setup.op = "install" /\ setup.i \in DOMAIN Order
  /\ PageFull => Len(pages) < MaxPages
  /\ pages' = Taken
  /\ trampolines' = Put(trampolines, NewBlock, Copy(Current))
  /\ code' = [code EXCEPT ![Current] = "hook"]
  /\ setup' = [op |-> "record", i |-> setup.i, ok |-> setup.ok, block |-> NewBlock]
  /\ UNCHANGED <<g_tramp, g_cuda_dll, g_vmm_active, call, twice>>

(* "*raw_tramp = tramp; *typed_tramp = tramp;": the function is patched by *)
(* then.                                                                   *)
RecordTrampoline ==
  /\ setup.op = "record"
  /\ g_tramp' = [g_tramp EXCEPT ![Current] = setup.block]
  /\ setup' = [op |-> "install", i |-> setup.i + 1, ok |-> setup.ok]
  /\ UNCHANGED <<code, pages, trampolines, g_cuda_dll, g_vmm_active, call, twice>>

(* VirtualAlloc fails; the functions after this one are hooked all the     *)
(* same.                                                                   *)
InstallHookFails ==
  /\ setup.op = "install" /\ setup.i \in DOMAIN Order
  /\ PageFull
  /\ setup' = [setup EXCEPT !.i = @ + 1, !.ok = FALSE]
  /\ UNCHANGED <<hookVars, call, twice>>

(* All are hooked: the allocator is initialised, or throws.                *)
InstallEnds ==
  /\ setup.op = "install" /\ setup.i \notin DOMAIN Order /\ setup.ok
  /\ setup' = Idle
  /\ g_vmm_active' \in {TRUE, g_vmm_active}
  /\ UNCHANGED <<code, pages, trampolines, g_tramp, g_cuda_dll, call, twice>>

Removal == [op |-> "remove", i |-> 1]

(* Mutant: the hooks that could be installed stay.                         *)
InstallGivesUp ==
  /\ setup.op = "install" /\ setup.i \notin DOMAIN Order /\ ~setup.ok
  /\ setup' = Idle
  /\ UNCHANGED <<hookVars, call, twice>>

(* "if (!ok)": what has been hooked is restored.                           *)
InstallRollsBack ==
  /\ setup.op = "install" /\ setup.i \notin DOMAIN Order /\ ~setup.ok
  /\ setup' = Removal
  /\ UNCHANGED <<hookVars, call, twice>>

-----------------------------------------------------------------------------
(* Removal.                                                                *)

ShutdownIntercept ==
  /\ setup = Idle
  /\ g_cuda_dll
  /\ setup' = Removal
  /\ UNCHANGED <<hookVars, call, twice>>

(* Mutant: the bytes are copied the other way.                             *)
RestoredNever(f) == code[f]

(* HookRemove, if there is a trampoline: the bytes come back from there.   *)
Restored(f) ==
  IF g_tramp[f] = NoBlock THEN code[f] ELSE trampolines[g_tramp[f]].bytes

RemoveHook ==
  /\ setup.op = "remove"
  /\ code' = [code EXCEPT ![Current] = Restored(Current)]
  /\ setup' = IF setup.i = Len(Order) THEN Idle ELSE [setup EXCEPT !.i = @ + 1]
  /\ UNCHANGED <<pages, trampolines, g_tramp, g_cuda_dll, g_vmm_active, call, twice>>

-----------------------------------------------------------------------------
(* A call of the application: fn is what it called, in the function whose  *)
(* code or hook it executes, at where.                                     *)

Call(f) ==
  /\ call = NoCall
  /\ call' = [at |-> "entry", fn |-> f, in |-> f]
  /\ UNCHANGED <<hookVars, setup, twice>>

Goes(at) == call' = [call EXCEPT !.at = at] /\ UNCHANGED <<hookVars, setup, twice>>

Enter ==
  /\ call.at = "entry"
  /\ Goes(IF code[call.in] = "own" THEN "runtime" ELSE "hook")

(* Hook_Malloc, Hook_Free and uploads end in the allocator.                *)
HookServes ==
  /\ call.at = "hook"
  /\ g_vmm_active
  /\ call.in # "cudaLaunchKernel"
  /\ Goes("allocator")

(* "Cannot safely trampoline cudaFree": cuMemFree, for a null pointer even *)
(* while the allocator is active.                                          *)
HookFreesDirectly ==
  /\ call.at = "hook"
  /\ call.in = "cudaFree"
  /\ Goes("driver")

(* Other copies than uploads, launches, and all but cudaFree while the     *)
(* allocator is not active, are passed on.                                 *)
HookPassesOn ==
  /\ call.at = "hook"
  /\ \/ call.in \in {"cudaMemcpy", "cudaLaunchKernel"}
     \/ ~g_vmm_active /\ call.in = "cudaMalloc"
  /\ Goes(IF g_tramp[call.in] = NoBlock THEN "nowhere" ELSE "trampoline")

(* The bytes of the trampoline are executed.                               *)
Trampoline ==
  /\ call.at = "trampoline"
  /\ LET t == trampolines[g_tramp[call.in]]
     IN call' = [call EXCEPT !.in = t.of,
                             !.at = IF t.bytes = "own" THEN "runtime" ELSE "hook"]
  /\ UNCHANGED <<hookVars, setup, twice>>

Ends == {"runtime", "allocator", "driver"}

Return ==
  /\ call.at \in Ends
  /\ call' = NoCall
  /\ UNCHANGED <<hookVars, setup, twice>>

CallStep ==
  Enter \/ HookServes \/ HookFreesDirectly \/ HookPassesOn \/ Trampoline \/ Return

-----------------------------------------------------------------------------
(* A call that has gone nowhere ends the program.                          *)
Next ==
  \/ /\ call.at # "nowhere"
     /\ \/ InitializeIntercept \/ InstallHook \/ RecordTrampoline
        \/ InstallHookFails \/ InstallEnds \/ InstallRollsBack
        \/ ShutdownIntercept \/ RemoveHook
        \/ \E f \in Functions : Call(f)
  \/ CallStep

Spec == Init /\ [][Next]_vars

(* A call runs on the caller's thread and waits for nothing.               *)
FairSpec == Spec /\ WF_vars(CallStep)

-----------------------------------------------------------------------------
(* Properties.                                                             *)

(* InitializeIntercept hooks all four functions or, when one cannot be     *)
(* hooked, none: between calls of it and of ShutdownIntercept no function  *)
(* is left on its own, however many calls have failed half way before,     *)
(* unless hooks were installed over hooks.                                 *)
AllOrNothing ==
  setup = Idle /\ ~twice => \A f, g \in Functions : code[f] = code[g]

(* "Remove hooks": ShutdownIntercept, and an InitializeIntercept that      *)
(* fails, leave every function with its own code, although the trampolines *)
(* it is restored from may be those of an earlier installation.            *)
ShutdownRestores ==
  [][setup.op = "remove" /\ setup' = Idle /\ ~twice
       => \A f \in Functions : code'[f] = "own"]_vars

(* A call that reaches the runtime reaches the function that was called,   *)
(* through whatever hooks and trampolines it went.  A hook that passes a   *)
(* call on finds no trampoline only between HookInstall's patching of its  *)
(* function and InstallHook's "*typed_tramp = tramp" for it: not while     *)
(* other functions are hooked, nor after a removal, nor in a later         *)
(* installation that fails.                                                *)
CallsReachTheirOwn ==
  /\ call.at = "runtime" => call.in = call.fn
  /\ call.at = "nowhere" => setup.op = "record" /\ call.in = Current

(* Every trampoline lies in its page, and no two overlap                   *)
(* (AllocateTrampolineBlock), in pages that have room for no whole number  *)
(* of them.                                                                *)
TrampolinesWhole ==
  \A b \in DOMAIN trampolines :
    /\ b[2] + kTrampolineSize <= kPageSize
    /\ \A c \in DOMAIN trampolines :
         b # c /\ b[1] = c[1] => \/ b[2] + kTrampolineSize <= c[2]
                                \/ c[2] + kTrampolineSize <= b[2]

(* Every call ends, with the hooks in place, half in place or removed, or  *)
(* meeting their installation: no hook leads to itself through its         *)
(* trampoline, unless hooks were installed over hooks.                     *)
CallsEnd == (call # NoCall) ~> (call = NoCall \/ call.at = "nowhere" \/ twice)

=============================================================================
