----------------------------- MODULE ClientHook -----------------------------
(***************************************************************************)
(* The DLL that redirects a game or game server to the emulator.  The      *)
(* loader runs DllMain before the program: it keeps the five bytes at the  *)
(* program's entry point and puts a jump to Main_DoInit there.  The jump   *)
(* taken, Main_DoInit looks which program it is in, starts the thread of   *)
(* InitHooks, puts the bytes back and jumps to them.  From then on the     *)
(* program loads its modules, decrypts its code and looks up the master    *)
(* servers while the thread searches that code and changes it; nothing     *)
(* orders the two.                                                         *)
(*   Code is a sequence of Bytes, encrypted at first; memory pages, the    *)
(* deletion of old files and Detours' own patching are left out.           *)
(***************************************************************************)
EXTENDS Integers, Sequences

CONSTANTS
  Bytes,        \* values of a byte, as far as they matter
  Pattern,      \* what is searched for in the code
  CodeSize      \* bytes of code

ASSUME CodeAssumption ==
  CodeSize \in Nat /\ Pattern \in Seq(Bytes) /\ Pattern # <<>>

VARIABLES
  program,      \* the program the DLL is loaded into; never changes
  code,         \* its code, decrypted; never changes
  main,         \* where the program's first thread is
  ep,           \* the bytes at the entry point
  originalCode, \* the bytes kept
  thread,       \* where InitHooks is
  loaded,       \* the modules InitHooks waits for that are loaded
  decrypted,    \* the code can be read as it is
  place,        \* where in the code the check of certificates was found, or 0
  patched,      \* bytes of the check that are changed
  hooked,       \* the functions that are detoured
  resolved      \* where the last look-up of a master server led to

hooks == <<place, patched, hooked>>
game == <<loaded, decrypted, resolved>>
vars == <<program, code, main, ep, originalCode, thread, hooks, game>>

Programs == {"client", "server R32", "server R30", "other"}
Modules == {"binkw32", "D3DCompiler_42"}

Init ==
  /\ program \in Programs
  /\ code \in [1..CodeSize -> Bytes]
  /\ main = "attach" /\ ep = "program" /\ originalCode = "none"
  /\ thread = "none"
  /\ loaded = {} /\ decrypted = FALSE /\ resolved = "nowhere"
  /\ place = 0 /\ patched = 0 /\ hooked = {}

(***************************************************************************)
(* FindPattern: one pass over the text.  A scan is the bytes of the        *)
(* pattern matched so far and where all of them were.  A byte that ends a  *)
(* match is not tried as the start of another.                             *)
(***************************************************************************)
Nowhere == 0

\* Slips: a match goes on after a byte that differs, or the last byte of the
\* text is left out.
MatchOn(s, k, byte) ==
  IF s.at # Nowhere \/ byte # Pattern[s.i + 1] THEN s
  ELSE IF s.i + 1 = Len(Pattern) THEN [s EXCEPT !.at = k - s.i]
  ELSE [s EXCEPT !.i = @ + 1]

MatchShort(s, k, byte) ==
  IF s.at # Nowhere \/ k = CodeSize THEN s
  ELSE IF byte # Pattern[s.i + 1] THEN [s EXCEPT !.i = 0]
  ELSE IF s.i + 1 = Len(Pattern) THEN [s EXCEPT !.at = k - s.i]
  ELSE [s EXCEPT !.i = @ + 1]

\* The scan goes on with byte k.
Match(s, k, byte) ==
  IF s.at # Nowhere THEN s
  ELSE IF byte # Pattern[s.i + 1] THEN [s EXCEPT !.i = 0]
  ELSE IF s.i + 1 = Len(Pattern) THEN [s EXCEPT !.at = k - s.i]
  ELSE [s EXCEPT !.i = @ + 1]

Scan(text) ==
  LET scan[k \in 0..Len(text)] ==
        IF k = 0 THEN [i |-> 0, at |-> Nowhere] ELSE Match(scan[k - 1], k, text[k])
  IN scan

FindPattern(text) == Scan(text)[Len(text)].at

(***************************************************************************)
(* The first thread: the loader, then the program.                         *)
(***************************************************************************)
\* Slip: the bytes are kept after the jump has been written.
Main_SetSafeInitLate ==
  /\ main = "attach"
  /\ originalCode' = "jump" /\ ep' = "jump"
  /\ main' = "wrap"
  /\ UNCHANGED <<program, code, thread, hooks, game>>

Main_SetSafeInit ==
  /\ main = "attach"
  /\ originalCode' = ep /\ ep' = "jump"
  /\ main' = "wrap"
  /\ UNCHANGED <<program, code, thread, hooks, game>>

\* The system's dinput8 is loaded, or the loader gives the process up.
WrapperInit ==
  /\ main = "wrap"
  /\ main' \in {"entry", "ended"}
  /\ UNCHANGED <<program, code, ep, originalCode, thread, hooks, game>>

EntryPoint ==
  /\ main = "entry"
  /\ main' = IF ep = "jump" THEN "doInit" ELSE "running"
  /\ UNCHANGED <<program, code, ep, originalCode, thread, hooks, game>>

\* CheckVersion looks for the server R32 twice, so an R30 is unknown to it; an
\* unknown program is told so.  CreateThread's result is ignored.
CheckVersion ==
  /\ main = "doInit"
  /\ \/ program \in {"client", "server R32"} /\ main' = "restore" /\ thread' \in {"modules", "none"}
     \/ program \notin {"client", "server R32"} /\ main' = "box" /\ UNCHANGED thread
  /\ UNCHANGED <<program, code, ep, originalCode, hooks, game>>

\* The player closes the message box.
Dismiss ==
  /\ main = "box"
  /\ main' = "restore"
  /\ UNCHANGED <<program, code, ep, originalCode, thread, hooks, game>>

Restore ==
  /\ main = "restore"
  /\ ep' = originalCode
  /\ main' = "entry"
  /\ UNCHANGED <<program, code, originalCode, thread, hooks, game>>

Load(m) ==
  /\ main = "running"
  /\ loaded' = loaded \cup {m}
  /\ UNCHANGED <<program, code, main, ep, originalCode, thread, hooks, decrypted, resolved>>

Decrypt ==
  /\ main = "running"
  /\ decrypted' = TRUE
  /\ UNCHANGED <<program, code, main, ep, originalCode, thread, hooks, loaded, resolved>>

\* gethostbyname of a master server, by the program or its detour.
Resolve ==
  /\ main = "running"
  /\ resolved' = IF "gethostbyname" \in hooked THEN "emulator" ELSE "original"
  /\ UNCHANGED <<program, code, main, ep, originalCode, thread, hooks, loaded, decrypted>>

(***************************************************************************)
(* InitHooks.                                                              *)
(***************************************************************************)
\* The modules are there, and the version is written over the program's.
WaitModules ==
  /\ thread = "modules" /\ loaded = Modules
  /\ thread' = "search"
  /\ UNCHANGED <<program, code, main, ep, originalCode, hooks, game>>

\* Slip: the search is not repeated.
SearchOnce ==
  /\ thread = "search"
  /\ IF decrypted /\ FindPattern(code) # Nowhere
       THEN place' = FindPattern(code) /\ patched' = 1 /\ thread' = "patch"
       ELSE thread' = "names" /\ UNCHANGED <<place, patched>>
  /\ UNCHANGED <<program, code, main, ep, originalCode, hooked, game>>

\* The search is repeated until it finds the check, of which then one byte is
\* changed and then the other.
Search ==
  /\ thread = "search"
  /\ decrypted /\ FindPattern(code) # Nowhere
  /\ place' = FindPattern(code) /\ patched' = 1
  /\ thread' = "patch"
  /\ UNCHANGED <<program, code, main, ep, originalCode, hooked, game>>

Patch ==
  /\ thread = "patch"
  /\ patched' = 2
  /\ thread' = "names"
  /\ UNCHANGED <<program, code, main, ep, originalCode, place, hooked, game>>

HookNames ==
  /\ thread = "names"
  /\ hooked' = hooked \cup {"gethostbyname"}
  /\ thread' = IF program = "client" THEN "done" ELSE "packets"
  /\ UNCHANGED <<program, code, main, ep, originalCode, place, patched, game>>

\* Of a server SetPacketValue is detoured, too, if it is found.
HookPackets ==
  /\ thread = "packets"
  /\ hooked' \in {hooked, hooked \cup {"SetPacketValue"}}
  /\ thread' = "done"
  /\ UNCHANGED <<program, code, main, ep, originalCode, place, patched, game>>

Loader == Main_SetSafeInit \/ WrapperInit \/ EntryPoint \/ CheckVersion \/ Restore
InitHooks == WaitModules \/ Search \/ Patch \/ HookNames \/ HookPackets
Program == (\E m \in Modules : Load(m)) \/ Decrypt \/ Resolve

Next == Loader \/ Dismiss \/ InitHooks \/ Program

(***************************************************************************)
(* Both threads run, and a program that runs loads its modules and         *)
(* decrypts its code; the player need not close a message box.             *)
(***************************************************************************)
Spec ==
  /\ Init /\ [][Next]_vars
  /\ WF_vars(Loader) /\ WF_vars(InitHooks)
  /\ \A m \in Modules : WF_vars(Load(m))
  /\ WF_vars(Decrypt)

-----------------------------------------------------------------------------
At(k) == k \in 1..(CodeSize - Len(Pattern) + 1) /\ SubSeq(code, k, k + Len(Pattern) - 1) = Pattern

\* What is changed in the program is the check that was looked for, at the first
\* place that has it, or at a later one where an unfinished match hides the first.
PatchedInPlace ==
  place # Nowhere =>
    /\ At(place)
    /\ \A k \in 1..(place - 1) :
         At(k) => \E l \in 1..(Len(Pattern) - 1) : l < k /\ SubSeq(code, k - l, k - 1) = SubSeq(Pattern, 1, l)

\* A program that is led to the emulator no longer checks its certificate: no
\* look-up, however early, reaches the emulator with the check half changed.
RedirectedPatched == resolved = "emulator" => patched = 2

\* The program's own code runs in the end, from its first byte, unless dinput8 is
\* missing or the player leaves the message box open.
ProgramRuns == main = "attach" ~> (main = "running" /\ ep = "program") \/ main = "ended" \/ main = "box"

\* In a known program the look-ups are redirected in the end, wherever in the code
\* the check is, if nothing that begins like it comes immediately before.
RedirectedInTheEnd ==
  thread = "modules" /\ (\E k \in 1..CodeSize :
      At(k) /\ \A l \in 1..(Len(Pattern) - 1) : l < k => SubSeq(code, k - l, k - 1) # SubSeq(Pattern, 1, l))
    ~> "gethostbyname" \in hooked
=============================================================================
