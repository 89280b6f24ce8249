---------------------------- MODULE BuildAndRun -----------------------------
(***************************************************************************)
(* From a SYCL source to a kernel on a device: nsc++ outlines the source   *)
(* and compiles it twice, into a.out and into the kernel library of the    *)
(* device; a process that runs a.out makes queues, each of which selects a *)
(* device, opens the library that it finds by name on the disk, and lends  *)
(* its program_data to command groups and buffers.  Sources are edited,    *)
(* built and run again in one directory, while earlier processes may still *)
(* be at work.                                                             *)
(***************************************************************************)
EXTENDS KernelOutliner, FiniteSets

CONSTANTS Sources,   \* versions of the source file
          Code,      \* of each: kernels (a sequence), aliases (has it a type alias
                     \* outside of functions) and text ("fine", "syntax error",
                     \* "unknown extension")
          Revisions, \* the pairs of a version and one that it may be edited into
          Targets,   \* the values given to --device
          Queues, MaxBuilds, None

ASSUME TargetsAre == Targets \subseteq {"cpu", "ve"}
ASSUME BuildsAre  == MaxBuilds \in Nat
ASSUME NoneIs     == None \notin Sources
ASSUME RevisionsAre == Revisions \subseteq Sources \X Sources
ASSUME KernelsAre ==
  \A s \in Sources : \A i \in DOMAIN Code[s].kernels : IsKernel(Code[s].kernels[i])

VARIABLES
  source,      \* the source file as it is now
  host_code, dev_code, exe, lib,  \* files; lib by device
  nsc,         \* the build: where it is, its device, its exit status
  builds,
  up,          \* the image of the running process, and if all was built for it
  loaded,      \* the kernel library that dlopen has given this process
  q,           \* its queues, with what each program_data holds
  outcome      \* what the kernel that ran last has computed

kernels(s) == Code[s].kernels
all(Test(_)) == {s \in Sources : \A i \in DOMAIN kernels(s) : Test(kernels(s)[i])}

\* The device code has a class and a function of each kernel's name.
NamesApart(s) ==
  \A i, j \in DOMAIN kernels(s) : kernels(s)[i].name = kernels(s)[j].name => i = j

Outlined     == all(LAMBDA k : ~Aborts(k))
HostCompiles == all(FitsHost)
DevCompiles  == {s \in all(FitsDevice) : Code[s].text = "fine" /\ NamesApart(s)}

disk == <<host_code, dev_code, exe, lib>>
toolchain == <<source, disk, nsc, builds>>
process == <<up, loaded, q, outcome>>
vars == <<toolchain, process>>

NoQueue == [at |-> "none", how |-> "default", device |-> "host", lib |-> None,
            proc |-> FALSE, ctx |-> "null", running |-> FALSE, holders |-> {}]

Init ==
  /\ source \in Sources
  /\ host_code = None /\ dev_code = None /\ exe = None
  /\ lib = [d \in {"cpu", "ve"} |-> None]
  /\ nsc = [at |-> "idle", device |-> "ve", exit |-> "none"]
  /\ builds = 0
  /\ up = None /\ loaded = None /\ outcome = None
  /\ q = [i \in Queues |-> NoQueue]

-----------------------------------------------------------------------------
(* nsc++                                                                   *)

Edit ==
  /\ nsc.at = "idle" /\ builds < MaxBuilds
  /\ \E s \in Sources : <<source, s>> \in Revisions /\ source' = s
  /\ UNCHANGED <<disk, nsc, builds, process>>

Exits(status) == nsc' = [nsc EXCEPT !.at = "idle", !.exit = status]

Goes(from, to) == nsc.at = from /\ nsc' = [nsc EXCEPT !.at = to]

\* The options and file names; only .cpp, .cc and .C are accepted.
Nsc(d) ==
  /\ nsc.at = "idle" /\ builds < MaxBuilds
  /\ builds' = builds + 1
  /\ nsc' = IF Code[source].text = "unknown extension"
            THEN [at |-> "idle", device |-> d, exit |-> "failed"]
            ELSE [at |-> "kout", device |-> d, exit |-> "none"]
  /\ UNCHANGED <<source, disk, process>>

\* kout writes the host code always, the device code if there is something in
\* it: the kernels and the type aliases of the source.
HasDevCode(s) == kernels(s) # <<>> \/ Code[s].aliases

Kout ==
  /\ nsc.at = "kout"
  /\ \/ /\ source \notin Outlined
        /\ Exits("failed")
        /\ UNCHANGED disk
     \/ /\ source \in Outlined
        /\ host_code' = source
        /\ dev_code' = IF HasDevCode(source) THEN source ELSE dev_code
        /\ IF Code[source].text = "syntax error" THEN Exits("failed") ELSE Goes("kout", "format")
        /\ UNCHANGED <<exe, lib>>
  /\ UNCHANGED <<source, builds, process>>

\* clang-format, if there is one, needs both files.
Format ==
  /\ nsc.at = "format"
  /\ \/ dev_code = None /\ Exits("failed")
     \/ Goes("format", "host")
  /\ UNCHANGED <<source, disk, builds, process>>

HostCompileGoesOn ==
  /\ nsc.at = "host" /\ Goes("host", "device")
  /\ exe' = IF host_code \in HostCompiles THEN [src |-> host_code, device |-> nsc.device] ELSE exe
  /\ UNCHANGED <<source, host_code, dev_code, lib, builds, process>>

HostCompile ==
  /\ nsc.at = "host"
  /\ \/ /\ host_code \in HostCompiles /\ Goes("host", "device")
        /\ exe' = [src |-> host_code, device |-> nsc.device]
     \/ /\ host_code \notin HostCompiles /\ Exits("failed")
        /\ UNCHANGED exe
  /\ UNCHANGED <<source, host_code, dev_code, lib, builds, process>>

DeviceCompile ==
  /\ nsc.at = "device"
  /\ \/ /\ dev_code \in DevCompiles /\ Exits("ok")
        /\ lib' = [lib EXCEPT ![nsc.device] = dev_code]
     \/ /\ dev_code \notin DevCompiles /\ Exits("failed")
        /\ UNCHANGED lib
  /\ UNCHANGED <<source, host_code, dev_code, exe, builds, process>>

\* Without nsc++, for the host device.
Gxx ==
  /\ nsc.at = "idle" /\ builds < MaxBuilds /\ Code[source].text = "fine"
  /\ builds' = builds + 1
  /\ exe' = [src |-> source, device |-> "host"]
  /\ nsc' = [nsc EXCEPT !.exit = "none"]
  /\ UNCHANGED <<source, host_code, dev_code, lib, process>>

-----------------------------------------------------------------------------
(* A process and its queues                                                *)

Start ==
  /\ up = None /\ exe # None
  /\ up' = [src |-> exe.src, device |-> exe.device, builds |-> builds,
            built |-> nsc.at = "idle" /\ nsc.exit = "ok"]
  /\ outcome' = None
  /\ UNCHANGED <<toolchain, loaded, q>>

\* platform::register_all_devices, for each way to build.
devices == CASE up.device = "host" -> <<"host", "host">>
             [] up.device = "cpu"  -> <<"host", "cpu">>
             [] up.device = "ve"   -> <<"host", "cpu", "ve">>

get_default_device_second == devices[2]

get_default_device == CASE up.device = "host" -> devices[1]
                        [] up.device = "cpu"  -> devices[2]
                        [] up.device = "ve"   -> devices[3]

\* cpu_selector is the default_selector and the host_selector, too.
select_device(how) ==
  CASE how = "default"      -> get_default_device
    [] how = "cpu_selector" -> IF Contains(devices, "cpu") THEN "cpu" ELSE "nothing"
    [] how = "ve_selector"  -> IF Contains(devices, "ve") THEN "ve" ELSE "nothing"

Put(i, r) == q' = [q EXCEPT ![i] = r]

Threw(i) == [q[i] EXCEPT !.at = "threw"]
Ready(r) == [r EXCEPT !.at = "ready", !.holders = {"program"}]

\* queue::queue up to the open() of a program_data; nothing to open on a host.
NewQueue(i, how) ==
  /\ up # None /\ q[i].at \in {"none", "threw", "gone"} /\ q[i].holders = {}
  /\ how = "ve_selector" => up.device = "ve"
  /\ LET d == select_device(how)
         r == [NoQueue EXCEPT !.how = how, !.device = d, !.at = "open"]
     IN  CASE d = "nothing" -> Put(i, [r EXCEPT !.at = "threw"])
           [] d = "host"    -> Put(i, Ready(r))
           [] OTHER         -> Put(i, r)
  /\ UNCHANGED <<toolchain, up, loaded, outcome>>

OpenCpuUnchecked(i) ==
  /\ q[i].at = "open" /\ q[i].device = "cpu"
  /\ LET found == IF loaded # None THEN loaded ELSE lib["cpu"]
     IN  /\ loaded' = found
         /\ Put(i, Ready([q[i] EXCEPT !.lib = found]))
  /\ UNCHANGED <<toolchain, up, outcome>>

\* dlopen gives a process the same library again, whatever is on the disk.
OpenCpu(i) ==
  /\ q[i].at = "open" /\ q[i].device = "cpu"
  /\ LET found == IF loaded # None THEN loaded ELSE lib["cpu"]
     IN  /\ loaded' = found
         /\ Put(i, IF found = None THEN Threw(i) ELSE Ready([q[i] EXCEPT !.lib = found]))
  /\ UNCHANGED <<toolchain, up, outcome>>

\* veo_util::open, call by call.  A library that cannot be loaded leaves its
\* process behind, a context that cannot be opened goes unnoticed.
ProcCreate(i) ==
  /\ q[i].at = "open" /\ q[i].device = "ve"
  /\ \/ Put(i, Threw(i))
     \/ Put(i, [q[i] EXCEPT !.at = "load", !.proc = TRUE])
  /\ UNCHANGED <<toolchain, up, loaded, outcome>>

LoadLibrary(i) ==
  /\ q[i].at = "load"
  /\ Put(i, IF lib["ve"] = None THEN Threw(i)
            ELSE [q[i] EXCEPT !.at = "context", !.lib = lib["ve"]])
  /\ UNCHANGED <<toolchain, up, loaded, outcome>>

ContextOpen(i) ==
  /\ q[i].at = "context"
  /\ \E c \in {"open", "failed"} : Put(i, Ready([q[i] EXCEPT !.ctx = c]))
  /\ UNCHANGED <<toolchain, up, loaded, outcome>>

-----------------------------------------------------------------------------
(* Who holds a program_data: the queue's program, the closure of a command *)
(* group, and the map of every buffer that was used through it             *)

Submit(i) ==
  /\ q[i].at = "ready" /\ "group" \notin q[i].holders
  /\ Put(i, [q[i] EXCEPT !.holders = @ \cup {"group"}, !.running = TRUE])
  /\ UNCHANGED <<toolchain, up, loaded, outcome>>

UseBuffer(i) ==
  /\ q[i].running /\ "map" \notin q[i].holders
  /\ Put(i, [q[i] EXCEPT !.holders = @ \cup {"map"}])
  /\ UNCHANGED <<toolchain, up, loaded, outcome>>

\* The process terminates; what it had on the VE goes with it.
Dies ==
  /\ up' = None /\ loaded' = None
  /\ q' = [i \in Queues |-> NoQueue]

\* The kernel of that name in the library that the queue has opened, with the
\* object that the host code has filled for its own.
Found(l, k) == {j \in DOMAIN kernels(l) : kernels(l)[j].name = k.name}

Ran(v)     == [how |-> "ran", result |-> v]
Failed(h)  == [how |-> h, result |-> <<>>]

Computes(i, k) ==
  CASE q[i].device = "host" -> Ran(HostResult(k))
    [] q[i].device # "host" /\ Found(q[i].lib, k) = {} -> Failed("throws")
    [] q[i].ctx = "failed" -> Failed("no context")
    [] OTHER -> LET l == kernels(q[i].lib)[CHOOSE j \in Found(q[i].lib, k) : TRUE]
                IN  IF members(l) = members(k) THEN Ran(DeviceResult(l, initialisers(k)))
                    ELSE Failed("another class")

Launch(i) ==
  /\ q[i].running
  /\ \E j \in DOMAIN kernels(up.src) :
       LET k == kernels(up.src)[j]
           v == Computes(i, k)
       IN  /\ outcome' = [how |-> q[i].how, ctx |-> q[i].ctx, image |-> up, kernel |-> j,
                          value |-> v]
           /\ IF v = Failed("throws") THEN Dies ELSE UNCHANGED <<up, loaded, q>>
  /\ UNCHANGED toolchain

\* task_counter::decr; the closure is destroyed later.
GroupDone(i) ==
  /\ q[i].running
  /\ Put(i, [q[i] EXCEPT !.running = FALSE])
  /\ outcome' = None
  /\ UNCHANGED <<toolchain, up, loaded>>

ReleaseEager(i, h, at) ==
  LET r == [q[i] EXCEPT !.holders = @ \ {h}, !.at = at]
  IN  IF r.holders \ {"map"} # {} \/ r.ctx # "open"
      THEN Put(i, r) /\ UNCHANGED <<up, loaded>>
      ELSE \/ Put(i, [r EXCEPT !.proc = FALSE, !.ctx = "closed"]) /\ UNCHANGED <<up, loaded>>
           \/ Dies

\* One holder less.  The last one closes the context and destroys the process,
\* if a context was opened; a call that fails there throws from a destructor.
Release(i, h, at) ==
  LET r == [q[i] EXCEPT !.holders = @ \ {h}, !.at = at]
  IN  IF r.holders # {} \/ r.ctx # "open"
      THEN Put(i, r) /\ UNCHANGED <<up, loaded>>
      ELSE \/ Put(i, [r EXCEPT !.proc = FALSE, !.ctx = "closed"]) /\ UNCHANGED <<up, loaded>>
           \/ Dies

DropClosure(i) ==
  /\ "group" \in q[i].holders /\ ~q[i].running
  /\ Release(i, "group", q[i].at)
  /\ UNCHANGED <<toolchain, outcome>>

\* ~queue waits for its command groups, then drops its program.
DropQueue(i) ==
  /\ "program" \in q[i].holders /\ ~q[i].running
  /\ Release(i, "program", "gone")
  /\ UNCHANGED <<toolchain, outcome>>

\* ~BufferContainer copies back through the program_data, then lets it go.
DropBuffer(i) ==
  /\ "map" \in q[i].holders /\ ~q[i].running
  /\ Release(i, "map", q[i].at)
  /\ UNCHANGED <<toolchain, outcome>>

Exit ==
  /\ up # None
  /\ \A i \in Queues : q[i].at \in {"none", "threw", "gone"} /\ q[i].holders = {}
  /\ Dies
  /\ UNCHANGED <<toolchain, outcome>>

Next ==
  \/ Edit \/ \E d \in Targets : Nsc(d)
  \/ Kout \/ Format \/ HostCompile \/ DeviceCompile \/ Gxx
  \/ Start \/ Exit
  \/ \E i \in Queues :
       \/ \E how \in {"default", "cpu_selector", "ve_selector"} : NewQueue(i, how)
       \/ OpenCpu(i) \/ ProcCreate(i) \/ LoadLibrary(i) \/ ContextOpen(i)
       \/ Submit(i) \/ UseBuffer(i) \/ Launch(i) \/ GroupDone(i)
       \/ DropClosure(i) \/ DropQueue(i) \/ DropBuffer(i)

Spec == Init /\ [][Next]_vars

-----------------------------------------------------------------------------
(* Properties                                                              *)

Files == Sources \cup {None}

\* Every file is a version of the source or is not there, and a queue for a
\* device that was made without an exception has a kernel library.
TypeOK ==
  /\ source \in Sources /\ host_code \in Files /\ dev_code \in Files
  /\ lib \in [{"cpu", "ve"} -> Files] /\ loaded \in Files
  /\ exe = None \/ exe \in [src : Sources, device : {"host", "cpu", "ve"}]
  /\ nsc \in [at : {"idle", "kout", "format", "host", "device"}, device : {"cpu", "ve"},
              exit : {"none", "ok", "failed"}]
  /\ builds \in 0..MaxBuilds
  /\ up = None \/ up \in [src : Sources, device : {"host", "cpu", "ve"},
                          builds : 0..MaxBuilds, built : BOOLEAN]
  /\ q \in [Queues -> [at : {"none", "open", "load", "context", "ready", "threw", "gone"},
                      how : {"default", "cpu_selector", "ve_selector"},
                      device : {"host", "cpu", "ve", "nothing"}, lib : Files, proc : BOOLEAN,
                      ctx : {"null", "open", "failed", "closed"}, running : BOOLEAN,
                      holders : SUBSET {"program", "group", "map"}]]
  /\ \A i \in Queues : q[i].at \in {"context", "ready", "gone"} =>
       (q[i].lib = None <=> q[i].device = "host")

\* When nsc++ exits with 0, a.out and the kernel library of the device are both
\* of the source that it was given; a source with neither a kernel nor a type
\* alias (the library may then be that of any source built before) is the only
\* exception.
ExitZeroFresh ==
  nsc.at = "idle" /\ nsc.exit = "ok" =>
    /\ exe = [src |-> host_code, device |-> nsc.device]
    /\ lib[nsc.device] = exe.src \/ ~HasDevCode(exe.src)

\* A kernel that runs through a default queue, in a process started after a
\* build that succeeded and with no build since, does what its source says: on
\* a device that could be opened in full, exactly if it is a faithful one.
RunsItsSource ==
  outcome # None /\ outcome.how = "default" /\ outcome.ctx # "failed"
    /\ outcome.image.device # "host" /\ outcome.image.built /\ outcome.image.builds = builds =>
      LET k == kernels(outcome.image.src)[outcome.kernel]
      IN  outcome.value = Ran(HostResult(k)) <=> Faithful(k)

\* A queue is on the device that --device named, but for the selectors of a
\* program built for a VE: cpu_selector (and default_selector) still finds a CPU
\* device, and the library of an earlier build for it.
QueueOnTarget ==
  \A i \in Queues : q[i].at \in {"ready", "gone"} =>
    (q[i].device = up.device <=> q[i].how # "cpu_selector" \/ up.device = "cpu")

\* The VE process and its context are there as long as a queue, a command group
\* or a buffer may use them and are gone after the last of them, but for what an
\* open that failed half-way leaves behind.
ProcessLives ==
  \A i \in Queues : q[i].device = "ve" =>
    /\ q[i].holders # {} => q[i].proc /\ q[i].ctx \in {"open", "failed"}
    /\ q[i].holders = {} /\ q[i].proc =>
         q[i].at \in {"load", "context", "threw"} \/ q[i].ctx = "failed"
=============================================================================
