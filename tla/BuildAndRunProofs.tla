------------------------- MODULE BuildAndRunProofs --------------------------
(***************************************************************************)
(* Proofs about building and running.  A build that succeeds is fresh      *)
(* because of what holds between its steps: kout has written both files of *)
(* one source, or that source has no kernels.  The life of a VE process is *)
(* an invariant of each queue alone, and so is its device, as long as a    *)
(* process keeps its image.                                                *)
(***************************************************************************)
EXTENDS BuildAndRun, KernelOutlinerProofs

\* What holds between the steps of a build.
Building ==
  /\ DOMAIN lib = {"cpu", "ve"}
  /\ nsc \in [at : {"idle", "kout", "format", "host", "device"}, device : {"cpu", "ve"},
              exit : {"none", "ok", "failed"}]
  /\ nsc.at \in {"format", "host", "device"} => dev_code = host_code \/ ~HasDevCode(host_code)
  /\ nsc.at = "device" => exe = [src |-> host_code, device |-> nsc.device]
  /\ ExitZeroFresh

-----------------------------------------------------------------------------
LEMMA BuildingInit == Init => Building
BY DEF Init, Building, ExitZeroFresh

LEMMA BuildingStep == ASSUME Building, [Next]_vars PROVE Building'
<1> USE TargetsAre DEF Building, ExitZeroFresh
<1>1. CASE Edit
  BY <1>1 DEF Edit, disk, process
<1>2. ASSUME NEW d \in Targets, Nsc(d) PROVE Building'
  BY <1>2 DEF Nsc, disk, process
<1>3. CASE Kout
  BY <1>3 DEF Kout, disk, process, Exits, Goes
<1>4. CASE Format
  BY <1>4 DEF Format, disk, process, Exits, Goes
<1>5. CASE HostCompile
  BY <1>5 DEF HostCompile, disk, process, Exits, Goes
<1>6. CASE DeviceCompile
  <2>1. /\ nsc'.at = "idle" /\ nsc'.device = nsc.device /\ nsc'.exit \in {"ok", "failed"}
        /\ nsc' \in [at : {"idle", "kout", "format", "host", "device"}, device : {"cpu", "ve"},
                     exit : {"none", "ok", "failed"}]
    BY <1>6 DEF DeviceCompile, Exits
  <2>2. host_code' = host_code /\ dev_code' = dev_code /\ exe' = exe
    BY <1>6 DEF DeviceCompile
  <2>3. DOMAIN lib' = {"cpu", "ve"}
    BY <1>6 DEF DeviceCompile
  <2>4. nsc'.exit = "ok" => lib'[nsc.device] = dev_code
    BY <1>6 DEF DeviceCompile, Exits
  <2>5. nsc.at = "device"
    BY <1>6 DEF DeviceCompile
  <2>6. lib'[nsc.device] = host_code \/ ~HasDevCode(host_code) \/ nsc'.exit # "ok"
    BY <2>4, <2>5
  <2>7. ExitZeroFresh'
    BY <2>1, <2>2, <2>5, <2>6
  <2> QED
    BY <2>1, <2>2, <2>3, <2>7
<1>7. CASE Gxx
  BY <1>7 DEF Gxx, process
<1>8. CASE UNCHANGED toolchain
  BY <1>8 DEF toolchain, disk
<1>9. CASE UNCHANGED vars
  BY <1>8, <1>9 DEF vars
<1>10. CASE Start \/ Exit
  BY <1>8, <1>10 DEF Start, Exit
<1>11. ASSUME NEW i \in Queues, NEW how \in {"default", "cpu_selector", "ve_selector"},
              NewQueue(i, how)
       PROVE  Building'
  BY <1>8, <1>11 DEF NewQueue
<1>12. ASSUME NEW i \in Queues,
              \/ OpenCpu(i) \/ ProcCreate(i) \/ LoadLibrary(i) \/ ContextOpen(i)
              \/ Submit(i) \/ UseBuffer(i) \/ Launch(i) \/ GroupDone(i)
              \/ DropClosure(i) \/ DropQueue(i) \/ DropBuffer(i)
       PROVE  Building'
  BY <1>8, <1>12 DEF OpenCpu, ProcCreate, LoadLibrary, ContextOpen, Submit, UseBuffer,
     Launch, GroupDone, DropClosure, DropQueue, DropBuffer, toolchain
<1>13. QED
  BY <1>1, <1>2, <1>3, <1>4, <1>5, <1>6, <1>7, <1>9, <1>10, <1>11, <1>12 DEF Next

\* Whatever the sources, the order in which they are edited and built, and what
\* processes do meanwhile: nsc++ exits with 0 only if a.out and the kernel library
\* are both of the source it was given, or that one has no kernels.
THEOREM BuildsAreFresh == Spec => []ExitZeroFresh
<1>1. Building => ExitZeroFresh
  BY DEF Building
<1>2. QED
  BY BuildingInit, BuildingStep, <1>1, PTL DEF Spec

-----------------------------------------------------------------------------
(* The queues of a process                                                 *)

Queue == [at : {"none", "open", "load", "context", "ready", "threw", "gone"},
          how : {"default", "cpu_selector", "ve_selector"},
          device : {"host", "cpu", "ve", "nothing"}, lib : Files, proc : BOOLEAN,
          ctx : {"null", "open", "failed", "closed"}, running : BOOLEAN,
          holders : SUBSET {"program", "group", "map"}]

\* How far a queue is and what it has: before it is ready nobody holds its
\* program_data, and whoever holds it finds the process and its context.
Fits(r) ==
  /\ r \in Queue
  /\ r.at \in {"context", "ready", "gone"} => (r.lib = None <=> r.device = "host")
  /\ r.at \notin {"ready", "gone"} => r.holders = {} /\ ~r.running /\ r.ctx = "null"
  /\ r.at \in {"none", "open"} => ~r.proc
  /\ r.at = "open" => r.device \in {"cpu", "ve"}
  /\ r.at \in {"load", "context"} => r.proc /\ r.device = "ve"
  /\ r.at = "ready" => "program" \in r.holders
  /\ r.running => "group" \in r.holders
  /\ r.device = "ve" /\ r.holders # {} => r.proc /\ r.ctx \in {"open", "failed"}
  /\ r.device = "ve" /\ r.at \in {"ready", "gone"} /\ r.holders = {} /\ r.proc =>
       r.ctx = "failed"

\* A queue that has selected a device is on the one that its selector finds.
Selected(r, u) ==
  /\ r.at # "none" => u # None
  /\ r.at \in {"open", "load", "context", "ready", "gone"} =>
       (r.device = u.device <=> r.how # "cpu_selector" \/ u.device = "cpu")

Image == [src : Sources, device : {"host", "cpu", "ve"}, builds : 0..MaxBuilds, built : BOOLEAN]

Filed ==
  /\ source \in Sources /\ host_code \in Files /\ dev_code \in Files
  /\ lib \in [{"cpu", "ve"} -> Files] /\ loaded \in Files
  /\ exe = None \/ exe \in [src : Sources, device : {"host", "cpu", "ve"}]
  /\ nsc \in [at : {"idle", "kout", "format", "host", "device"}, device : {"cpu", "ve"},
              exit : {"none", "ok", "failed"}]
  /\ builds \in 0..MaxBuilds

Held ==
  /\ up = None \/ up \in Image
  /\ q \in [Queues -> Queue]
  /\ \A i \in Queues : Fits(q[i]) /\ Selected(q[i], up)

IInv == Filed /\ Held

LEMMA IInvInit == Init => IInv
<1> SUFFICES ASSUME Init PROVE IInv
  OBVIOUS
<1>1. NoQueue \in Queue /\ Fits(NoQueue) /\ Selected(NoQueue, None)
  BY DEF NoQueue, Queue, Fits, Selected, Files
<1>2. Filed
  BY BuildsAre DEF Init, Filed, Files
<1>3. Held
  BY <1>1 DEF Init, Held
<1> QED
  BY <1>2, <1>3 DEF IInv

LEMMA PutHeld ==
  ASSUME Held, NEW i \in Queues, NEW r, Fits(r), Selected(r, up), Put(i, r), UNCHANGED up
  PROVE  Held'
<1>1. r \in Queue
  BY DEF Fits
<1>2. q' \in [Queues -> Queue]
  BY <1>1 DEF Held, Put
<1>3. ASSUME NEW j \in Queues PROVE Fits(q'[j]) /\ Selected(q'[j], up)
  BY <1>1 DEF Held, Put
<1> QED
  BY <1>2, <1>3 DEF Held

LEMMA DiesHeld == ASSUME Held, Dies PROVE Held' /\ loaded' = None
<1>1. NoQueue \in Queue /\ Fits(NoQueue) /\ Selected(NoQueue, None)
  BY DEF NoQueue, Queue, Fits, Selected, Files
<1> QED
  BY <1>1 DEF Dies, Held

NscType == [at : {"idle", "kout", "format", "host", "device"}, device : {"cpu", "ve"},
            exit : {"none", "ok", "failed"}]

LEMMA NscMoves ==
  ASSUME nsc \in NscType,
         \/ Exits("ok") \/ Exits("failed")
         \/ \E f, t \in {"kout", "format", "host", "device"} : Goes(f, t)
  PROVE  nsc' \in NscType
BY DEF NscType, Exits, Goes

LEMMA BuildFiled ==
  ASSUME Filed,
         \/ Edit \/ \E d \in Targets : Nsc(d)
         \/ Kout \/ Format \/ HostCompile \/ DeviceCompile \/ Gxx
  PROVE  Filed' /\ UNCHANGED process
<1> USE TargetsAre, BuildsAre, NoneIs DEF Filed, Files
<1>1. CASE Edit
  BY <1>1 DEF Edit, disk, process
<1>2. ASSUME NEW d \in Targets, Nsc(d) PROVE Filed' /\ UNCHANGED process
  <2>1. builds' \in 0..MaxBuilds
    <3>1. builds \in 0..MaxBuilds /\ builds < MaxBuilds /\ builds' = builds + 1
      BY <1>2 DEF Nsc
    <3> QED
      BY <3>1
  <2>2. nsc' \in NscType
    BY <1>2 DEF Nsc, NscType
  <2>3. UNCHANGED <<source, host_code, dev_code, exe, lib, process>>
    BY <1>2 DEF Nsc, disk
  <2> QED
    BY <2>1, <2>2, <2>3 DEF NscType, process
<1>3. CASE Kout
  <2>1. nsc' \in NscType
    BY <1>3, NscMoves DEF Kout, NscType
  <2>2. UNCHANGED <<source, exe, lib, builds, process>>
    BY <1>3 DEF Kout, disk
  <2>3. host_code' \in Files /\ dev_code' \in Files
    BY <1>3 DEF Kout, disk
  <2> QED
    BY <2>1, <2>2, <2>3 DEF NscType, process
<1>4. CASE Format
  BY <1>4 DEF Format, disk, process, Exits, Goes
<1>5. CASE HostCompile
  <2>1. nsc' \in NscType
    BY <1>5, NscMoves DEF HostCompile, NscType
  <2>2. host_code \in HostCompiles => host_code \in Sources
    BY DEF HostCompiles, all
  <2>3. exe' = None \/ exe' \in [src : Sources, device : {"host", "cpu", "ve"}]
    BY <1>5, <2>2 DEF HostCompile
  <2>4. UNCHANGED <<source, host_code, dev_code, lib, builds, process>>
    BY <1>5 DEF HostCompile
  <2> QED
    BY <2>1, <2>3, <2>4 DEF NscType, process
<1>6. CASE DeviceCompile
  <2>1. nsc' \in NscType
    BY <1>6, NscMoves DEF DeviceCompile, NscType
  <2>2. lib' \in [{"cpu", "ve"} -> Files]
    BY <1>6 DEF DeviceCompile
  <2>3. UNCHANGED <<source, host_code, dev_code, exe, builds, process>>
    BY <1>6 DEF DeviceCompile
  <2> QED
    BY <2>1, <2>2, <2>3 DEF NscType, process
<1>7. CASE Gxx
  BY <1>7 DEF Gxx, process
<1> QED
  BY <1>1, <1>2, <1>3, <1>4, <1>5, <1>6, <1>7

\* A queue that is made, and how it opens its device.
LEMMA NewHeld ==
  ASSUME Held, NEW i \in Queues, NEW how \in {"default", "cpu_selector", "ve_selector"},
         NewQueue(i, how)
  PROVE  Held'
<1> DEFINE d == select_device(how)
           r == [NoQueue EXCEPT !.how = how, !.device = d, !.at = "open"]
<1>1. up \in Image /\ up # None
  BY DEF NewQueue, Held
<1>2. up.device \in {"host", "cpu", "ve"}
  BY <1>1 DEF Image
<1>3. /\ up.device = "host" => ~Contains(devices, "cpu")
      /\ up.device # "host" => Contains(devices, "cpu")
      /\ up.device = "ve" => Contains(devices, "ve")
  BY <1>2 DEF devices, Contains
<1>4. get_default_device = up.device
  BY <1>2 DEF devices, get_default_device
<1>5. /\ d \in {"host", "cpu", "ve", "nothing"}
      /\ d # "nothing" => (d = up.device <=> how # "cpu_selector" \/ up.device = "cpu")
  BY <1>2, <1>3, <1>4 DEF select_device, NewQueue
<1> HIDE DEF d
<1>6. NoQueue \in Queue
  BY DEF NoQueue, Queue, Files
<1>7. r \in Queue
  BY <1>5, <1>6 DEF Queue
<1>8. r.how = how /\ r.device = d /\ r.at = "open"
  BY <1>6 DEF Queue
<1>9. r.lib = NoQueue.lib /\ r.proc = NoQueue.proc /\ r.ctx = NoQueue.ctx
  BY <1>6 DEF Queue
<1>10. r.running = NoQueue.running /\ r.holders = NoQueue.holders
  BY <1>6 DEF Queue
<1>11. r.lib = None /\ ~r.proc /\ r.ctx = "null" /\ ~r.running /\ r.holders = {}
  BY <1>9, <1>10 DEF NoQueue
<1>12. Put(i, IF d = "nothing" THEN [r EXCEPT !.at = "threw"]
              ELSE IF d = "host" THEN Ready(r) ELSE r)
       /\ UNCHANGED up
  BY DEF NewQueue, d
<1> HIDE DEF r
<1>13. CASE d = "nothing"
  <2> DEFINE t == [r EXCEPT !.at = "threw"]
  <2>1. Fits(t) /\ Selected(t, up)
    BY <1>1, <1>7, <1>8, <1>11 DEF Fits, Queue, Selected
  <2> HIDE DEF t
  <2> QED
    BY <1>12, <1>13, <2>1, PutHeld DEF t
<1>14. CASE d = "host"
  <2> DEFINE t == Ready(r)
  <2>1. t \in Queue /\ t.at = "ready" /\ t.holders = {"program"}
    BY <1>7 DEF Ready, Queue
  <2>2. t.how = how /\ t.device = d /\ t.lib = r.lib /\ t.proc = r.proc
    BY <1>7, <1>8 DEF Ready, Queue
  <2>3. t.ctx = r.ctx /\ t.running = r.running
    BY <1>7 DEF Ready, Queue
  <2> HIDE DEF t
  <2>4. Fits(t) /\ Selected(t, up)
    BY <1>1, <1>5, <1>11, <1>14, <2>1, <2>2, <2>3 DEF Fits, Selected
  <2> QED
    BY <1>12, <1>14, <2>4, PutHeld DEF t
<1>15. CASE d \in {"cpu", "ve"}
  <2>1. Fits(r) /\ Selected(r, up)
    BY <1>1, <1>5, <1>7, <1>8, <1>11, <1>15 DEF Fits, Selected
  <2> QED
    BY <1>12, <1>15, <2>1, PutHeld
<1> QED
  BY <1>5, <1>13, <1>14, <1>15

LEMMA OpenHeld ==
  ASSUME IInv, NEW i \in Queues,
         OpenCpu(i) \/ ProcCreate(i) \/ LoadLibrary(i) \/ ContextOpen(i)
  PROVE  Held' /\ loaded' \in Files
<1> DEFINE r == q[i]
<1>1. r \in Queue /\ Fits(r) /\ Selected(r, up) /\ Held
  BY DEF IInv, Held
<1>2. loaded \in Files /\ lib["cpu"] \in Files /\ lib["ve"] \in Files
  BY DEF IInv, Filed
<1>3. ASSUME r.at \in {"open", "load"}, Put(i, Threw(i)), UNCHANGED up PROVE Held'
  <2> DEFINE t == [r EXCEPT !.at = "threw"]
  <2>1. Fits(t) /\ Selected(t, up)
    BY <1>1, <1>3 DEF Fits, Queue, Selected
  <2> HIDE DEF t
  <2> QED
    BY <1>1, <1>3, <2>1, PutHeld DEF t, Threw
<1>4. CASE OpenCpu(i)
  <2> DEFINE found == IF loaded # None THEN loaded ELSE lib["cpu"]
             s == [r EXCEPT !.lib = found]
             t == Ready(s)
  <2>1. r.at = "open" /\ r.device = "cpu" /\ UNCHANGED up /\ found \in Files /\ loaded' = found
    BY <1>2, <1>4 DEF OpenCpu
  <2>2. CASE found = None
    BY <1>3, <1>4, <2>1, <2>2 DEF OpenCpu
  <2>3. CASE found # None
    <3>1. Put(i, t)
      BY <1>4, <2>3 DEF OpenCpu
    <3> HIDE DEF found
    <3>2. s \in Queue /\ s.lib = found /\ s.at = "open"
      BY <1>1, <2>1 DEF Queue
    <3>3. s.device = "cpu" /\ s.how = r.how /\ s.proc = r.proc /\ s.running = r.running
      BY <1>1, <2>1 DEF Queue
    <3> HIDE DEF s
    <3>4. t \in Queue /\ t.at = "ready" /\ t.holders = {"program"} /\ t.lib = s.lib
      BY <3>2 DEF Ready, Queue
    <3>5. t.device = s.device /\ t.how = s.how /\ t.running = s.running
      BY <3>2 DEF Ready, Queue
    <3> HIDE DEF t
    <3>6. Fits(t) /\ Selected(t, up)
      BY <1>1, <2>1, <2>3, <3>2, <3>3, <3>4, <3>5 DEF Fits, Selected
    <3> QED
      BY <1>1, <2>1, <3>1, <3>6, PutHeld
  <2> QED
    BY <2>1, <2>2, <2>3
<1>5. CASE ProcCreate(i)
  <2> DEFINE t == [r EXCEPT !.at = "load", !.proc = TRUE]
  <2>1. /\ r.at = "open" /\ r.device = "ve" /\ UNCHANGED <<up, loaded>>
        /\ Put(i, Threw(i)) \/ Put(i, t)
    BY <1>5 DEF ProcCreate
  <2>2. t \in Queue /\ t.at = "load" /\ t.proc = TRUE /\ t.holders = r.holders
    BY <1>1 DEF Queue
  <2>3. t.device = r.device /\ t.how = r.how /\ t.running = r.running /\ t.ctx = r.ctx
    BY <1>1 DEF Queue
  <2> HIDE DEF t
  <2>4. Fits(t) /\ Selected(t, up)
    BY <1>1, <2>1, <2>2, <2>3 DEF Fits, Selected
  <2> QED
    BY <1>1, <1>2, <1>3, <2>1, <2>4, PutHeld
<1>6. CASE LoadLibrary(i)
  <2> DEFINE t == [r EXCEPT !.at = "context", !.lib = lib["ve"]]
  <2>1. /\ r.at = "load" /\ UNCHANGED <<up, loaded>>
        /\ Put(i, IF lib["ve"] = None THEN Threw(i) ELSE t)
    BY <1>6 DEF LoadLibrary
  <2>2. t \in Queue /\ t.at = "context" /\ t.lib = lib["ve"] /\ t.holders = r.holders
    BY <1>1, <1>2 DEF Queue
  <2>3. t.device = r.device /\ t.how = r.how /\ t.running = r.running /\ t.ctx = r.ctx
    BY <1>1 DEF Queue
  <2>4. t.proc = r.proc
    BY <1>1 DEF Queue
  <2> HIDE DEF t
  <2>5. lib["ve"] # None => Fits(t) /\ Selected(t, up)
    BY <1>1, <2>1, <2>2, <2>3, <2>4 DEF Fits, Selected
  <2> QED
    BY <1>1, <1>2, <1>3, <2>1, <2>5, PutHeld
<1>7. CASE ContextOpen(i)
  <2>1. PICK c \in {"open", "failed"} : Put(i, Ready([r EXCEPT !.ctx = c]))
    BY <1>7 DEF ContextOpen
  <2> DEFINE s == [r EXCEPT !.ctx = c]
             t == Ready(s)
  <2>2. r.at = "context" /\ UNCHANGED <<up, loaded>>
    BY <1>7 DEF ContextOpen
  <2>3. s \in Queue /\ s.ctx = c /\ s.lib = r.lib /\ s.proc = r.proc
    BY <1>1 DEF Queue
  <2>4. s.device = r.device /\ s.how = r.how /\ s.running = r.running
    BY <1>1 DEF Queue
  <2> HIDE DEF s
  <2>5. t \in Queue /\ t.at = "ready" /\ t.holders = {"program"} /\ t.lib = s.lib
    BY <2>3 DEF Ready, Queue
  <2>6. t.device = s.device /\ t.how = s.how /\ t.running = s.running
    BY <2>3 DEF Ready, Queue
  <2>7. t.proc = s.proc /\ t.ctx = s.ctx
    BY <2>3 DEF Ready, Queue
  <2> HIDE DEF t
  <2>8. Fits(t) /\ Selected(t, up)
    BY <1>1, <2>2, <2>3, <2>4, <2>5, <2>6, <2>7 DEF Fits, Selected
  <2> QED
    BY <1>1, <1>2, <2>1, <2>2, <2>8, PutHeld DEF t, s
<1> QED
  BY <1>4, <1>5, <1>6, <1>7

\* A program_data is used, and let go.
LEMMA UseHeld ==
  ASSUME IInv, NEW i \in Queues, Submit(i) \/ UseBuffer(i) \/ GroupDone(i)
  PROVE  Held' /\ UNCHANGED loaded
<1> DEFINE r == q[i]
<1>1. r \in Queue /\ Fits(r) /\ Selected(r, up) /\ Held
  BY DEF IInv, Held
<1>2. CASE Submit(i)
  <2> DEFINE t == [r EXCEPT !.holders = @ \cup {"group"}, !.running = TRUE]
  <2>1. r.at = "ready" /\ Put(i, t) /\ UNCHANGED <<up, loaded>>
    BY <1>2 DEF Submit
  <2>2. t \in Queue /\ t.holders = r.holders \cup {"group"} /\ t.running = TRUE
    BY <1>1 DEF Queue
  <2>3. t.device = r.device /\ t.how = r.how /\ t.at = r.at /\ t.ctx = r.ctx
    BY <1>1 DEF Queue
  <2>4. t.proc = r.proc /\ t.lib = r.lib
    BY <1>1 DEF Queue
  <2> HIDE DEF t
  <2>5. Fits(t) /\ Selected(t, up)
    BY <1>1, <2>1, <2>2, <2>3, <2>4 DEF Fits, Selected
  <2> QED
    BY <1>1, <2>1, <2>5, PutHeld
<1>3. CASE UseBuffer(i)
  <2> DEFINE t == [r EXCEPT !.holders = @ \cup {"map"}]
  <2>1. r.running /\ Put(i, t) /\ UNCHANGED <<up, loaded>>
    BY <1>3 DEF UseBuffer
  <2>2. t \in Queue /\ t.holders = r.holders \cup {"map"} /\ t.running = r.running
    BY <1>1 DEF Queue
  <2>3. t.device = r.device /\ t.how = r.how /\ t.at = r.at /\ t.ctx = r.ctx
    BY <1>1 DEF Queue
  <2>4. t.proc = r.proc /\ t.lib = r.lib
    BY <1>1 DEF Queue
  <2> HIDE DEF t
  <2>5. Fits(t) /\ Selected(t, up)
    BY <1>1, <2>1, <2>2, <2>3, <2>4 DEF Fits, Selected
  <2> QED
    BY <1>1, <2>1, <2>5, PutHeld
<1>4. CASE GroupDone(i)
  <2> DEFINE t == [r EXCEPT !.running = FALSE]
  <2>1. r.running /\ Put(i, t) /\ UNCHANGED <<up, loaded>>
    BY <1>4 DEF GroupDone
  <2>2. t \in Queue /\ t.holders = r.holders /\ t.running = FALSE
    BY <1>1 DEF Queue
  <2>3. t.device = r.device /\ t.how = r.how /\ t.at = r.at /\ t.ctx = r.ctx
    BY <1>1 DEF Queue
  <2>4. t.proc = r.proc /\ t.lib = r.lib
    BY <1>1 DEF Queue
  <2> HIDE DEF t
  <2>5. Fits(t) /\ Selected(t, up)
    BY <1>1, <2>1, <2>2, <2>3, <2>4 DEF Fits, Selected
  <2> QED
    BY <1>1, <2>1, <2>5, PutHeld
<1> QED
  BY <1>2, <1>3, <1>4

LEMMA ReleaseHeld ==
  ASSUME IInv, NEW i \in Queues, DropClosure(i) \/ DropQueue(i) \/ DropBuffer(i)
  PROVE  Held' /\ loaded' \in Files
<1> DEFINE r == q[i]
<1>1. r \in Queue /\ Fits(r) /\ Selected(r, up) /\ Held
  BY DEF IInv, Held
<1>2. PICK h \in {"program", "group", "map"}, at \in {r.at, "gone"} :
        /\ h \in r.holders /\ ~r.running
        /\ h = "program" => at = "gone"
        /\ Release(i, h, at)
  BY DEF DropClosure, DropQueue, DropBuffer
<1>3. r.at \in {"ready", "gone"} /\ at \in {"ready", "gone"}
  BY <1>1, <1>2 DEF Fits
<1> DEFINE s == [r EXCEPT !.holders = @ \ {h}, !.at = at]
           t == [s EXCEPT !.proc = FALSE, !.ctx = "closed"]
<1>4. s \in Queue /\ s.holders = r.holders \ {h} /\ s.at = at
  BY <1>1, <1>3 DEF Queue
<1>5. s.device = r.device /\ s.how = r.how /\ s.running = r.running /\ s.ctx = r.ctx
  BY <1>1 DEF Queue
<1>6. s.proc = r.proc /\ s.lib = r.lib
  BY <1>1 DEF Queue
<1>7. \/ (s.holders # {} \/ s.ctx # "open") /\ Put(i, s) /\ UNCHANGED <<up, loaded>>
      \/ s.holders = {} /\ s.ctx = "open" /\ Put(i, t) /\ UNCHANGED <<up, loaded>>
      \/ Dies
  BY <1>2 DEF Release
<1> HIDE DEF s
<1>8. t \in Queue /\ t.holders = s.holders /\ t.at = s.at /\ t.proc = FALSE
  BY <1>4 DEF Queue
<1>9. t.device = s.device /\ t.how = s.how /\ t.running = s.running /\ t.lib = s.lib
  BY <1>4 DEF Queue
<1> HIDE DEF t
<1>10. CASE (s.holders # {} \/ s.ctx # "open") /\ Put(i, s) /\ UNCHANGED <<up, loaded>>
  <2>1. Fits(s) /\ Selected(s, up)
    BY <1>1, <1>2, <1>3, <1>4, <1>5, <1>6, <1>10 DEF Fits, Selected
  <2> QED
    BY <1>1, <1>10, <2>1, PutHeld DEF IInv, Filed
<1>11. CASE s.holders = {} /\ s.ctx = "open" /\ Put(i, t) /\ UNCHANGED <<up, loaded>>
  <2>1. Fits(t) /\ Selected(t, up)
    BY <1>1, <1>2, <1>3, <1>4, <1>5, <1>6, <1>8, <1>9, <1>11 DEF Fits, Selected
  <2> QED
    BY <1>1, <1>11, <2>1, PutHeld DEF IInv, Filed
<1>12. CASE Dies
  BY <1>1, <1>12, DiesHeld DEF Files
<1> QED
  BY <1>7, <1>10, <1>11, <1>12

LEMMA IInvStep == ASSUME IInv, [Next]_vars PROVE IInv'
<1>0. Filed /\ Held
  BY DEF IInv
<1>1. ASSUME UNCHANGED toolchain, Held', loaded' \in Files PROVE IInv'
  BY <1>0, <1>1 DEF IInv, Filed, toolchain, disk
<1>2. CASE \/ Edit \/ \E d \in Targets : Nsc(d)
           \/ Kout \/ Format \/ HostCompile \/ DeviceCompile \/ Gxx
  <2>1. Filed' /\ UNCHANGED process
    BY <1>0, <1>2, BuildFiled
  <2>2. Held'
    BY <1>0, <2>1 DEF Held, process
  <2> QED
    BY <2>1, <2>2 DEF IInv
<1>3. CASE Start
  <2>1. up = None /\ exe # None /\ UNCHANGED <<toolchain, loaded, q>>
    BY <1>3 DEF Start
  <2>2. up' \in Image
    <3>1. exe \in [src : Sources, device : {"host", "cpu", "ve"}] /\ builds \in 0..MaxBuilds
      BY <1>0, <2>1 DEF Filed
    <3>2. up' = [src |-> exe.src, device |-> exe.device, builds |-> builds,
                 built |-> nsc.at = "idle" /\ nsc.exit = "ok"]
      BY <1>3 DEF Start
    <3> QED
      BY <3>1, <3>2 DEF Image
  <2>3. ASSUME NEW i \in Queues PROVE Fits(q[i]) /\ Selected(q[i], up')
    <3>1. q[i].at = "none" /\ Fits(q[i])
      BY <1>0, <2>1 DEF Held, Selected
    <3> QED
      BY <3>1 DEF Selected
  <2>4. Held'
    BY <1>0, <2>1, <2>2, <2>3 DEF Held
  <2> QED
    BY <1>0, <1>1, <2>1, <2>4 DEF Filed
<1>4. CASE Exit
  BY <1>0, <1>1, <1>4, DiesHeld DEF Exit, Files
<1>5. ASSUME NEW i \in Queues, NEW how \in {"default", "cpu_selector", "ve_selector"},
             NewQueue(i, how)
      PROVE  IInv'
  BY <1>0, <1>1, <1>5, NewHeld DEF NewQueue, Filed
<1>6. ASSUME NEW i \in Queues,
             OpenCpu(i) \/ ProcCreate(i) \/ LoadLibrary(i) \/ ContextOpen(i)
      PROVE  IInv'
  <2>1. UNCHANGED toolchain
    BY <1>6 DEF OpenCpu, ProcCreate, LoadLibrary, ContextOpen
  <2> QED
    BY <1>1, <1>6, <2>1, OpenHeld
<1>7. ASSUME NEW i \in Queues, Submit(i) \/ UseBuffer(i) \/ GroupDone(i) PROVE IInv'
  <2>1. UNCHANGED toolchain
    BY <1>7 DEF Submit, UseBuffer, GroupDone
  <2> QED
    BY <1>0, <1>1, <1>7, <2>1, UseHeld DEF Filed
<1>8. ASSUME NEW i \in Queues, Launch(i) PROVE IInv'
  <2>1. UNCHANGED toolchain /\ (Dies \/ UNCHANGED <<up, loaded, q>>)
    BY <1>8 DEF Launch
  <2>2. CASE Dies
    BY <1>0, <1>1, <2>1, <2>2, DiesHeld DEF Files
  <2>3. CASE UNCHANGED <<up, loaded, q>>
    <3>1. Held' /\ loaded' \in Files
      BY <1>0, <2>3 DEF Held, Filed
    <3> QED
      BY <1>1, <2>1, <3>1
  <2> QED
    BY <2>1, <2>2, <2>3
<1>9. ASSUME NEW i \in Queues, DropClosure(i) \/ DropQueue(i) \/ DropBuffer(i) PROVE IInv'
  <2>1. UNCHANGED toolchain
    BY <1>9 DEF DropClosure, DropQueue, DropBuffer
  <2> QED
    BY <1>1, <1>9, <2>1, ReleaseHeld
<1>10. CASE UNCHANGED vars
  <2>1. Held' /\ loaded' \in Files /\ UNCHANGED toolchain
    BY <1>0, <1>10 DEF Held, Filed, vars, process
  <2> QED
    BY <1>1, <2>1
<1> QED
  BY <1>2, <1>3, <1>4, <1>5, <1>6, <1>7, <1>8, <1>9, <1>10 DEF Next

LEMMA IInvHolds == Spec => []IInv
BY IInvInit, IInvStep, PTL DEF Spec

\* The files, the build, the process and its queues are what their declarations
\* say; a queue that was made for a device without an exception has a library.
THEOREM TypesHold == Spec => []TypeOK
<1>1. IInv => TypeOK
  BY DEF IInv, Filed, Held, Fits, Queue, Image, TypeOK
<1> QED
  BY <1>1, IInvHolds, PTL

\* For any number of queues, processes and builds: a queue is on the device that
\* --device named, but for a cpu_selector in a program built for a VE.
THEOREM QueuesOnTarget == Spec => []QueueOnTarget
<1>1. IInv => QueueOnTarget
  BY DEF IInv, Held, Selected, QueueOnTarget
<1> QED
  BY <1>1, IInvHolds, PTL

\* For any number of queues: whoever holds a program_data of a VE finds the
\* process there, and after the last of them only an open that failed half-way
\* leaves one behind.
THEOREM ProcessesLive == Spec => []ProcessLives
<1>1. ASSUME IInv, NEW i \in Queues, q[i].device = "ve"
      PROVE  /\ q[i].holders # {} => q[i].proc /\ q[i].ctx \in {"open", "failed"}
             /\ q[i].holders = {} /\ q[i].proc =>
                  q[i].at \in {"load", "context", "threw"} \/ q[i].ctx = "failed"
  <2>1. Fits(q[i])
    BY <1>1 DEF IInv, Held
  <2> QED
    BY <1>1, <2>1 DEF Fits, Queue
<1>2. IInv => ProcessLives
  BY <1>1 DEF ProcessLives
<1> QED
  BY <1>2, IInvHolds, PTL

-----------------------------------------------------------------------------
(* What a kernel does                                                      *)

\* What a file holds has passed the tool that wrote it.
Passed ==
  /\ host_code # None => host_code \in Outlined
  /\ \A d \in {"cpu", "ve"} : lib[d] # None => lib[d] \in DevCompiles
  /\ nsc.at = "device" \/ (nsc.at = "idle" /\ nsc.exit = "ok") =>
       host_code \in Outlined \cap HostCompiles

\* The image is that of the last build, which succeeded.
Current(u) == u.built /\ u.builds = builds

\* A source that has gone through every tool.
Accepted(s) == s \in Outlined \cap HostCompiles /\ (s \in DevCompiles \/ ~HasDevCode(s))

\* A process with a current image: no build runs, the kernel library on the disk
\* is of the image's source, and so is every one that the process has opened.
Opened ==
  /\ up = None => loaded = None /\ q = [i \in Queues |-> NoQueue]
  /\ up # None => up.builds <= builds
  /\ up # None /\ Current(up) =>
       /\ nsc.at = "idle" /\ nsc.exit = "ok"
       /\ Accepted(up.src)
       /\ up.device # "host" => lib[up.device] = up.src \/ ~HasDevCode(up.src)
       /\ loaded # None => loaded = lib["cpu"]
       /\ \A i \in Queues :
            q[i].lib # None /\ q[i].device \in {"cpu", "ve"} => q[i].lib = lib[q[i].device]

\* What the last kernel has computed was right when it ran, and no build is undone.
Computed ==
  /\ outcome # None => outcome.image.builds \in 0..builds
  /\ RunsItsSource

RunInv == Passed /\ Opened /\ Computed

LEMMA RunInvInit == Init => RunInv
<1> SUFFICES ASSUME Init PROVE RunInv
  OBVIOUS
<1>1. Passed
  BY DEF Init, Passed
<1>2. Opened
  BY DEF Init, Opened
<1>3. Computed
  BY DEF Init, Computed, RunsItsSource
<1> QED
  BY <1>1, <1>2, <1>3 DEF RunInv

\* A step is one of the toolchain, or one of a process and its queues.
BuildStep ==
  \/ Edit \/ \E d \in Targets : Nsc(d)
  \/ Kout \/ Format \/ HostCompile \/ DeviceCompile \/ Gxx

LEMMA StepSplits ==
  ASSUME [Next]_vars
  PROVE  BuildStep \/ UNCHANGED toolchain
<1>1. CASE UNCHANGED vars
  BY <1>1 DEF vars
<1>2. CASE Start \/ Exit
  BY <1>2 DEF Start, Exit
<1>3. ASSUME NEW i \in Queues, NEW how \in {"default", "cpu_selector", "ve_selector"},
             NewQueue(i, how)
      PROVE  UNCHANGED toolchain
  BY <1>3 DEF NewQueue
<1>4. ASSUME NEW i \in Queues,
             \/ OpenCpu(i) \/ ProcCreate(i) \/ LoadLibrary(i) \/ ContextOpen(i)
             \/ Submit(i) \/ UseBuffer(i) \/ Launch(i) \/ GroupDone(i)
             \/ DropClosure(i) \/ DropQueue(i) \/ DropBuffer(i)
      PROVE  UNCHANGED toolchain
  BY <1>4 DEF OpenCpu, ProcCreate, LoadLibrary, ContextOpen, Submit, UseBuffer,
     Launch, GroupDone, DropClosure, DropQueue, DropBuffer
<1> QED
  BY <1>1, <1>2, <1>3, <1>4 DEF Next, BuildStep

LEMMA PassedStep ==
  ASSUME IInv, Passed, [Next]_vars
  PROVE  Passed'
<1>0. Filed
  BY DEF IInv
<1>1. CASE UNCHANGED toolchain
  BY <1>1 DEF Passed, toolchain, disk
<1>2. CASE Edit
  BY <1>2 DEF Passed, Edit, disk
<1>3. ASSUME NEW d \in Targets, Nsc(d) PROVE Passed'
  BY <1>3 DEF Passed, Nsc, disk
<1>4. CASE Kout
  <2>1. host_code' # None => host_code' \in Outlined
    BY <1>4 DEF Passed, Kout, disk
  <2>2. lib' = lib
    BY <1>4 DEF Kout, disk
  <2>3. nsc'.at = "format" \/ (nsc'.at = "idle" /\ nsc'.exit = "failed")
    BY <1>0, <1>4 DEF Kout, Exits, Goes, Filed
  <2> QED
    BY <2>1, <2>2, <2>3 DEF Passed
<1>5. CASE Format
  <2>1. nsc'.at = "host" \/ (nsc'.at = "idle" /\ nsc'.exit = "failed")
    BY <1>0, <1>5 DEF Format, Exits, Goes, Filed
  <2> QED
    BY <1>5, <2>1 DEF Passed, Format, disk
<1>6. CASE HostCompile
  <2>1. \/ nsc'.at = "device" /\ host_code \in HostCompiles
        \/ nsc'.at = "idle" /\ nsc'.exit = "failed"
    BY <1>0, <1>6 DEF HostCompile, Exits, Goes, Filed
  <2>2. host_code \in HostCompiles => host_code # None
    BY NoneIs DEF HostCompiles, all
  <2> QED
    BY <1>6, <2>1, <2>2 DEF Passed, HostCompile
<1>7. CASE DeviceCompile
  <2>1. nsc.at = "device" /\ nsc'.at = "idle" /\ host_code' = host_code
    BY <1>0, <1>7 DEF DeviceCompile, Exits, Filed
  <2>2. ASSUME NEW d \in {"cpu", "ve"}, lib'[d] # None PROVE lib'[d] \in DevCompiles
    <3>1. \/ lib' = lib
          \/ dev_code \in DevCompiles /\ lib' = [lib EXCEPT ![nsc.device] = dev_code]
      BY <1>7 DEF DeviceCompile
    <3> QED
      BY <1>0, <2>2, <3>1 DEF Passed, Filed
  <2> QED
    BY <2>1, <2>2 DEF Passed
<1>8. CASE Gxx
  BY <1>0, <1>8 DEF Passed, Gxx, Filed
<1> QED
  BY <1>1, <1>2, <1>3, <1>4, <1>5, <1>6, <1>7, <1>8, StepSplits DEF BuildStep

LEMMA BuildsGrow ==
  ASSUME IInv, [Next]_vars
  PROVE  builds \in Nat /\ (builds' = builds \/ (builds' = builds + 1 /\ nsc.at = "idle"))
<1>1. builds \in Nat
  BY BuildsAre DEF IInv, Filed
<1>2. CASE UNCHANGED toolchain
  BY <1>1, <1>2 DEF toolchain
<1>3. CASE Edit \/ Kout \/ Format \/ HostCompile \/ DeviceCompile
  BY <1>1, <1>3 DEF Edit, Kout, Format, HostCompile, DeviceCompile
<1>4. CASE Gxx \/ \E d \in Targets : Nsc(d)
  BY <1>1, <1>4 DEF Gxx, Nsc
<1> QED
  BY <1>1, <1>2, <1>3, <1>4, StepSplits DEF BuildStep

\* A build ends what is current, and the tools are at rest while an image is.
LEMMA OpenedBuild ==
  ASSUME IInv, Opened, BuildStep
  PROVE  Opened'
<1>1. UNCHANGED process /\ Filed
  BY BuildFiled DEF IInv, BuildStep
<1>2. builds \in Nat /\ builds' \in Nat /\ builds' >= builds
  BY BuildsGrow DEF Next, BuildStep
<1>3. up = None => loaded = None /\ q = [i \in Queues |-> NoQueue]
  BY DEF Opened
<1>4. up # None => up.builds \in Nat /\ up.builds <= builds
  BY BuildsAre DEF Opened, IInv, Held, Image
<1>5. ASSUME up # None, Current(up)' PROVE Edit /\ builds' = builds
  <2>1. builds' = builds /\ Current(up)
    BY <1>1, <1>2, <1>4, <1>5 DEF Current, process
  <2>2. nsc.at = "idle"
    BY <1>5, <2>1 DEF Opened
  <2>3. ~(\E d \in Targets : Nsc(d)) /\ ~Gxx
    <3>1. builds' # builds + 1
      BY <1>2, <2>1
    <3> QED
      BY <3>1 DEF Nsc, Gxx
  <2> QED
    BY <2>1, <2>2, <2>3 DEF BuildStep, Kout, Format, HostCompile, DeviceCompile
<1>6. ASSUME up # None, Edit, Current(up), builds' = builds PROVE Opened'
  BY <1>1, <1>3, <1>4, <1>6 DEF Opened, Edit, disk, process, Current
<1> QED
  BY <1>1, <1>2, <1>3, <1>4, <1>5, <1>6 DEF Opened, process, Current

\* A queue that is changed keeps its library, drops it, or gets it from the disk.
LEMMA OpenedPut ==
  ASSUME IInv, Opened, UNCHANGED <<toolchain, up>>, up # None,
         loaded' \in {loaded, lib["cpu"]},
         NEW i \in Queues, NEW r, Put(i, r),
         \/ r.lib = None
         \/ r.lib = q[i].lib /\ r.device = q[i].device
         \/ r.lib = loaded' /\ r.device = "cpu"
         \/ r.lib = lib["ve"] /\ r.device = "ve"
  PROVE  Opened'
<1>1. lib' = lib /\ nsc' = nsc /\ builds' = builds /\ up' = up
  BY DEF toolchain, disk
<1>2. ASSUME Current(up), NEW j \in Queues, q'[j].lib # None, q'[j].device \in {"cpu", "ve"}
      PROVE  q'[j].lib = lib[q'[j].device]
  <2>1. loaded' # None => loaded' = lib["cpu"]
    BY <1>2 DEF Opened
  <2>2. q[j].lib # None /\ q[j].device \in {"cpu", "ve"} => q[j].lib = lib[q[j].device]
    BY <1>2 DEF Opened
  <2>3. q'[j] = IF j = i THEN r ELSE q[j]
    BY DEF Put, IInv, Held
  <2>4. CASE j # i
    BY <1>2, <2>2, <2>3, <2>4
  <2>5. CASE j = i
    BY <1>2, <2>1, <2>2, <2>3, <2>5
  <2> QED
    BY <2>4, <2>5
<1> QED
  BY <1>1, <1>2 DEF Opened, Current

LEMMA OpenedDies ==
  ASSUME UNCHANGED toolchain, Dies
  PROVE  Opened'
BY DEF Dies, Opened

LEMMA OpenedStep ==
  ASSUME IInv, Passed, Building, Opened, [Next]_vars
  PROVE  Opened'
<1>0. /\ Filed /\ Held
      /\ \A i \in Queues : q[i].at # "none" => up # None
  BY DEF IInv, Held, Selected
<1>1. CASE BuildStep
  BY <1>1, OpenedBuild
<1>2. CASE UNCHANGED vars
  BY <1>2 DEF Opened, Current, vars, toolchain, disk, process
<1>3. CASE Start
  <2>1. up = None /\ exe # None /\ UNCHANGED <<toolchain, loaded, q>>
    BY <1>3 DEF Start
  <2>2. loaded = None /\ q = [i \in Queues |-> NoQueue]
    BY <2>1 DEF Opened
  <2>3. \A i \in Queues : q[i].lib = None
    BY <2>2 DEF NoQueue
  <2>4. /\ up'.src = exe.src /\ up'.device = exe.device /\ up'.builds = builds
        /\ up'.built = (nsc.at = "idle" /\ nsc.exit = "ok")
    BY <1>3 DEF Start
  <2>5. builds \in Nat /\ exe.src \in Sources
    BY <1>0, <2>1, BuildsAre DEF Filed
  <2>6. ASSUME nsc.at = "idle", nsc.exit = "ok"
        PROVE  /\ Accepted(exe.src)
               /\ lib[exe.device] = exe.src \/ ~HasDevCode(exe.src)
    <3>1. exe = [src |-> host_code, device |-> nsc.device]
      BY <2>6 DEF Building, ExitZeroFresh
    <3>2. lib[nsc.device] = exe.src \/ ~HasDevCode(exe.src)
      BY <2>6 DEF Building, ExitZeroFresh
    <3>3. host_code \in Outlined \cap HostCompiles
      BY <2>6 DEF Passed
    <3>4. nsc.device \in {"cpu", "ve"}
      BY DEF Building
    <3>5. lib[nsc.device] = exe.src => exe.src \in DevCompiles
      BY <2>5, <3>4, NoneIs DEF Passed
    <3> QED
      BY <3>1, <3>2, <3>3, <3>5 DEF Accepted
  <2>7. lib' = lib /\ nsc' = nsc /\ builds' = builds /\ loaded' = None /\ q' = q
    BY <2>1, <2>2 DEF toolchain, disk
  <2>8. up'.builds <= builds'
    BY <2>4, <2>5, <2>7
  <2>9. Current(up)' => (nsc.at = "idle" /\ nsc.exit = "ok")
    BY <2>4 DEF Current
  <2> QED
    BY <2>2, <2>3, <2>4, <2>6, <2>7, <2>8, <2>9 DEF Opened, Accepted
<1>4. CASE Exit
  BY <1>4, OpenedDies DEF Exit
<1>5. ASSUME NEW i \in Queues, NEW how \in {"default", "cpu_selector", "ve_selector"},
             NewQueue(i, how)
      PROVE  Opened'
  <2>1. PICK r : Put(i, r) /\ r.lib = None
    <3> DEFINE d == select_device(how)
               s == [NoQueue EXCEPT !.how = how, !.device = d, !.at = "open"]
    <3>1. Put(i, IF d = "nothing" THEN [s EXCEPT !.at = "threw"]
                 ELSE IF d = "host" THEN Ready(s) ELSE s)
      BY <1>5 DEF NewQueue
    <3>2. s.lib = None /\ [s EXCEPT !.at = "threw"].lib = None /\ Ready(s).lib = None
      BY DEF NoQueue, Ready
    <3> HIDE DEF s, d
    <3> QED
      BY <3>1, <3>2
  <2>2. UNCHANGED <<toolchain, up, loaded>> /\ up # None
    BY <1>5 DEF NewQueue
  <2> QED
    BY <2>1, <2>2, OpenedPut
<1>6. ASSUME NEW i \in Queues, OpenCpu(i) PROVE Opened'
  <2> DEFINE found == IF loaded # None THEN loaded ELSE lib["cpu"]
  <2>1. /\ q[i].at = "open" /\ q[i].device = "cpu" /\ UNCHANGED <<toolchain, up>>
        /\ loaded' = found
    BY <1>6 DEF OpenCpu
  <2>2. PICK r : Put(i, r) /\ r.device = "cpu" /\ (r.lib = q[i].lib \/ r.lib = found)
    <3> DEFINE t == Threw(i)
               s == [q[i] EXCEPT !.lib = found]
    <3>1. Put(i, t) \/ Put(i, Ready(s))
      BY <1>6 DEF OpenCpu
    <3>2. q[i] \in Queue
      BY <1>0 DEF Held
    <3>3. t.device = "cpu" /\ t.lib = q[i].lib
      BY <2>1, <3>2 DEF Threw, Queue
    <3>4. s.device = "cpu" /\ s.lib = found /\ DOMAIN s = DOMAIN q[i]
      BY <2>1, <3>2 DEF Queue
    <3> HIDE DEF s, t, found
    <3>5. Ready(s).device = "cpu" /\ Ready(s).lib = found
      BY <3>2, <3>4 DEF Ready, Queue
    <3> QED
      BY <3>1, <3>3, <3>5
  <2>3. up # None /\ found \in {loaded, lib["cpu"]}
    BY <1>0, <2>1
  <2> QED
    BY <2>1, <2>2, <2>3, OpenedPut
<1>7. ASSUME NEW i \in Queues, LoadLibrary(i) PROVE Opened'
  <2>1. q[i].at = "load" /\ UNCHANGED <<toolchain, up, loaded>>
    BY <1>7 DEF LoadLibrary
  <2>2. q[i] \in Queue /\ q[i].device = "ve" /\ up # None
    BY <1>0, <2>1 DEF Held, Fits
  <2>3. PICK r : Put(i, r) /\ r.device = "ve" /\ (r.lib = q[i].lib \/ r.lib = lib["ve"])
    <3> DEFINE t == Threw(i)
               s == [q[i] EXCEPT !.at = "context", !.lib = lib["ve"]]
    <3>1. Put(i, t) \/ Put(i, s)
      BY <1>7 DEF LoadLibrary
    <3>2. t.device = "ve" /\ t.lib = q[i].lib /\ s.device = "ve" /\ s.lib = lib["ve"]
      BY <2>2 DEF Threw, Queue
    <3> HIDE DEF s, t
    <3> QED
      BY <3>1, <3>2
  <2> QED
    BY <2>1, <2>2, <2>3, OpenedPut
<1>8. ASSUME NEW i \in Queues,
             ProcCreate(i) \/ ContextOpen(i) \/ Submit(i) \/ UseBuffer(i) \/ GroupDone(i)
      PROVE  Opened'
  <2>1. q[i] \in Queue /\ Fits(q[i])
    BY <1>0 DEF Held
  <2>2. UNCHANGED <<toolchain, up, loaded>>
    BY <1>8 DEF ProcCreate, ContextOpen, Submit, UseBuffer, GroupDone
  <2>3. up # None
    BY <1>0, <1>8, <2>1 DEF ProcCreate, ContextOpen, Submit, UseBuffer, GroupDone, Fits
  <2>4. PICK r : Put(i, r) /\ r.device = q[i].device /\ r.lib = q[i].lib
    <3>1. CASE ProcCreate(i)
      <4> DEFINE t == [q[i] EXCEPT !.at = "threw"]
                 r == [q[i] EXCEPT !.at = "load", !.proc = TRUE]
      <4>1. Put(i, t) \/ Put(i, r)
        BY <3>1 DEF ProcCreate, Threw
      <4>2. /\ t.device = q[i].device /\ t.lib = q[i].lib
            /\ r.device = q[i].device /\ r.lib = q[i].lib
        BY <2>1 DEF Queue
      <4> HIDE DEF r, t
      <4> QED
        BY <4>1, <4>2
    <3>2. CASE ContextOpen(i)
      <4>1. PICK c \in {"open", "failed"} : Put(i, Ready([q[i] EXCEPT !.ctx = c]))
        BY <3>2 DEF ContextOpen
      <4> DEFINE r == Ready([q[i] EXCEPT !.ctx = c])
      <4>2. r.device = q[i].device /\ r.lib = q[i].lib
        BY <2>1 DEF Ready, Queue
      <4> HIDE DEF r
      <4> QED
        BY <4>1, <4>2 DEF r
    <3>3. CASE Submit(i)
      <4> DEFINE r == [q[i] EXCEPT !.holders = @ \cup {"group"}, !.running = TRUE]
      <4>1. r.device = q[i].device /\ r.lib = q[i].lib
        BY <2>1 DEF Queue
      <4>2. Put(i, r)
        BY <3>3 DEF Submit
      <4> HIDE DEF r
      <4> QED
        BY <4>1, <4>2
    <3>4. CASE UseBuffer(i)
      <4> DEFINE r == [q[i] EXCEPT !.holders = @ \cup {"map"}]
      <4>1. r.device = q[i].device /\ r.lib = q[i].lib
        BY <2>1 DEF Queue
      <4>2. Put(i, r)
        BY <3>4 DEF UseBuffer
      <4> HIDE DEF r
      <4> QED
        BY <4>1, <4>2
    <3>5. CASE GroupDone(i)
      <4> DEFINE r == [q[i] EXCEPT !.running = FALSE]
      <4>1. r.device = q[i].device /\ r.lib = q[i].lib
        BY <2>1 DEF Queue
      <4>2. Put(i, r)
        BY <3>5 DEF GroupDone
      <4> HIDE DEF r
      <4> QED
        BY <4>1, <4>2
    <3> QED
      BY <1>8, <3>1, <3>2, <3>3, <3>4, <3>5
  <2> QED
    BY <2>2, <2>3, <2>4, OpenedPut
<1>9. ASSUME NEW i \in Queues, Launch(i) PROVE Opened'
  <2>1. UNCHANGED toolchain /\ (Dies \/ UNCHANGED <<up, loaded, q>>)
    BY <1>9 DEF Launch
  <2>2. CASE UNCHANGED <<up, loaded, q>>
    BY <2>1, <2>2 DEF Opened, Current, toolchain, disk
  <2> QED
    BY <2>1, <2>2, OpenedDies
<1>10. ASSUME NEW i \in Queues, DropClosure(i) \/ DropQueue(i) \/ DropBuffer(i) PROVE Opened'
  <2>1. q[i] \in Queue /\ Fits(q[i])
    BY <1>0 DEF Held
  <2>2. PICK h \in {"program", "group", "map"}, at \in {q[i].at, "gone"} :
          h \in q[i].holders /\ Release(i, h, at)
    BY <1>10 DEF DropClosure, DropQueue, DropBuffer
  <2>3. up # None /\ UNCHANGED toolchain
    BY <1>0, <1>10, <2>1, <2>2 DEF DropClosure, DropQueue, DropBuffer, Fits
  <2>4. \/ Dies
        \/ /\ UNCHANGED <<up, loaded>>
           /\ \E r : Put(i, r) /\ r.device = q[i].device /\ r.lib = q[i].lib
    <3> DEFINE s == [q[i] EXCEPT !.holders = @ \ {h}, !.at = at]
               t == [s EXCEPT !.proc = FALSE, !.ctx = "closed"]
    <3>1. Dies \/ (UNCHANGED <<up, loaded>> /\ (Put(i, s) \/ Put(i, t)))
      BY <2>2 DEF Release
    <3>2. /\ s.device = q[i].device /\ s.lib = q[i].lib
          /\ t.device = q[i].device /\ t.lib = q[i].lib
      BY <2>1 DEF Queue
    <3> HIDE DEF s, t
    <3> QED
      BY <3>1, <3>2
  <2> QED
    BY <2>3, <2>4, OpenedPut, OpenedDies
<1> QED
  BY <1>1, <1>2, <1>3, <1>4, <1>5, <1>6, <1>7, <1>8, <1>9, <1>10 DEF Next, BuildStep

\* The object that a kernel on a device finds is of the kernel's own class.
LEMMA LaunchRight ==
  ASSUME IInv, Opened,
         NEW i \in Queues, q[i].running, NEW j \in DOMAIN kernels(up.src),
         q[i].how = "default", q[i].ctx # "failed", up.device # "host", Current(up)
  PROVE  LET k == kernels(up.src)[j]
         IN  Computes(i, k) = Ran(HostResult(k)) <=> Faithful(k)
<1> DEFINE k == kernels(up.src)[j]
           s == up.src
<1>1. Fits(q[i]) /\ Selected(q[i], up)
  BY DEF IInv, Held
<1>2. q[i].at \in {"ready", "gone"} /\ up # None
  BY <1>1 DEF Fits, Selected
<1>3. up \in Image
  BY <1>2 DEF IInv, Held
<1>4. q[i].device = up.device /\ q[i].device \in {"cpu", "ve"}
  BY <1>1, <1>2, <1>3 DEF Selected, Image
<1>5. q[i].lib # None
  BY <1>1, <1>2, <1>4 DEF Fits
<1>6. HasDevCode(s)
  BY DEF HasDevCode
<1>7. q[i].lib = s
  BY <1>2, <1>4, <1>5, <1>6 DEF Opened
<1>8. s \in Outlined \cap HostCompiles \cap DevCompiles /\ s \in Sources
  BY <1>2, <1>3, <1>6 DEF Opened, Accepted, Image
<1>9. Found(q[i].lib, k) = {j}
  BY <1>7, <1>8 DEF Found, NamesApart, DevCompiles
<1>10. Computes(i, k) = Ran(DeviceResult(k, initialisers(k)))
  BY <1>4, <1>7, <1>9 DEF Computes
<1>11. DeviceResult(k, initialisers(k)) = HostResult(k) <=> Faithful(k)
  <2>1. IsKernel(k) /\ FitsHost(k)
    BY <1>8, KernelsAre DEF HostCompiles, all, kernels
  <2> QED
    BY <2>1, TranslationRight
<1> QED
  BY <1>10, <1>11 DEF Ran

LEMMA ComputedStep ==
  ASSUME IInv, Opened, Computed, [Next]_vars
  PROVE  Computed'
<1>0. builds \in Nat /\ builds' \in Nat /\ builds' >= builds
  BY BuildsGrow
<1>1. CASE outcome' = None
  BY <1>1 DEF Computed, RunsItsSource
<1>2. CASE outcome' = outcome
  <2>1. CASE outcome = None
    BY <1>2, <2>1 DEF Computed, RunsItsSource
  <2>2. CASE outcome # None
    <3>1. outcome.image.builds \in 0..builds /\ outcome.image.builds \in 0..builds'
      BY <1>0, <2>2 DEF Computed
    <3>2. outcome.image.builds = builds' => outcome.image.builds = builds
      BY <1>0, <3>1
    <3> QED
      BY <1>0, <1>2, <2>2, <3>1, <3>2 DEF Computed, RunsItsSource
  <2> QED
    BY <2>1, <2>2
<1>3. ASSUME NEW i \in Queues, Launch(i) PROVE Computed'
  <2>1. PICK j \in DOMAIN kernels(up.src) :
          outcome' = [how |-> q[i].how, ctx |-> q[i].ctx, image |-> up, kernel |-> j,
                      value |-> Computes(i, kernels(up.src)[j])]
    BY <1>3 DEF Launch
  <2>2. q[i].running /\ builds' = builds
    BY <1>3 DEF Launch, toolchain
  <2>3. up # None
    BY <2>2 DEF IInv, Held, Fits, Selected
  <2>4. /\ outcome'.how = q[i].how /\ outcome'.ctx = q[i].ctx /\ outcome'.image = up
        /\ outcome'.kernel = j /\ outcome'.value = Computes(i, kernels(up.src)[j])
    BY <2>1
  <2>5. outcome'.image.builds \in 0..builds'
    BY <1>0, <2>2, <2>3, <2>4 DEF Opened, IInv, Held, Image
  <2>6. RunsItsSource'
    BY <2>2, <2>4, LaunchRight DEF RunsItsSource, Current
  <2> QED
    BY <2>5, <2>6 DEF Computed
<1>4. CASE BuildStep
  BY <1>2, <1>4, BuildFiled DEF IInv, BuildStep, process
<1>5. CASE UNCHANGED vars \/ Start \/ Exit
  BY <1>1, <1>2, <1>5 DEF vars, process, Start, Exit
<1>6. ASSUME NEW i \in Queues, NEW how \in {"default", "cpu_selector", "ve_selector"},
             NewQueue(i, how)
      PROVE  Computed'
  BY <1>2, <1>6 DEF NewQueue
<1>7. ASSUME NEW i \in Queues,
             \/ OpenCpu(i) \/ ProcCreate(i) \/ LoadLibrary(i) \/ ContextOpen(i)
             \/ Submit(i) \/ UseBuffer(i) \/ GroupDone(i)
             \/ DropClosure(i) \/ DropQueue(i) \/ DropBuffer(i)
      PROVE  Computed'
  BY <1>1, <1>2, <1>7 DEF OpenCpu, ProcCreate, LoadLibrary, ContextOpen, Submit, UseBuffer,
     GroupDone, DropClosure, DropQueue, DropBuffer
<1> QED
  BY <1>3, <1>4, <1>5, <1>6, <1>7 DEF Next, BuildStep

\* Whatever is edited, built and run in one directory, in any order, and whatever
\* the kernels: a kernel that a default queue of a process with a current image
\* runs on a device does what its source says exactly if it is a faithful one.
\* The files, libraries and queues of several builds meet here with what kout
\* makes of a kernel.
THEOREM RunsTheirSource == Spec => []RunsItsSource
<1>1. RunInv => RunsItsSource
  BY DEF RunInv, Computed
<1>2. ASSUME IInv, Building, RunInv, [Next]_vars PROVE RunInv'
  BY <1>2, PassedStep, OpenedStep, ComputedStep DEF RunInv
<1>3. Spec => []Building
  BY BuildingInit, BuildingStep, PTL DEF Spec
<1> QED
  BY RunInvInit, IInvHolds, <1>1, <1>2, <1>3, PTL DEF Spec
=============================================================================
