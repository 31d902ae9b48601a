-------------------------------- MODULE Serve --------------------------------
(***************************************************************************)
(* `jev serve` from its start to its port (src/src/main.cpp, serve() in    *)
(* src/src/server.cpp): processes that load the model folder while a       *)
(* thread of theirs hashes it, then bind the port and listen; any of them  *)
(* killed at any time, started again, the folder written to meanwhile.     *)
(*                                                                         *)
(* The content of a file is a version, "none" if the file is missing.  The *)
(* port is Linux's: bind() and listen() refuse it by the options of the    *)
(* sockets, as httplib calls them one after the other.                     *)
(***************************************************************************)
EXTENDS Naturals, Sequences

CONSTANTS Servers, Ports, PortOf,     \* processes and the port of each
          Versions, Installed,        \* of the files, and the one they are of at first
          MaxStarts, MaxWrites        \* bounds: starts and writes to the folder

ASSUME ServeAssumption == /\ PortOf \in [Servers -> Ports]
                          /\ "none" \notin Versions /\ Installed \in Versions
                          /\ MaxStarts \in Nat /\ MaxWrites \in Nat

\* in the order main reads them, and in that of model_files
ReadOrder == <<"model.json", "tokenizer.gguf", "openvino_model.xml", "openvino_model.bin">>
HashOrder == <<"model.json", "openvino_model.bin", "openvino_model.xml", "tokenizer.gguf">>
Files == {ReadOrder[i] : i \in 1..4}
Contents == Versions \union {"none"}
Nothing == [f \in Files |-> "none"]

VARIABLES main,      \* where the main thread is: the file it reads next, or ...
          hash,      \* the file the thread hashes next, or how it ended
          loaded,    \* what the server loaded of each file
          hashes,    \* what it hashed of each
          changed,   \* the files written to since it started
          sock,      \* its socket
          lingering, \* ports with connections in TIME_WAIT
          folder,    \* the model folder
          starts, writes
folderVars == <<folder, writes>>
portVars == <<sock, lingering>>
quiet == <<hash, loaded, hashes, changed, starts, folderVars>>
vars == <<main, hash, loaded, hashes, changed, sock, lingering, folder, starts, writes>>

Places == Files \union {"off", "load", "warm", "hashes", "bind", "listen", "serving", "leaving",
                         "refused"}
\* "off" is not started, ended by an exception or killed.
Ended == {"off", "refused"}
Results == {"none", "done", "failed"}

TypeOK == /\ main \in [Servers -> Places]
          /\ hash \in [Servers -> Files \union Results]
          /\ loaded \in [Servers -> [Files -> Contents]]
          /\ hashes \in [Servers -> [Files -> Contents]]
          /\ changed \in [Servers -> SUBSET Files]
          /\ sock \in [Servers -> {"none", "bound", "listening"}]
          /\ lingering \subseteq Ports
          /\ folder \in [Files -> Contents]
          /\ starts \in 0..MaxStarts /\ writes \in 0..MaxWrites

Init == /\ main = [s \in Servers |-> "off"]
        /\ hash = [s \in Servers |-> "none"]
        /\ loaded = [s \in Servers |-> Nothing]
        /\ hashes = [s \in Servers |-> Nothing]
        /\ changed = [s \in Servers |-> {}]
        /\ sock = [s \in Servers |-> "none"]
        /\ lingering = {}
        /\ folder = [f \in Files |-> Installed]
        /\ starts = 0 /\ writes = 0

-----------------------------------------------------------------------------
(* The main thread *)

Go(s, place) == main' = [main EXCEPT ![s] = place]
\* The process is gone, what it held in memory with it.
End(s, how) == /\ Go(s, how)
               /\ hash' = [hash EXCEPT ![s] = "none"]
               /\ loaded' = [loaded EXCEPT ![s] = Nothing]
               /\ hashes' = [hashes EXCEPT ![s] = Nothing]
               /\ changed' = [changed EXCEPT ![s] = {}]
               /\ UNCHANGED <<starts, folderVars>>

Start(s) == /\ main[s] \in Ended /\ starts < MaxStarts
            /\ starts' = starts + 1
            /\ Go(s, ReadOrder[1])
            /\ UNCHANGED <<hash, loaded, hashes, changed, portVars, folderVars>>

\* What main does besides, when it reads the first file: the thread is started.
Launched(s, i) == IF i = 1 THEN HashOrder[1] ELSE hash[s]
\* A missing file is an exception: before the thread is started it ends the
\* process, later the thread is waited for (the future's destructor).
Read(s, i) ==
  LET f == ReadOrder[i]
  IN /\ main[s] = f
     /\ UNCHANGED portVars
     /\ \/ /\ folder[f] # "none"
           /\ loaded' = [loaded EXCEPT ![s][f] = folder[f]]
           /\ hash' = [hash EXCEPT ![s] = Launched(s, i)]
           /\ Go(s, IF i = 4 THEN "load" ELSE ReadOrder[i + 1])
           /\ UNCHANGED <<hashes, changed, starts, folderVars>>
        \/ folder[f] = "none" /\ i = 1 /\ End(s, "off")
        \/ folder[f] = "none" /\ i # 1 /\ Go(s, "leaving") /\ UNCHANGED quiet

\* The network is compiled, then read once; either may throw.
Load(s) == /\ main[s] = "load"
           /\ Go(s, "warm") \/ Go(s, "leaving")
           /\ UNCHANGED <<quiet, portVars>>
WarmUp(s) == /\ main[s] = "warm"
             /\ Go(s, "hashes") \/ Go(s, "leaving")
             /\ UNCHANGED <<quiet, portVars>>
GoesOn(s) == /\ main[s] = "hashes"
             /\ IF hash[s] = "failed" THEN End(s, "off") ELSE Go(s, "bind") /\ UNCHANGED quiet
             /\ UNCHANGED portVars
\* files.get()
GetHashes(s) == /\ main[s] = "hashes"
                /\ hash[s] \notin Files
                /\ IF hash[s] = "failed" THEN End(s, "off") ELSE Go(s, "bind") /\ UNCHANGED quiet
                /\ UNCHANGED portVars
Leave(s) == /\ main[s] = "leaving"
            /\ hash[s] \notin Files
            /\ End(s, "off")
            /\ UNCHANGED portVars

-----------------------------------------------------------------------------
(* The hashing thread *)

HashFileForgets(s, i) ==
  LET f == HashOrder[i]
  IN /\ hash[s] = f
     /\ folder[f] # "none"
     /\ hashes' = [hashes EXCEPT ![s][f] = folder[f]]
     /\ hash' = [hash EXCEPT ![s] = IF i = 4 THEN "done" ELSE HashOrder[i + 1]]
     /\ UNCHANGED <<main, loaded, changed, starts, portVars, folderVars>>
HashFile(s, i) ==
  LET f == HashOrder[i]
  IN /\ hash[s] = f
     /\ UNCHANGED <<main, loaded, changed, starts, portVars, folderVars>>
     /\ \/ /\ folder[f] # "none"
           /\ hashes' = [hashes EXCEPT ![s][f] = folder[f]]
           /\ hash' = [hash EXCEPT ![s] = IF i = 4 THEN "done" ELSE HashOrder[i + 1]]
        \/ /\ folder[f] = "none"
           /\ hash' = [hash EXCEPT ![s] = "failed"]
           /\ UNCHANGED hashes

-----------------------------------------------------------------------------
(* The port *)

HttplibOptions == [reuseaddr |-> FALSE, reuseport |-> TRUE]
NoOptions == [reuseaddr |-> FALSE, reuseport |-> FALSE]
\* set_socket_options
SocketOptions == [reuseaddr |-> TRUE, reuseport |-> FALSE]

Others(s) == {q \in Servers \ {s} : PortOf[q] = PortOf[s]}
\* Linux: every server sets the same options.
MayBind(s) == /\ \A q \in Others(s) : \/ sock[q] = "none"
                                      \/ SocketOptions.reuseport
                                      \/ SocketOptions.reuseaddr /\ sock[q] = "bound"
              /\ PortOf[s] \in lingering => SocketOptions.reuseaddr \/ SocketOptions.reuseport
MayListen(s) == \A q \in Others(s) : sock[q] # "listening" \/ SocketOptions.reuseport

Bind(s) == /\ main[s] = "bind"
           /\ UNCHANGED lingering
           /\ IF MayBind(s)
              THEN Go(s, "listen") /\ sock' = [sock EXCEPT ![s] = "bound"] /\ UNCHANGED quiet
              ELSE End(s, "refused") /\ UNCHANGED sock
Listen(s) == /\ main[s] = "listen"
             /\ UNCHANGED lingering
             /\ IF MayListen(s)
                THEN Go(s, "serving") /\ sock' = [sock EXCEPT ![s] = "listening"] /\ UNCHANGED quiet
                ELSE End(s, "refused") /\ sock' = [sock EXCEPT ![s] = "none"]

-----------------------------------------------------------------------------
(* The outside *)

\* The process ends, its connections may linger.
Kill(s) == /\ main[s] \notin Ended
           /\ End(s, "off")
           /\ sock' = [sock EXCEPT ![s] = "none"]
           /\ \/ UNCHANGED lingering
              \/ sock[s] = "listening" /\ lingering' = lingering \union {PortOf[s]}
Expire(p) == /\ p \in lingering
             /\ lingering' = lingering \ {p}
             /\ UNCHANGED <<main, sock, quiet>>
Write(f, v) == /\ writes < MaxWrites /\ folder[f] # v
               /\ writes' = writes + 1
               /\ folder' = [folder EXCEPT ![f] = v]
               /\ changed' = [s \in Servers |-> IF main[s] \in Ended THEN changed[s] ELSE changed[s] \union {f}]
               /\ UNCHANGED <<main, hash, loaded, hashes, starts, portVars>>

MainStep(s) == \/ \E i \in 1..4 : Read(s, i)
               \/ Load(s) \/ WarmUp(s) \/ GetHashes(s) \/ Leave(s) \/ Bind(s) \/ Listen(s)
HashStep(s) == \E i \in 1..4 : HashFile(s, i)
Next == \/ \E s \in Servers : Start(s) \/ MainStep(s) \/ HashStep(s) \/ Kill(s)
        \/ \E p \in Ports : Expire(p)
        \/ \E f \in Files, v \in Contents : Write(f, v)

SafeSpec == Init /\ [][Next]_vars
\* A process' threads run.
Spec == SafeSpec /\ \A s \in Servers : WF_vars(MainStep(s)) /\ WF_vars(HashStep(s))

-----------------------------------------------------------------------------
(* Properties *)

\* "One server per port": two processes never listen on one port, however their
\* bind() and listen() interleave (SO_REUSEADDR lets both bind).
OneServerPerPort ==
  \A s, q \in Servers :
    sock[s] = "listening" /\ sock[q] = "listening" /\ PortOf[s] = PortOf[q] => s = q

\* "a restart may take a port still in TIME_WAIT, a running server keeps it": a
\* start is refused the port only while another server listens on it, and nothing
\* but its own end takes it from that one.
PortGoesToOneWhoAsks ==
  [][\A s \in Servers :
       /\ main[s] # "refused" /\ main'[s] = "refused" =>
            \E q \in Others(s) : sock[q] = "listening"
       /\ sock[s] = "listening" /\ sock'[s] # "listening" => main'[s] = "off"]_vars

\* /health reports the hashes of the files the server runs on: of every file not
\* written to since the server started.
HealthTellsLoaded ==
  \A s \in Servers : main[s] = "serving" =>
    \A f \in Files \ changed[s] : hashes[s][f] = loaded[s][f] /\ loaded[s][f] # "none"

\* Every start comes to its port or ends: main waits for the hashing thread where
\* it needs the hashes and where an exception unwinds past the future.
StartEnds == \A s \in Servers : main[s] = ReadOrder[1] ~> main[s] \in Ended \union {"serving"}
=============================================================================
