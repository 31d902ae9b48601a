--------------------------- MODULE CommandsProofs ---------------------------
(***************************************************************************)
(* Theorems about what the program's commands run, each for any constants  *)
(* of its own.                                                             *)
(*                                                                         *)
(* `jev serve` (Serve), for any number of processes, ports, versions,      *)
(* starts and writes: SockInv ties a process's socket to where it is,      *)
(* LoadInv what was read of a file to what is in the folder.               *)
(*                                                                         *)
(* `jev decide` (Decide), for any number of loops over any folder: LoopInv *)
(* ties each file to the process that created it.  A loop owns the file of *)
(* the request it is at from fopen on, never before, and what it left      *)
(* behind stays its own.                                                   *)
(*                                                                         *)
(* The HTTP server (Server, with Wire's checks), for any number of         *)
(* handlers, loads, limits and phrasings, and any bodies that JSON can     *)
(* denote.  WireIs says what check_wire lets through and RequestAgrees     *)
(* that both checks together let through exactly the schema's requests;    *)
(* PromptsAre and AnswersAre, that what the handler takes of the prompts'  *)
(* answers is what it asked; LengthsDecide, that the first text too long   *)
(* is told of.  ServerInv says that at each stage what a handler has kept  *)
(* is the request's.                                                       *)
(***************************************************************************)
EXTENDS Serve, Decide, Server, TreeProofs

-----------------------------------------------------------------------------
(* jev serve *)

\* The order in which a start reads its files.
LEMMA ReadOrderIs == /\ ReadOrder[1] = "model.json" /\ ReadOrder[2] = "tokenizer.gguf"
                     /\ ReadOrder[3] = "openvino_model.xml" /\ ReadOrder[4] = "openvino_model.bin"
BY DEF ReadOrder

\* The order in which the files are hashed.
LEMMA HashOrderIs == /\ HashOrder[1] = "model.json" /\ HashOrder[2] = "openvino_model.bin"
                     /\ HashOrder[3] = "openvino_model.xml" /\ HashOrder[4] = "tokenizer.gguf"
BY DEF HashOrder

\* The files of a model.
LEMMA FilesAre == Files = {"model.json", "tokenizer.gguf", "openvino_model.xml", "openvino_model.bin"}
<1>1. Files = {ReadOrder[i] : i \in {1, 2, 3, 4}}
  <2>1. 1..4 = {1, 2, 3, 4}
    OBVIOUS
  <2> QED BY <2>1, Zenon DEF Files
<1> QED BY <1>1, ReadOrderIs

\* Nothing read is a reading of every file.
LEMMA NothingIsOfFiles == Nothing \in [Files -> Contents]
BY DEF Nothing, Contents

\* Every file is read by main and hashed by the thread.
LEMMA AllFiles == ASSUME NEW f \in Files
                  PROVE  (\E i \in 1..4 : f = ReadOrder[i]) /\ (\E i \in 1..4 : f = HashOrder[i])
<1>1. 1 \in 1..4 /\ 2 \in 1..4 /\ 3 \in 1..4 /\ 4 \in 1..4
  OBVIOUS
<1> QED BY <1>1, FilesAre, ReadOrderIs, HashOrderIs, Zenon

-----------------------------------------------------------------------------
\* A process that ends keeps the types.
LEMMA EndType ==
  ASSUME TypeOK, NEW s \in Servers, NEW how \in Ended, End(s, how)
  PROVE  /\ main' \in [Servers -> Places]
         /\ hash' \in [Servers -> Files \union Results]
         /\ loaded' \in [Servers -> [Files -> Contents]]
         /\ hashes' \in [Servers -> [Files -> Contents]]
         /\ changed' \in [Servers -> SUBSET Files]
         /\ starts' \in 0..MaxStarts
BY NothingIsOfFiles DEF TypeOK, End, Go, Ended, Places, Results, folderVars

\* Every step of serve's start keeps the types.
LEMMA TypeStep == TypeOK /\ [Next]_vars => TypeOK'
<1> SUFFICES ASSUME TypeOK, [Next]_vars PROVE TypeOK'
  OBVIOUS
<1> USE DEF quiet, portVars, folderVars
<1>1. ASSUME NEW s \in Servers, Start(s) PROVE TypeOK'
  <2>1. ReadOrder[1] \in Places /\ starts' \in 0..MaxStarts
    BY <1>1, FilesAre, ReadOrderIs, ServeAssumption DEF Start, TypeOK, Places
  <2> QED BY <1>1, <2>1 DEF Start, TypeOK, Go
<1>2. ASSUME NEW s \in Servers, NEW i \in 1..4, Read(s, i) PROVE TypeOK'
  <2> DEFINE f == ReadOrder[i]
  <2>1. f \in Files /\ (IF i = 4 THEN "load" ELSE ReadOrder[i + 1]) \in Places
    BY FilesAre, ReadOrderIs DEF Places
  <2>2. Launched(s, i) \in Files \union Results
    BY FilesAre, HashOrderIs DEF Launched, TypeOK
  <2> HIDE DEF f
  <2>3. CASE /\ loaded' = [loaded EXCEPT ![s][f] = folder[f]]
             /\ hash' = [hash EXCEPT ![s] = Launched(s, i)]
             /\ Go(s, IF i = 4 THEN "load" ELSE ReadOrder[i + 1])
             /\ UNCHANGED <<hashes, changed, starts, folderVars>>
    BY <1>2, <2>1, <2>2, <2>3 DEF Read, TypeOK, Go
  <2>4. CASE End(s, "off")
    BY <1>2, <2>4, EndType DEF Read, TypeOK, End, Ended
  <2>5. CASE Go(s, "leaving") /\ UNCHANGED quiet
    BY <1>2, <2>5 DEF Read, TypeOK, Go, Places
  <2> QED BY <1>2, <2>3, <2>4, <2>5 DEF Read, f
<1>3. ASSUME NEW s \in Servers, Load(s) \/ WarmUp(s) PROVE TypeOK'
  BY <1>3 DEF Load, WarmUp, TypeOK, Go, Places
<1>4. ASSUME NEW s \in Servers, GetHashes(s) \/ Leave(s) PROVE TypeOK'
  <2>1. CASE End(s, "off")
    BY <1>4, <2>1, EndType DEF GetHashes, Leave, TypeOK, End, Ended
  <2>2. CASE Go(s, "bind") /\ UNCHANGED quiet
    BY <1>4, <2>2 DEF GetHashes, Leave, TypeOK, Go, Places
  <2> QED BY <1>4, <2>1, <2>2 DEF GetHashes, Leave
<1>5. ASSUME NEW s \in Servers, Bind(s) \/ Listen(s) PROVE TypeOK'
  <2>0. sock' \in [Servers -> {"none", "bound", "listening"}] /\ UNCHANGED lingering
    BY <1>5 DEF Bind, Listen, TypeOK
  <2>1. CASE End(s, "refused")
    BY <2>0, <2>1, EndType DEF TypeOK, End, Ended
  <2>2. CASE UNCHANGED quiet
    <3>1. Go(s, "listen") \/ Go(s, "serving") \/ Go(s, "refused")
      BY <1>5 DEF Bind, Listen, End
    <3> QED BY <2>0, <2>2, <3>1 DEF TypeOK, Go, Places
  <2> QED BY <1>5, <2>1, <2>2 DEF Bind, Listen
<1>6. ASSUME NEW s \in Servers, NEW i \in 1..4, HashFile(s, i) PROVE TypeOK'
  <2> DEFINE f == HashOrder[i]
  <2>1. f \in Files /\ (IF i = 4 THEN "done" ELSE HashOrder[i + 1]) \in Files \union Results
    BY FilesAre, HashOrderIs DEF Results
  <2> HIDE DEF f
  <2>2. CASE /\ hashes' = [hashes EXCEPT ![s][f] = folder[f]]
             /\ hash' = [hash EXCEPT ![s] = IF i = 4 THEN "done" ELSE HashOrder[i + 1]]
    BY <1>6, <2>1, <2>2 DEF HashFile, TypeOK
  <2>3. CASE hash' = [hash EXCEPT ![s] = "failed"] /\ UNCHANGED hashes
    BY <1>6, <2>3 DEF HashFile, TypeOK, Results
  <2> QED BY <1>6, <2>2, <2>3 DEF HashFile, f
<1>7. ASSUME NEW s \in Servers, Kill(s) PROVE TypeOK'
  <2>0. PortOf[s] \in Ports
    BY ServeAssumption
  <2>1. lingering' = lingering \/ lingering' = lingering \union {PortOf[s]}
    BY <1>7 DEF Kill
  <2>2. lingering \subseteq Ports
    BY DEF TypeOK
  <2>3. lingering' \subseteq Ports
    BY <2>0, <2>1, <2>2, Zenon
  <2> QED BY <1>7, <2>3, EndType DEF Kill, TypeOK, End, Ended
<1>8. ASSUME NEW p \in Ports, Expire(p) PROVE TypeOK'
  BY <1>8 DEF Expire, TypeOK
<1>9. ASSUME NEW f \in Files, NEW v \in Contents, Write(f, v) PROVE TypeOK'
  BY <1>9, ServeAssumption DEF Write, TypeOK
<1>10. CASE UNCHANGED vars
  BY <1>10 DEF vars, TypeOK
<1> QED
  BY <1>1, <1>2, <1>3, <1>4, <1>5, <1>6, <1>7, <1>8, <1>9, <1>10
  DEF Next, MainStep, HashStep

\* The processes, the port and the folder keep their types; bounds are kept.
THEOREM TypeCorrect == SafeSpec => []TypeOK
<1>1. Init => TypeOK
  BY ServeAssumption, NothingIsOfFiles DEF Init, TypeOK, Places, Results, Contents
<1> QED BY <1>1, TypeStep, PTL DEF SafeSpec

-----------------------------------------------------------------------------
(***************************************************************************)
(* The port.  A process has a socket only from bind() on, and listen()     *)
(* finds nobody listening, whatever was bound meanwhile.                   *)
(***************************************************************************)
SockOf(place) == IF place = "listen" THEN "bound" ELSE IF place = "serving" THEN "listening" ELSE "none"
SockInv == /\ \A s \in Servers : sock[s] = SockOf(main[s])
           /\ OneServerPerPort

\* Who may listen on a port finds nobody listening on it.
LEMMA ListenMeetsNobody ==
  ASSUME NEW s \in Servers, MayListen(s), NEW q \in Servers \ {s}, PortOf[q] = PortOf[s]
  PROVE  sock[q] # "listening"
BY DEF MayListen, Others, SocketOptions

\* Where main goes, and what becomes of the socket, in a step of s.
LEMMA OneMoves ==
  ASSUME TypeOK, NEW s \in Servers, NEW place, main' = [main EXCEPT ![s] = place],
         sock' = [sock EXCEPT ![s] = SockOf(place)], SockInv,
         place = "serving" => \A q \in Servers \ {s} : PortOf[q] = PortOf[s] => sock[q] # "listening"
  PROVE  SockInv'
<1>1. \A q \in Servers : sock'[q] = SockOf(main'[q])
  BY DEF TypeOK, SockInv
<1>2. OneServerPerPort'
  <2> SUFFICES ASSUME NEW p \in Servers, NEW q \in Servers, sock'[p] = "listening",
                      sock'[q] = "listening", PortOf[p] = PortOf[q]
               PROVE  p = q
    BY DEF OneServerPerPort
  <2>1. CASE p # s /\ q # s
    BY <2>1 DEF TypeOK, SockInv, OneServerPerPort
  <2>2. CASE p = s \/ q = s
    <3>1. place = "serving"
      BY <2>2 DEF TypeOK, SockOf
    <3> QED BY <2>2, <3>1 DEF TypeOK
  <2> QED BY <2>1, <2>2
<1> QED BY <1>1, <1>2 DEF SockInv

\* A step that opens and closes no socket, from where there was none.
LEMMA NoneMoves ==
  ASSUME TypeOK, NEW s \in Servers, NEW place, SockOf(place) = "none", SockOf(main[s]) = "none",
         main' = [main EXCEPT ![s] = place], UNCHANGED sock, SockInv
  PROVE  SockInv'
<1>1. sock' = [sock EXCEPT ![s] = SockOf(place)]
  BY DEF TypeOK, SockInv
<1>2. place # "serving"
  BY DEF SockOf
<1> QED BY <1>1, <1>2, OneMoves

\* Every step keeps the sockets' invariant.
LEMMA SockStep == TypeOK /\ SockInv /\ [Next]_vars => SockInv'
<1> SUFFICES ASSUME TypeOK, SockInv, [Next]_vars PROVE SockInv'
  OBVIOUS
<1> USE DEF quiet, portVars
<1>1. ASSUME NEW s \in Servers, Start(s) PROVE SockInv'
  <2>1. SockOf(ReadOrder[1]) = "none" /\ SockOf(main[s]) = "none"
    BY <1>1, ReadOrderIs DEF Start, Ended, SockOf
  <2> QED BY <1>1, <2>1, NoneMoves DEF Start, Go
<1>2. ASSUME NEW s \in Servers, NEW i \in 1..4, Read(s, i) PROVE SockInv'
  <2>1. SockOf(main[s]) = "none"
    BY <1>2, ReadOrderIs DEF Read, SockOf
  <2>2. \E place : /\ SockOf(place) = "none" /\ main' = [main EXCEPT ![s] = place]
    <3>1. i # 4 => SockOf(ReadOrder[i + 1]) = "none"
      BY ReadOrderIs DEF SockOf
    <3>2. SockOf("load") = "none" /\ SockOf("off") = "none" /\ SockOf("leaving") = "none"
      BY DEF SockOf
    <3> QED BY <1>2, <3>1, <3>2 DEF Read, Go, End
  <2> QED BY <1>2, <2>1, <2>2, NoneMoves DEF Read
<1>3. ASSUME NEW s \in Servers, Load(s) \/ WarmUp(s) \/ GetHashes(s) \/ Leave(s) PROVE SockInv'
  <2>1. SockOf(main[s]) = "none" /\ UNCHANGED sock
    BY <1>3 DEF Load, WarmUp, GetHashes, Leave, SockOf
  <2>2. \E place : /\ SockOf(place) = "none" /\ main' = [main EXCEPT ![s] = place]
    <3>1. /\ SockOf("warm") = "none" /\ SockOf("hashes") = "none" /\ SockOf("leaving") = "none"
          /\ SockOf("off") = "none" /\ SockOf("bind") = "none"
      BY DEF SockOf
    <3> QED BY <1>3, <3>1 DEF Load, WarmUp, GetHashes, Leave, Go, End
  <2> QED BY <2>1, <2>2, NoneMoves
<1>4. ASSUME NEW s \in Servers, Bind(s) PROVE SockInv'
  <2>1. CASE MayBind(s)
    <3>1. SockOf("listen") = "bound"
      BY DEF SockOf
    <3> QED BY <1>4, <2>1, <3>1, OneMoves DEF Bind, Go
  <2>2. CASE ~MayBind(s)
    <3>1. SockOf("refused") = "none" /\ SockOf(main[s]) = "none"
      BY <1>4 DEF Bind, SockOf
    <3> QED BY <1>4, <2>2, <3>1, NoneMoves DEF Bind, End, Go
  <2> QED BY <2>1, <2>2
<1>5. ASSUME NEW s \in Servers, Listen(s) PROVE SockInv'
  <2>1. CASE MayListen(s)
    <3>1. SockOf("serving") = "listening"
      BY DEF SockOf
    <3>2. \A q \in Servers \ {s} : PortOf[q] = PortOf[s] => sock[q] # "listening"
      BY <2>1, ListenMeetsNobody
    <3> QED BY <1>5, <2>1, <3>1, <3>2, OneMoves DEF Listen, Go
  <2>2. CASE ~MayListen(s)
    <3>1. SockOf("refused") = "none"
      BY DEF SockOf
    <3> QED BY <1>5, <2>2, <3>1, OneMoves DEF Listen, End, Go
  <2> QED BY <2>1, <2>2
<1>6. ASSUME NEW s \in Servers, Kill(s) PROVE SockInv'
  <2>1. SockOf("off") = "none"
    BY DEF SockOf
  <2> QED BY <1>6, <2>1, OneMoves DEF Kill, End, Go
<1>7. CASE UNCHANGED <<main, sock>>
  BY <1>7 DEF SockInv, OneServerPerPort
<1> QED
  BY <1>1, <1>2, <1>3, <1>4, <1>5, <1>6, <1>7
  DEF Next, MainStep, HashStep, HashFile, Expire, Write, vars

\* The sockets' invariant holds of every state.
LEMMA SockInvariant == SafeSpec => []SockInv
<1>1. Init => SockInv
  BY DEF Init, SockInv, SockOf, OneServerPerPort
<1> QED BY <1>1, SockStep, TypeCorrect, PTL DEF SafeSpec

\* Two processes never listen on one port, though both may have bound it.
THEOREM PortsAreServedOnce == SafeSpec => []OneServerPerPort
<1>1. SockInv => OneServerPerPort
  BY DEF SockInv
<1> QED BY <1>1, SockInvariant, PTL

\* Only bind() and listen() refuse a port.
LEMMA RefusedByThePort ==
  ASSUME TypeOK, [Next]_vars, NEW s \in Servers, main[s] # "refused", main'[s] = "refused"
  PROVE  (Bind(s) /\ ~MayBind(s)) \/ (Listen(s) /\ ~MayListen(s))
<1> USE DEF TypeOK, Go, End
<1>1. ASSUME NEW q \in Servers, Start(q) PROVE FALSE
  BY <1>1, ReadOrderIs DEF Start
<1>2. ASSUME NEW q \in Servers, NEW i \in 1..4, Read(q, i) PROVE FALSE
  <2>1. (IF i = 4 THEN "load" ELSE ReadOrder[i + 1]) # "refused"
    BY ReadOrderIs
  <2> QED BY <1>2, <2>1 DEF Read
<1>3. ASSUME NEW q \in Servers, Load(q) \/ WarmUp(q) \/ GetHashes(q) \/ Leave(q) \/ Kill(q) PROVE FALSE
  BY <1>3 DEF Load, WarmUp, GetHashes, Leave, Kill
<1>4. ASSUME NEW q \in Servers, Bind(q) \/ Listen(q)
      PROVE  (Bind(s) /\ ~MayBind(s)) \/ (Listen(s) /\ ~MayListen(s))
  <2>1. q = s
    BY <1>4 DEF Bind, Listen
  <2>2. CASE (Bind(s) /\ MayBind(s)) \/ (Listen(s) /\ MayListen(s))
    BY <2>2 DEF Bind, Listen
  <2> QED BY <1>4, <2>1, <2>2
<1>5. CASE UNCHANGED main
  BY <1>5
<1> QED
  BY <1>1, <1>2, <1>3, <1>4, <1>5 DEF Next, MainStep, HashStep, HashFile, Expire, Write, vars

\* Only its end takes the port from a server.
LEMMA ClosedByItsEnd ==
  ASSUME TypeOK, SockInv, [Next]_vars, NEW s \in Servers, sock[s] = "listening", sock'[s] # "listening"
  PROVE  main'[s] = "off"
<1>1. main[s] = "serving"
  BY DEF SockInv, SockOf
<1>2. ASSUME NEW q \in Servers, Bind(q) \/ Listen(q) PROVE FALSE
  BY <1>1, <1>2 DEF Bind, Listen, TypeOK
<1>3. ASSUME NEW q \in Servers, Kill(q) PROVE main'[s] = "off"
  BY <1>3 DEF Kill, End, Go, TypeOK
<1> QED
  BY <1>2, <1>3 DEF Next, MainStep, HashStep, Start, Read, Load, WarmUp, GetHashes, Leave, HashFile,
                    Expire, Write, vars, portVars, quiet

\* A start is refused the port only while another server listens on it, and a
\* listening server loses it only by its own end.
THEOREM PortIsFreeOrServed == SafeSpec => PortGoesToOneWhoAsks
<1> DEFINE Right(s) == /\ main[s] # "refused" /\ main'[s] = "refused" =>
                            \E q \in Others(s) : sock[q] = "listening"
                       /\ sock[s] = "listening" /\ sock'[s] # "listening" => main'[s] = "off"
<1>1. ASSUME TypeOK, SockInv, [Next]_vars, NEW s \in Servers, main[s] # "refused", main'[s] = "refused"
      PROVE  \E q \in Others(s) : sock[q] = "listening"
  <2>1. ~MayBind(s) \/ ~MayListen(s)
    BY <1>1, RefusedByThePort
  <2>2. \E q \in Others(s) : sock[q] # "none" /\ sock[q] # "bound"
    BY <2>1 DEF MayBind, MayListen, SocketOptions
  <2> QED BY <1>1, <2>2 DEF TypeOK, Others
<1>2. TypeOK /\ SockInv /\ [Next]_vars => [\A s \in Servers : Right(s)]_vars
  BY <1>1, ClosedByItsEnd
<1> QED BY <1>2, SockInvariant, TypeCorrect, PTL DEF SafeSpec, PortGoesToOneWhoAsks

-----------------------------------------------------------------------------
(***************************************************************************)
(* /health.  What a server has loaded and hashed is what the folder holds, *)
(* but for the files written to since; main is past a file once it has     *)
(* loaded it, the thread once it has hashed it, and main is past the       *)
(* hashes only when the thread is done.                                    *)
(***************************************************************************)
Running(s) == main[s] \notin Ended

OfTheFolder(got) == \A s \in Servers : \A f \in Files \ changed[s] : got[s][f] \in {"none", folder[f]}

UnreadFile(s) == IF main[s] \in {"off", "refused", "leaving"} THEN 1..4
             ELSE {i \in 1..4 : \E j \in 1..i : main[s] = ReadOrder[j]}
Unhashed(s) == IF hash[s] \in {"none", "failed"} THEN 1..4
               ELSE {i \in 1..4 : \E j \in 1..i : hash[s] = HashOrder[j]}

LoadInv ==
  /\ OfTheFolder(loaded) /\ OfTheFolder(hashes)
  /\ \A s \in Servers :
       /\ ~Running(s) => hash[s] = "none" /\ loaded[s] = Nothing /\ hashes[s] = Nothing
       /\ Running(s) /\ main[s] # ReadOrder[1] => hash[s] # "none"
       /\ main[s] \in {"bind", "listen", "serving"} => hash[s] = "done"
       /\ \A i \in 1..4 : loaded[s][ReadOrder[i]] # "none" \/ i \in UnreadFile(s)
       /\ \A i \in 1..4 : hashes[s][HashOrder[i]] # "none" \/ i \in Unhashed(s)

\* A process that ends leaves nothing of it in memory.
LEMMA EndLoads ==
  ASSUME TypeOK, LoadInv, NEW s \in Servers, NEW how \in Ended, End(s, how)
  PROVE  LoadInv'
<1>1. /\ main' = [main EXCEPT ![s] = how] /\ hash' = [hash EXCEPT ![s] = "none"]
      /\ loaded' = [loaded EXCEPT ![s] = Nothing] /\ hashes' = [hashes EXCEPT ![s] = Nothing]
      /\ changed' = [changed EXCEPT ![s] = {}] /\ folder' = folder
  BY DEF End, Go, folderVars
<1>2. \A f \in Files : Nothing[f] = "none"
  BY DEF Nothing
<1>3. OfTheFolder(loaded)' /\ OfTheFolder(hashes)'
  BY <1>1, <1>2 DEF OfTheFolder, LoadInv, TypeOK
<1>4. /\ main'[s] = how /\ hash'[s] = "none" /\ loaded'[s] = Nothing /\ hashes'[s] = Nothing
      /\ \A q \in Servers \ {s} : /\ main'[q] = main[q] /\ hash'[q] = hash[q]
                                  /\ loaded'[q] = loaded[q] /\ hashes'[q] = hashes[q]
  BY <1>1 DEF TypeOK
<1>5. how \notin {"bind", "listen", "serving"} /\ UnreadFile(s)' = 1..4 /\ Unhashed(s)' = 1..4
  BY <1>4 DEF UnreadFile, Unhashed, Ended
<1> QED BY <1>3, <1>4, <1>5 DEF LoadInv, Running, Ended, UnreadFile, Unhashed

\* main goes from a place past the files to another one, or leaves.
LEMMA PlaceMoves ==
  ASSUME TypeOK, LoadInv, NEW s \in Servers, NEW place, main' = [main EXCEPT ![s] = place],
         UNCHANGED <<hash, loaded, hashes, changed, folder>>,
         main[s] \notin Ended, main[s] # ReadOrder[1], place \notin Ended, 
         place = "leaving" \/ (UnreadFile(s) = {} /\ place \notin Files),
         place \in {"bind", "listen", "serving"} => hash[s] = "done"
  PROVE  LoadInv'
<1>1. OfTheFolder(loaded)' /\ OfTheFolder(hashes)'
  BY DEF OfTheFolder, LoadInv
<1>2. /\ main'[s] = place
      /\ \A q \in Servers \ {s} : main'[q] = main[q]
  BY DEF TypeOK
<1>3. UnreadFile(s) \subseteq UnreadFile(s)'
  BY <1>2 DEF UnreadFile
<1> QED BY <1>1, <1>2, <1>3 DEF LoadInv, Running, UnreadFile, Unhashed

\* Reading a file keeps the invariant of what is loaded.
LEMMA ReadLoads ==
  ASSUME TypeOK, LoadInv, NEW s \in Servers, NEW i \in 1..4, Read(s, i)
  PROVE  LoadInv'
<1> DEFINE f == ReadOrder[i]
<1>0. f \in Files /\ Files = {ReadOrder[j] : j \in 1..4} /\ f \notin Ended \union {"leaving"}
  BY FilesAre, ReadOrderIs DEF Files, Ended
<1>1. CASE /\ folder[f] # "none"
           /\ loaded' = [loaded EXCEPT ![s][f] = folder[f]]
           /\ hash' = [hash EXCEPT ![s] = Launched(s, i)]
           /\ Go(s, IF i = 4 THEN "load" ELSE ReadOrder[i + 1])
           /\ UNCHANGED <<hashes, changed, starts, folderVars>>
  <2> DEFINE place == IF i = 4 THEN "load" ELSE ReadOrder[i + 1]
  <2>1. /\ main[s] = f /\ main'[s] = place /\ hash'[s] = Launched(s, i)
        /\ \A q \in Servers \ {s} : main'[q] = main[q] /\ hash'[q] = hash[q] /\ loaded'[q] = loaded[q]
        /\ UNCHANGED <<hashes, changed, folder>>
    BY <1>1 DEF Read, Go, TypeOK, folderVars
  <2>2. /\ loaded'[s][f] = folder[f]
        /\ \A g \in Files \ {f} : loaded'[s][g] = loaded[s][g]
    BY <1>0, <1>1 DEF TypeOK
  <2>3. OfTheFolder(loaded)' /\ OfTheFolder(hashes)'
    BY <2>1, <2>2 DEF OfTheFolder, LoadInv
  <2>4. place \notin Ended \union {"leaving", "bind", "listen", "serving", ReadOrder[1]}
    BY ReadOrderIs DEF Ended
  <2>5. \A j \in 1..4 : j \in UnreadFile(s) => j = i \/ j \in UnreadFile(s)'
    BY <2>1, ReadOrderIs DEF UnreadFile, Ended
  <2>6. hash'[s] # "none" /\ \A j \in 1..4 : j \in Unhashed(s) => j \in Unhashed(s)'
    <3>1. CASE i = 1
      <4>1. hash'[s] = HashOrder[1] /\ HashOrder[1] \notin {"none", "failed"}
        BY <2>1, <3>1, HashOrderIs DEF Launched
      <4>2. \A j \in 1..4 : 1 \in 1..j
        OBVIOUS
      <4> QED BY <4>1, <4>2 DEF Unhashed
    <3>2. CASE i # 1
      <4>1. main[s] # ReadOrder[1] /\ main[s] \notin Ended
        BY <2>1, <3>2, ReadOrderIs DEF Ended
      <4>2. hash'[s] = hash[s] /\ hash[s] # "none"
        BY <2>1, <3>2, <4>1 DEF Launched, LoadInv, Running
      <4> QED BY <4>2 DEF Unhashed
    <3> QED BY <3>1, <3>2
  <2>7. \A j \in 1..4 : loaded'[s][ReadOrder[j]] # "none" \/ j \in UnreadFile(s)'
    <3> SUFFICES ASSUME NEW j \in 1..4, j \notin UnreadFile(s)' PROVE loaded'[s][ReadOrder[j]] # "none"
      OBVIOUS
    <3>1. CASE j = i
      BY <1>1, <2>2, <3>1
    <3>2. CASE j # i
      <4>1. loaded[s][ReadOrder[j]] # "none"
        BY <2>5, <3>2 DEF LoadInv
      <4>2. ReadOrder[j] \in Files /\ ReadOrder[j] # f
        BY <3>2, FilesAre, ReadOrderIs
      <4> QED BY <2>2, <4>1, <4>2
    <3> QED BY <3>1, <3>2
  <2>8. \A j \in 1..4 : hashes'[s][HashOrder[j]] # "none" \/ j \in Unhashed(s)'
    BY <2>1, <2>6 DEF LoadInv
  <2> HIDE DEF f, place
  <2>9. /\ ~Running(s)' => hash'[s] = "none" /\ loaded'[s] = Nothing /\ hashes'[s] = Nothing
        /\ Running(s)' /\ main'[s] # ReadOrder[1] => hash'[s] # "none"
        /\ main'[s] \in {"bind", "listen", "serving"} => hash'[s] = "done"
    BY <2>1, <2>4, <2>6 DEF Running
  <2>10. ASSUME NEW q \in Servers \ {s}
         PROVE /\ ~Running(q)' => hash'[q] = "none" /\ loaded'[q] = Nothing /\ hashes'[q] = Nothing
               /\ Running(q)' /\ main'[q] # ReadOrder[1] => hash'[q] # "none"
               /\ main'[q] \in {"bind", "listen", "serving"} => hash'[q] = "done"
               /\ \A j \in 1..4 : loaded'[q][ReadOrder[j]] # "none" \/ j \in UnreadFile(q)'
               /\ \A j \in 1..4 : hashes'[q][HashOrder[j]] # "none" \/ j \in Unhashed(q)'
    BY <2>1 DEF LoadInv, Running, UnreadFile, Unhashed
  <2> QED BY <2>3, <2>7, <2>8, <2>9, <2>10 DEF LoadInv
<1>2. CASE End(s, "off")
  BY <1>2, EndLoads DEF Ended
<1>3. CASE i # 1 /\ Go(s, "leaving") /\ UNCHANGED quiet
  <2>1. main[s] \notin Ended /\ main[s] # ReadOrder[1]
    BY <1>0, <1>3, ReadOrderIs DEF Read
  <2> QED BY <1>3, <2>1, PlaceMoves DEF Go, quiet, folderVars, Ended
<1> QED BY <1>1, <1>2, <1>3 DEF Read

\* Hashing a file keeps the invariant of what is hashed.
LEMMA HashLoads ==
  ASSUME TypeOK, LoadInv, NEW s \in Servers, NEW i \in 1..4, HashFile(s, i)
  PROVE  LoadInv'
<1> DEFINE f == HashOrder[i]
<1>0. f \in Files /\ f \notin Results
  BY FilesAre, HashOrderIs DEF Results
<1>1. /\ UNCHANGED <<main, loaded, changed, folder>> /\ hash[s] = f /\ hash'[s] # "none"
      /\ \A q \in Servers \ {s} : hash'[q] = hash[q] /\ hashes'[q] = hashes[q]
      /\ \A g \in Files \ {f} : hashes'[s][g] = hashes[s][g]
      /\ hashes'[s][f] \in {hashes[s][f], folder[f]}
  <2>1. (IF i = 4 THEN "done" ELSE HashOrder[i + 1]) # "none"
    BY HashOrderIs
  <2> HIDE DEF f
  <2> QED BY <1>0, <2>1 DEF HashFile, TypeOK, folderVars, f
<1>2. OfTheFolder(loaded)' /\ OfTheFolder(hashes)'
  BY <1>1 DEF OfTheFolder, LoadInv
<1>3. \A j \in 1..4 : hashes'[s][HashOrder[j]] # "none" \/ j \in Unhashed(s)'
  <2> SUFFICES ASSUME NEW j \in 1..4, j \notin Unhashed(s)' PROVE hashes'[s][HashOrder[j]] # "none"
    OBVIOUS
  <2>1. /\ folder[f] # "none" /\ hashes' = [hashes EXCEPT ![s][f] = folder[f]]
        /\ hash'[s] = IF i = 4 THEN "done" ELSE HashOrder[i + 1]
    BY <1>0 DEF HashFile, TypeOK, Unhashed
  <2>2. CASE j = i
    BY <1>0, <2>1, <2>2 DEF TypeOK
  <2>3. CASE j # i
    <3>1. j \notin Unhashed(s)
      BY <1>1, <2>1, <2>3, HashOrderIs DEF Unhashed
    <3>2. HashOrder[j] \in Files /\ HashOrder[j] # f
      BY <2>3, FilesAre, HashOrderIs
    <3> QED BY <1>1, <3>1, <3>2 DEF LoadInv
  <2> QED BY <2>2, <2>3
<1>4. /\ ~Running(s)' => hash'[s] = "none" /\ loaded'[s] = Nothing /\ hashes'[s] = Nothing
      /\ main'[s] \in {"bind", "listen", "serving"} => hash'[s] = "done"
  BY <1>0, <1>1 DEF LoadInv, Running, Results
<1> HIDE DEF f
<1>5. ASSUME NEW q \in Servers \ {s}
      PROVE /\ ~Running(q)' => hash'[q] = "none" /\ loaded'[q] = Nothing /\ hashes'[q] = Nothing
            /\ Running(q)' /\ main'[q] # ReadOrder[1] => hash'[q] # "none"
            /\ main'[q] \in {"bind", "listen", "serving"} => hash'[q] = "done"
            /\ \A j \in 1..4 : loaded'[q][ReadOrder[j]] # "none" \/ j \in UnreadFile(q)'
            /\ \A j \in 1..4 : hashes'[q][HashOrder[j]] # "none" \/ j \in Unhashed(q)'
  BY <1>1 DEF LoadInv, Running, UnreadFile, Unhashed
<1>6. \A j \in 1..4 : loaded'[s][ReadOrder[j]] # "none" \/ j \in UnreadFile(s)'
  BY <1>1 DEF LoadInv, UnreadFile
<1> QED BY <1>1, <1>2, <1>3, <1>4, <1>5, <1>6 DEF LoadInv

\* Every step keeps the invariant of what is loaded and hashed.
LEMMA LoadStep == TypeOK /\ LoadInv /\ [Next]_vars => LoadInv'
<1> SUFFICES ASSUME TypeOK, LoadInv, [Next]_vars PROVE LoadInv'
  OBVIOUS
<1>1. ASSUME NEW s \in Servers, Start(s) PROVE LoadInv'
  <2>1. /\ main'[s] = ReadOrder[1] /\ ReadOrder[1] \notin Ended \union {"leaving", "bind", "listen", "serving"}
        /\ \A q \in Servers \ {s} : main'[q] = main[q]
        /\ UNCHANGED <<hash, loaded, hashes, changed, folder>>
    BY <1>1, ReadOrderIs DEF Start, Go, TypeOK, Ended, folderVars
  <2>2. OfTheFolder(loaded)' /\ OfTheFolder(hashes)'
    BY <2>1 DEF OfTheFolder, LoadInv
  <2>3. UnreadFile(s)' = 1..4
    <3>1. \A j \in 1..4 : 1 \in 1..j
      OBVIOUS
    <3> QED BY <2>1, <3>1 DEF UnreadFile
  <2> QED BY <2>1, <2>2, <2>3 DEF LoadInv, Running, UnreadFile, Unhashed
<1>2. ASSUME NEW s \in Servers, NEW i \in 1..4, Read(s, i) PROVE LoadInv'
  BY <1>2, ReadLoads
<1>3. ASSUME NEW s \in Servers, NEW i \in 1..4, HashFile(s, i) PROVE LoadInv'
  BY <1>3, HashLoads
<1>4. ASSUME NEW s \in Servers, NEW how \in Ended, End(s, how) PROVE LoadInv'
  BY <1>4, EndLoads
<1>5. ASSUME NEW s \in Servers, main[s] \in {"load", "warm", "hashes", "bind", "listen"},
             NEW place \in {"warm", "hashes", "leaving", "bind", "listen", "serving"}, Go(s, place), UNCHANGED quiet,
             place \in {"bind", "listen", "serving"} => hash[s] = "done"
      PROVE  LoadInv'
  <2>1. UnreadFile(s) = {} /\ main[s] \notin Ended /\ main[s] # ReadOrder[1] /\ place \notin Ended /\ place \notin Files
    BY <1>5, ReadOrderIs, FilesAre DEF UnreadFile, Ended
  <2> QED BY <1>5, <2>1, PlaceMoves DEF Go, quiet, folderVars
<1>6. ASSUME NEW s \in Servers, Load(s) \/ WarmUp(s) PROVE LoadInv'
  BY <1>5, <1>6 DEF Load, WarmUp
<1>7. ASSUME NEW s \in Servers, GetHashes(s) \/ Leave(s) PROVE LoadInv'
  <2>1. CASE End(s, "off")
    BY <1>4, <2>1 DEF Ended
  <2>2. CASE GetHashes(s) /\ Go(s, "bind") /\ UNCHANGED quiet /\ hash[s] # "failed"
    <3>1. hash[s] = "done"
      BY <2>2, ReadOrderIs DEF GetHashes, LoadInv, Running, Ended, TypeOK, Results
    <3> QED BY <1>5, <2>2, <3>1 DEF GetHashes
  <2> QED BY <1>7, <2>1, <2>2 DEF GetHashes, Leave
<1>8. ASSUME NEW s \in Servers, Bind(s) \/ Listen(s) PROVE LoadInv'
  <2>1. CASE End(s, "refused")
    BY <1>4, <2>1 DEF Ended
  <2>2. hash[s] = "done"
    BY <1>8 DEF Bind, Listen, LoadInv
  <2> QED BY <1>5, <1>8, <2>1, <2>2 DEF Bind, Listen
<1>9. ASSUME NEW s \in Servers, Kill(s) PROVE LoadInv'
  BY <1>4, <1>9 DEF Kill, Ended
<1>10. ASSUME NEW f \in Files, NEW v \in Contents, Write(f, v) PROVE LoadInv'
  <2>1. /\ UNCHANGED <<main, hash, loaded, hashes>>
        /\ \A g \in Files \ {f} : folder'[g] = folder[g]
        /\ \A s \in Servers : IF main[s] \in Ended THEN changed'[s] = changed[s]
                                                   ELSE changed'[s] = changed[s] \union {f}
    BY <1>10 DEF Write, TypeOK
  <2>2. ASSUME NEW s \in Servers, NEW g \in Files \ changed'[s]
        PROVE  loaded'[s][g] \in {"none", folder'[g]} /\ hashes'[s][g] \in {"none", folder'[g]}
    <3>1. CASE main[s] \in Ended
      BY <2>1, <3>1 DEF LoadInv, Running, Nothing
    <3>2. CASE main[s] \notin Ended
      BY <2>1, <3>2 DEF LoadInv, OfTheFolder
    <3> QED BY <3>1, <3>2
  <2> QED BY <2>1, <2>2 DEF LoadInv, OfTheFolder, Running, UnreadFile, Unhashed
<1>11. CASE UNCHANGED <<main, hash, loaded, hashes, changed, folder>>
  BY <1>11 DEF LoadInv, OfTheFolder, Running, UnreadFile, Unhashed
<1> QED
  BY <1>1, <1>2, <1>3, <1>6, <1>7, <1>8, <1>9, <1>10, <1>11
  DEF Next, MainStep, HashStep, Expire, quiet, folderVars, vars

\* The invariant of what is loaded and hashed holds of every state.
LEMMA LoadInvariant == SafeSpec => []LoadInv
<1>1. Init => LoadInv
  <2>1. 1..4 \subseteq 1..4 /\ \A f \in Files : Nothing[f] = "none"
    BY DEF Nothing
  <2> QED BY <2>1 DEF Init, LoadInv, OfTheFolder, Running, Ended, UnreadFile, Unhashed
<1> QED BY <1>1, LoadStep, TypeCorrect, PTL DEF SafeSpec

\* /health reports the hashes of the files the server runs on, unless they were
\* written to after it started.
THEOREM HealthIsOfTheLoaded == SafeSpec => []HealthTellsLoaded
<1>1. ASSUME LoadInv PROVE HealthTellsLoaded
  <2> SUFFICES ASSUME NEW s \in Servers, main[s] = "serving", NEW f \in Files \ changed[s]
               PROVE  hashes[s][f] = loaded[s][f] /\ loaded[s][f] # "none"
    BY DEF HealthTellsLoaded
  <2>1. UnreadFile(s) = {} /\ Unhashed(s) = {}
    BY <1>1, ReadOrderIs, HashOrderIs DEF UnreadFile, Unhashed, LoadInv
  <2>2. loaded[s][f] # "none" /\ hashes[s][f] # "none"
    BY <1>1, <2>1, AllFiles DEF LoadInv
  <2> QED BY <1>1, <2>2 DEF LoadInv, OfTheFolder
<1> QED BY <1>1, LoadInvariant, PTL

-----------------------------------------------------------------------------
(* jev decide *)

Ids == DOMAIN Requests
AnswerFiles == [by : SUBSET Loops, holds : {"nothing", "part", "whole"}]
Statuses == {"not run", "skipped", "answered", "failed", "killed"}
Owns(l) == pc[l] \in {"write", "close"}

LoopTypes ==
  /\ at \in [Loops -> Nat]
  /\ pc \in [Loops -> {"test", "read", "answer", "open", "write", "close"}]
  /\ file \in [Ids -> AnswerFiles]
  /\ status \in [Loops -> [Ids -> Statuses]]
  /\ full \in BOOLEAN

OneWriter == \A r \in Ids : file[r] = Absent \/ \E l \in Loops : file[r].by = {l}
OwnersHold == \A l \in Loops : at[l] \in Ids /\ Owns(l) => file[at[l]].by = {l}
NotYetRun == \A l \in Loops, r \in Ids : r >= at[l] => status[l][r] = "not run"
WrittenInTurn == \A l \in Loops, r \in Ids :
                   file[r].by = {l} => r < at[l] \/ (r = at[l] /\ Owns(l))
FileInv == OneWriter /\ OwnersHold /\ NotYetRun /\ WrittenInTurn

LoopInv == LoopTypes /\ FileInv /\ StatusTellsAnswers

\* The requests of a file are numbered from one.
LEMMA IdsAre == Len(Requests) \in Nat /\ Ids = 1..Len(Requests) /\ Ids \subseteq Nat
BY RequestsAssumption DEF Ids

\* The few facts about order that the loops need.
LEMMA Ordered ==
  \A a, b \in Nat : /\ a >= a /\ ~(a < a)
                    /\ a >= b + 1 => a >= b /\ a # b
                    /\ a < b \/ a = b => a < b + 1
OBVIOUS

\* A loop goes on to its next request without touching the files, or moves
\* within its process.
LEMMA ExitType ==
  ASSUME LoopTypes, NEW l \in Loops, at[l] \in Ids,
         NEW how \in Statuses, Exit(l, how)
  PROVE  /\ at' \in [Loops -> Nat] /\ full' \in BOOLEAN
         /\ pc' \in [Loops -> {"test", "read", "answer", "open", "write", "close"}]
         /\ status' \in [Loops -> [Ids -> Statuses]]
         /\ at'[l] = at[l] + 1 /\ pc'[l] = "test" /\ status'[l][at[l]] = how
         /\ \A r \in Ids \ {at[l]} : status'[l][r] = status[l][r]
         /\ \A q \in Loops \ {l} : at'[q] = at[q] /\ pc'[q] = pc[q] /\ status'[q] = status[q]
<1>1. at' = [at EXCEPT ![l] = at[l] + 1] /\ pc' = [pc EXCEPT ![l] = "test"] /\ full' = full
  BY DEF Exit, LoopTypes
<1>2. at[l] + 1 \in Nat
  BY DEF LoopTypes
<1>3. status' = [status EXCEPT ![l] = [status[l] EXCEPT ![at[l]] = how]]
  BY DEF Exit, LoopTypes
<1>4. /\ [status[l] EXCEPT ![at[l]] = how] \in [Ids -> Statuses]
      /\ [status[l] EXCEPT ![at[l]] = how][at[l]] = how
      /\ \A r \in Ids \ {at[l]} : [status[l] EXCEPT ![at[l]] = how][r] = status[l][r]
  BY DEF LoopTypes
<1>5. /\ status' \in [Loops -> [Ids -> Statuses]]
      /\ status'[l] = [status[l] EXCEPT ![at[l]] = how]
      /\ \A q \in Loops \ {l} : status'[q] = status[q]
  BY <1>3, <1>4 DEF LoopTypes
<1> QED BY <1>1, <1>2, <1>4, <1>5 DEF LoopTypes

\* A process that ends with `how` keeps the invariant, if its file is as the
\* exit status says.
LEMMA Exits ==
  ASSUME LoopInv, NEW l \in Loops, at[l] \in Ids,
         NEW how \in Statuses, how # "not run", Exit(l, how),
         file' \in [Ids -> AnswerFiles],
         \A r \in Ids \ {at[l]} : file'[r] = file[r],
         file'[at[l]].by = file[at[l]].by, file'[at[l]] = file[at[l]] \/ Owns(l),
         how = "answered" => Owns(l) /\ (full \/ file'[at[l]].holds = "whole"),
         how = "failed" => ~Owns(l)
  PROVE  LoopInv'
<1>1. full' = full
  BY DEF Exit
<1>2. /\ at' \in [Loops -> Nat] /\ full' \in BOOLEAN
      /\ pc' \in [Loops -> {"test", "read", "answer", "open", "write", "close"}]
      /\ status' \in [Loops -> [Ids -> Statuses]]
      /\ at'[l] = at[l] + 1 /\ pc'[l] = "test" /\ status'[l][at[l]] = how
      /\ \A r \in Ids \ {at[l]} : status'[l][r] = status[l][r]
      /\ \A q \in Loops \ {l} : at'[q] = at[q] /\ pc'[q] = pc[q] /\ status'[q] = status[q]
  BY ExitType DEF LoopInv
<1>3. LoopTypes'
  BY <1>2 DEF LoopTypes
<1>4. \A r \in Ids : file'[r].by = file[r].by
  OBVIOUS
<1>5. at[l] \in Nat /\ Ids \subseteq Nat
  BY IdsAre
<1>6. OneWriter /\ OwnersHold /\ NotYetRun /\ WrittenInTurn /\ StatusTellsAnswers
  BY DEF LoopInv, FileInv
<1>7. Owns(l) => file[at[l]].by = {l}
  BY <1>6 DEF OwnersHold
<1>8. OneWriter'
  <2> SUFFICES ASSUME NEW r \in Ids PROVE file'[r] = Absent \/ \E q \in Loops : file'[r].by = {q}
    BY DEF OneWriter, Ids
  <2>1. file[r] = Absent \/ \E q \in Loops : file[r].by = {q}
    BY <1>6 DEF OneWriter
  <2>2. file'[r] = file[r] \/ file'[r].by = {l}
    BY <1>7
  <2> QED BY <2>1, <2>2
<1>9. OwnersHold'
  <2> SUFFICES ASSUME NEW q \in Loops, at'[q] \in Ids, Owns(q)' PROVE file'[at'[q]].by = {q}
    BY DEF OwnersHold, Ids
  <2>1. q # l
    BY <1>2 DEF Owns
  <2>2. at'[q] = at[q] /\ Owns(q)
    BY <1>2, <2>1 DEF Owns
  <2> QED BY <1>4, <1>6, <2>2 DEF OwnersHold
<1>10. NotYetRun'
  <2> SUFFICES ASSUME NEW q \in Loops, NEW r \in Ids, r >= at'[q]
               PROVE  status'[q][r] = "not run"
    BY DEF NotYetRun, Ids
  <2>1. CASE q = l
    <3>1. at'[l] = at[l] + 1
      BY <1>2
    <3>2. r \in Nat
      BY <1>5
    <3>3. r >= at[l] /\ r # at[l]
      <4>1. r >= at[l] + 1
        BY <2>1, <3>1
      <4> QED BY <1>5, <3>2, <4>1, Ordered, Zenon
    <3>4. status'[l][r] = status[l][r]
      BY <1>2, <3>3
    <3>5. status[l][r] = "not run"
      BY <1>6, <3>3 DEF NotYetRun
    <3> QED BY <2>1, <3>4, <3>5
  <2>2. CASE q # l
    <3>1. r >= at[q] /\ status'[q][r] = status[q][r]
      BY <1>2, <2>2
    <3> QED BY <1>6, <3>1 DEF NotYetRun
  <2> QED BY <2>1, <2>2
<1>11. WrittenInTurn'
  <2> SUFFICES ASSUME NEW q \in Loops, NEW r \in Ids, file'[r].by = {q}
               PROVE  r < at'[q] \/ (r = at'[q] /\ Owns(q)')
    BY DEF WrittenInTurn, Ids
  <2>1. r < at[q] \/ (r = at[q] /\ Owns(q))
    BY <1>4, <1>6 DEF WrittenInTurn
  <2>2. CASE q = l
    <3>1. at'[q] = at[l] + 1 /\ r \in Nat
      BY <1>2, <1>5, <2>2
    <3>2. r < at[l] + 1
      BY <1>5, <2>1, <2>2, <3>1, Ordered, Zenon
    <3> QED BY <3>1, <3>2
  <2>3. CASE q # l
    <3>1. at'[q] = at[q] /\ (Owns(q)' <=> Owns(q))
      BY <1>2, <2>3 DEF Owns
    <3> QED BY <2>1, <3>1
  <2> QED BY <2>2, <2>3
<1>12. StatusTellsAnswers'
  <2> SUFFICES ASSUME NEW q \in Loops, NEW r \in Ids
               PROVE  /\ status'[q][r] = "answered" => file'[r].by = {q} /\ (full' \/ file'[r].holds = "whole")
                      /\ status'[q][r] = "failed" => file'[r].by # {q}
    BY DEF StatusTellsAnswers, Ids
  <2>0. /\ status[q][r] = "answered" => file[r].by = {q} /\ (full \/ file[r].holds = "whole")
        /\ status[q][r] = "failed" => file[r].by # {q}
    BY <1>6 DEF StatusTellsAnswers, Ids
  <2>1. CASE q = l /\ r = at[l]
    <3>1. file[r].by = {l} => Owns(l)
      BY <1>5, <1>6, <2>1, Ordered, Zenon DEF WrittenInTurn
    <3>2. status'[q][r] = how
      BY <1>2, <2>1
    <3>3. how = "answered" => file'[r].by = {q} /\ (full' \/ file'[r].holds = "whole")
      BY <1>1, <1>4, <1>7, <2>1
    <3>4. how = "failed" => file'[r].by # {q}
      BY <1>4, <2>1, <3>1
    <3> QED BY <3>2, <3>3, <3>4
  <2>2. CASE r # at[l]
    <3>1. status'[q][r] = status[q][r] /\ file'[r] = file[r]
      BY <1>2, <2>2
    <3> QED BY <1>1, <2>0, <3>1
  <2>3. CASE q # l /\ r = at[l]
    <3>1. status'[q][r] = status[q][r]
      BY <1>2, <2>3
    <3>2. file[r].by = {q} => file'[r] = file[r]
      BY <1>7, <2>3
    <3> QED BY <1>1, <1>4, <2>0, <3>1, <3>2
  <2> QED BY <2>1, <2>2, <2>3
<1> QED BY <1>3, <1>8, <1>9, <1>10, <1>11, <1>12 DEF LoopInv, FileInv

\* A process moves to `place`; the file of its request is its own from fopen on.
LEMMA Moves ==
  ASSUME LoopInv, NEW l \in Loops, at[l] \in Ids,
         NEW place \in {"read", "answer", "open", "write", "close"}, Move(l, place),
         file' \in [Ids -> AnswerFiles],
         \A r \in Ids \ {at[l]} : file'[r] = file[r],
         \/ /\ place \in {"write", "close"}
            /\ file'[at[l]].by = {l} /\ file[at[l]].by \in {{}, {l}}
         \/ file' = file /\ place \notin {"write", "close"} /\ ~Owns(l)
  PROVE  LoopInv'
<1>1. /\ at' = at /\ status' = status /\ full' = full
      /\ pc' = [pc EXCEPT ![l] = place]
  BY DEF Move
<1>2. pc'[l] = place /\ \A q \in Loops \ {l} : pc'[q] = pc[q]
  BY <1>1 DEF LoopInv, LoopTypes
<1>3. LoopTypes'
  BY <1>1 DEF LoopInv, LoopTypes
<1>4. at[l] \in Nat /\ Ids \subseteq Nat
  BY IdsAre
<1>5. OneWriter /\ OwnersHold /\ NotYetRun /\ WrittenInTurn /\ StatusTellsAnswers
  BY DEF LoopInv, FileInv
<1>6. OneWriter'
  BY <1>5 DEF OneWriter, Ids
<1>7. OwnersHold'
  <2> SUFFICES ASSUME NEW q \in Loops, at[q] \in Ids, Owns(q)' PROVE file'[at[q]].by = {q}
    BY <1>1 DEF OwnersHold, Ids
  <2>1. CASE q = l
    BY <1>2, <2>1 DEF Owns
  <2>2. CASE q # l
    <3>1. file[at[q]].by = {q}
      BY <1>2, <1>5, <2>2 DEF OwnersHold, Owns
    <3> QED BY <2>2, <3>1
  <2> QED BY <2>1, <2>2
<1>8. NotYetRun'
  BY <1>1, <1>5 DEF NotYetRun, Ids
<1>9. WrittenInTurn'
  <2> SUFFICES ASSUME NEW q \in Loops, NEW r \in Ids, file'[r].by = {q}
               PROVE  r < at[q] \/ (r = at[q] /\ Owns(q)')
    BY <1>1 DEF WrittenInTurn, Ids
  <2>1. CASE file'[r] = file[r] /\ q # l
    <3>1. r < at[q] \/ (r = at[q] /\ Owns(q))
      BY <1>5, <2>1 DEF WrittenInTurn
    <3> QED BY <1>2, <2>1, <3>1 DEF Owns
  <2>2. CASE file'[r] = file[r] /\ q = l
    <3>1. r < at[l] \/ (r = at[l] /\ Owns(l))
      BY <1>5, <2>2 DEF WrittenInTurn
    <3>2. Owns(l) => Owns(l)'
      BY <1>2 DEF Owns
    <3> QED BY <2>2, <3>1, <3>2
  <2>3. CASE file'[r] # file[r]
    <3>1. r = at[l] /\ place \in {"write", "close"} /\ q = l
      BY <2>3
    <3> QED BY <1>2, <3>1 DEF Owns
  <2> QED BY <2>1, <2>2, <2>3
<1>10. StatusTellsAnswers'
  <2> SUFFICES ASSUME NEW q \in Loops, NEW r \in Ids
               PROVE  /\ status[q][r] = "answered" => file'[r].by = {q} /\ (full \/ file'[r].holds = "whole")
                      /\ status[q][r] = "failed" => file'[r].by # {q}
    BY <1>1 DEF StatusTellsAnswers, Ids
  <2>0. /\ status[q][r] = "answered" => file[r].by = {q} /\ (full \/ file[r].holds = "whole")
        /\ status[q][r] = "failed" => file[r].by # {q}
    BY <1>5 DEF StatusTellsAnswers, Ids
  <2>1. CASE file'[r] = file[r]
    BY <2>0, <2>1
  <2>2. CASE file'[r] # file[r]
    <3>1. r = at[l] /\ file'[r].by = {l} /\ file[r].by \in {{}, {l}}
      BY <2>2
    <3>2. status[l][r] = "not run"
      BY <1>4, <1>5, <3>1, Ordered, Zenon DEF NotYetRun
    <3> QED BY <2>0, <3>1, <3>2
  <2> QED BY <2>1, <2>2
<1> QED BY <1>3, <1>6, <1>7, <1>8, <1>9, <1>10 DEF LoopInv, FileInv

\* The loops begin at the first request, with no file written.
LEMMA LoopsBegin == DecideInit => LoopInv
<1> SUFFICES ASSUME DecideInit PROVE LoopInv
  OBVIOUS
<1>1. LoopTypes
  BY IdsAre DEF DecideInit, LoopTypes, Ids, AnswerFiles, Statuses, Absent
<1>2. \A l \in Loops, r \in Ids : file[r] = Absent /\ status[l][r] = "not run" /\ file[r].by = {}
  BY DEF DecideInit, Absent, Ids
<1>3. \A l \in Loops : pc[l] = "test"
  BY DEF DecideInit
<1>4. FileInv
  <2>1. OneWriter /\ NotYetRun
    <3>1. \A r \in Ids : file[r] = Absent
      BY DEF DecideInit, Ids
    <3> QED BY <1>2, <3>1, Zenon DEF OneWriter, NotYetRun
  <2>2. OwnersHold
    <3>1. \A l \in Loops : ~Owns(l)
      BY <1>3 DEF Owns
    <3> QED BY <3>1, Zenon DEF OwnersHold
  <2>3. \A l \in Loops : {} # {l}
    OBVIOUS
  <2>4. WrittenInTurn
    BY <1>2, <2>3, Zenon DEF WrittenInTurn
  <2> QED BY <2>1, <2>2, <2>4 DEF FileInv
<1>5. StatusTellsAnswers
  BY <1>2 DEF StatusTellsAnswers, Ids
<1> QED BY <1>1, <1>4, <1>5 DEF LoopInv

\* What a step of a loop's process does to the files.
LEMMA FilesOfProcess ==
  ASSUME LoopInv, NEW l \in Loops, Process(l)
  PROVE  /\ at[l] \in Ids /\ file' \in [Ids -> AnswerFiles]
         /\ \A r \in Ids \ {at[l]} : file'[r] = file[r]
         /\ file'[at[l]] # file[at[l]] =>
              \/ Open(l) /\ file[at[l]] = Absent /\ file'[at[l]].by = {l}
              \/ (WriteAnswer(l) \/ Close(l)) /\ file'[at[l]].by = file[at[l]].by
<1>1. at[l] \in Ids
  BY DEF Process, Skip, Run, ReadRequest, Answer, Refuse, Open, OpenFails, WriteAnswer, Close, Killed, At, Ids
<1>2. file \in [Ids -> AnswerFiles] /\ file[at[l]] \in AnswerFiles
  BY <1>1 DEF LoopInv, LoopTypes
<1>3. CASE Open(l)
  <2>1. Created(l, "nothing") \in AnswerFiles /\ Created(l, "nothing").by = {l}
    BY DEF Created, AnswerFiles
  <2> QED BY <1>1, <1>2, <1>3, <2>1 DEF Open
<1>4. ASSUME NEW text \in {"nothing", "part", "whole"},
             file' = [file EXCEPT ![at[l]] = [@ EXCEPT !.holds = text]]
      PROVE  /\ file' \in [Ids -> AnswerFiles] /\ file'[at[l]].by = file[at[l]].by
             /\ \A r \in Ids \ {at[l]} : file'[r] = file[r]
  <2> DEFINE new == [file[at[l]] EXCEPT !.holds = text]
  <2>1. file' = [file EXCEPT ![at[l]] = new]
    BY <1>1, <1>2, <1>4
  <2>2. new \in AnswerFiles /\ new.by = file[at[l]].by
    BY <1>2 DEF AnswerFiles
  <2> HIDE DEF new
  <2> QED BY <1>1, <1>2, <2>1, <2>2
<1>5. CASE WriteAnswer(l)
  BY <1>1, <1>4, <1>5 DEF WriteAnswer
<1>6. CASE Close(l)
  BY <1>1, <1>2, <1>4, <1>6 DEF Close
<1>7. CASE UNCHANGED file
  BY <1>1, <1>2, <1>7
<1> QED BY <1>3, <1>5, <1>6, <1>7
        DEF Process, Skip, Run, ReadRequest, Answer, Refuse, OpenFails, Killed

\* A loop that answers the next request keeps the invariant.
LEMMA ProcessKeeps ==
  ASSUME LoopInv, NEW l \in Loops, Process(l)
  PROVE  LoopInv'
<1>1. /\ at[l] \in Ids /\ file' \in [Ids -> AnswerFiles]
      /\ \A r \in Ids \ {at[l]} : file'[r] = file[r]
  BY FilesOfProcess
<1>2. pc[l] \in {"write", "close"} => file[at[l]].by = {l}
  BY <1>1 DEF LoopInv, FileInv, OwnersHold, Owns
<1>3. CASE Skip(l)
  BY <1>1, <1>3, Exits DEF Skip, Statuses
<1>4. CASE Run(l)
  BY <1>1, <1>4, Moves DEF Run, At, Owns
<1>5. CASE ReadRequest(l)
  <2>1. CASE Requests[at[l]] = "reading"
    BY <1>1, <1>5, <2>1, Exits DEF ReadRequest, At, Statuses, Owns
  <2>2. CASE Requests[at[l]] # "reading"
    BY <1>1, <1>5, <2>2, Moves DEF ReadRequest, At, Owns
  <2> QED BY <2>1, <2>2
<1>6. CASE Answer(l)
  BY <1>1, <1>6, Moves DEF Answer, At, Owns
<1>7. CASE Refuse(l)
  BY <1>1, <1>7, Exits DEF Refuse, At, Statuses, Owns
<1>8. CASE Open(l)
  <2>1. Move(l, "write") /\ file[at[l]].by = {} /\ file' = [file EXCEPT ![at[l]] = Created(l, "nothing")]
    BY <1>8 DEF Open, Absent
  <2>2. file'[at[l]].by = {l}
    BY <1>1, <2>1 DEF Created, LoopInv, LoopTypes
  <2> QED BY <1>1, <2>1, <2>2, Moves
<1>9. CASE OpenFails(l)
  BY <1>1, <1>9, Exits DEF OpenFails, At, Statuses, Owns
<1>10. CASE WriteAnswer(l)
  <2>1. Move(l, "close") /\ pc[l] = "write"
    BY <1>10 DEF WriteAnswer, At
  <2>2. file'[at[l]].by = file[at[l]].by
    BY <2>1, FilesOfProcess DEF Open, At
  <2> QED BY <1>1, <1>2, <2>1, <2>2, Moves
<1>11. CASE Close(l)
  <2>1. Exit(l, "answered") /\ Owns(l)
    BY <1>11 DEF Close, At, Owns
  <2>2. file'[at[l]].by = file[at[l]].by
    BY <1>11, FilesOfProcess DEF Open, At, Close
  <2>3. full \/ file'[at[l]].holds = "whole"
    <3>1. CASE full
      BY <3>1
    <3>2. CASE file' = [file EXCEPT ![at[l]] = [@ EXCEPT !.holds = "whole"]]
      <4>1. file[at[l]] \in AnswerFiles /\ file \in [Ids -> AnswerFiles]
        BY <1>1 DEF LoopInv, LoopTypes
      <4>2. file'[at[l]] = [file[at[l]] EXCEPT !.holds = "whole"]
        BY <1>1, <3>2, <4>1
      <4> QED BY <4>1, <4>2 DEF AnswerFiles
    <3> QED BY <1>11, <3>1, <3>2 DEF Close
  <2> QED BY <1>1, <2>1, <2>2, <2>3, Exits DEF Statuses
<1>12. CASE Killed(l)
  BY <1>1, <1>12, Exits DEF Killed, Statuses
<1> QED BY <1>3, <1>4, <1>5, <1>6, <1>7, <1>8, <1>9, <1>10, <1>11, <1>12 DEF Process

\* A disk that fills up, and stays full, keeps the invariant.
LEMMA FullDiskKeeps ==
  ASSUME LoopInv, UNCHANGED <<at, pc, file, status>>, full' \in BOOLEAN, full => full'
  PROVE  LoopInv'
<1>1. LoopTypes'
  BY DEF LoopInv, LoopTypes
<1>2. OneWriter' /\ OwnersHold' /\ NotYetRun' /\ WrittenInTurn'
  <2>1. OneWriter /\ OwnersHold /\ NotYetRun /\ WrittenInTurn
    BY DEF LoopInv, FileInv
  <2>2. OneWriter'
    BY <2>1 DEF OneWriter, Ids
  <2>3. OwnersHold'
    BY <2>1 DEF OwnersHold, Owns, Ids
  <2>4. NotYetRun'
    BY <2>1 DEF NotYetRun, Ids
  <2>5. WrittenInTurn'
    BY <2>1 DEF WrittenInTurn, Owns, Ids
  <2> QED BY <2>2, <2>3, <2>4, <2>5
<1>3. StatusTellsAnswers'
  BY DEF LoopInv, StatusTellsAnswers
<1> QED BY <1>1, <1>2, <1>3 DEF LoopInv, FileInv

\* The invariant of the loops: who created each file, and where it is done.
THEOREM LoopInvAlways == DecideSpec => []LoopInv
<1>1. LoopInv /\ [DecideNext]_decideVars => LoopInv'
  <2> SUFFICES ASSUME LoopInv, [DecideNext]_decideVars PROVE LoopInv'
    OBVIOUS
  <2>1. CASE DiskFills
    BY <2>1, FullDiskKeeps DEF DiskFills
  <2>2. CASE UNCHANGED decideVars
    BY <2>2, FullDiskKeeps DEF decideVars, LoopInv, LoopTypes
  <2> QED BY <2>1, <2>2, ProcessKeeps DEF DecideNext
<1> QED BY LoopsBegin, <1>1, PTL DEF DecideSpec

-----------------------------------------------------------------------------
\* A process that exits with 0 has left its answer in its file, and one that
\* fails has left none there (main.cpp, 100-109 and 182-185), however many
\* loops run over however many requests and whenever they are killed.
THEOREM StatusTellsTheLoop == DecideSpec => []StatusTellsAnswers
BY LoopInvAlways, PTL DEF LoopInv

\* fopen "wbx" (main.cpp, 104): no answer file is ever written over, and an
\* answer a loop has counted on is never changed again.
THEOREM AnswersAreCreateOnly == DecideSpec => NeverWrittenOver
<1>1. LoopInv /\ [DecideNext]_decideVars =>
        [\A r \in Ids : file[r] # Absent =>
           /\ file'[r].by = file[r].by
           /\ \A l \in Loops : status[l][r] = "answered" => file'[r] = file[r]]_decideVars
  <2> SUFFICES ASSUME LoopInv, NEW q \in Loops, Process(q), NEW r \in Ids, file[r] # Absent
               PROVE  /\ file'[r].by = file[r].by
                      /\ \A l \in Loops : status[l][r] = "answered" => file'[r] = file[r]
    BY DEF DecideNext, DiskFills, decideVars
  <2>1. CASE file'[r] = file[r]
    BY <2>1
  <2>2. CASE file'[r] # file[r]
    <3>1. r = at[q]
      BY <2>2, FilesOfProcess
    <3>2. (WriteAnswer(q) \/ Close(q)) /\ file'[r].by = file[r].by
      BY <2>2, <3>1, FilesOfProcess
    <3>3. file[r].by = {q}
      BY <3>1, <3>2 DEF WriteAnswer, Close, At, LoopInv, FileInv, OwnersHold, Owns
    <3>4. status[q][r] = "not run"
      BY <3>1, IdsAre, Ordered, Zenon DEF LoopInv, FileInv, NotYetRun
    <3>5. \A l \in Loops : status[l][r] = "answered" => file[r].by = {l}
      BY DEF LoopInv, StatusTellsAnswers, Ids
    <3> QED BY <3>2, <3>3, <3>4, <3>5
  <2> QED BY <2>1, <2>2
<1> QED BY LoopInvAlways, <1>1, PTL DEF DecideSpec, NeverWrittenOver, Ids

-----------------------------------------------------------------------------
(* Values and what they are made of *)

\* h holds the levels of v, down to n.
Levels(h, v, n) == h = [i \in 0..n |-> IF i = 0 THEN {v} ELSE UNION {ItemsOf(x) : x \in h[i - 1]}]

\* The values at each depth, from those one level up.
LEMMA LevelsAt ==
  ASSUME NEW n \in Nat, NEW v, NEW h, Levels(h, v, n)
  PROVE  /\ h[0] = {v}
         /\ \A i \in Nat : i + 1 <= n => h[i + 1] = UNION {ItemsOf(x) : x \in h[i]}
<1>1. \A i \in 0..n : h[i] = IF i = 0 THEN {v} ELSE UNION {ItemsOf(x) : x \in h[i - 1]}
  BY DEF Levels
<1>2. 0 \in 0..n
  OBVIOUS
<1>3. h[0] = {v}
  BY <1>1, <1>2
<1>4. ASSUME NEW i \in Nat, i + 1 <= n PROVE h[i + 1] = UNION {ItemsOf(x) : x \in h[i]}
  <2>1. i + 1 \in 0..n /\ i + 1 # 0 /\ (i + 1) - 1 = i
    BY <1>4
  <2> QED BY <1>1, <2>1
<1> QED BY <1>3, <1>4

\* The values at each depth can be listed, to any depth.
LEMMA LevelsExist ==
  ASSUME NEW v
  PROVE  \A n \in Nat : \E h : Levels(h, v, n)
<1> DEFINE T == {n \in Nat : \E h : Levels(h, v, n)}
<1>1. 0 \in T
  <2> DEFINE h == [i \in 0..0 |-> {v}]
  <2>1. h = [i \in 0..0 |-> IF i = 0 THEN {v} ELSE UNION {ItemsOf(x) : x \in h[i - 1]}]
    OBVIOUS
  <2> HIDE DEF h
  <2> QED BY <2>1 DEF Levels
<1>2. ASSUME NEW n \in Nat, n \in T PROVE n + 1 \in T
  <2>1. PICK h : Levels(h, v, n)
    BY <1>2
  <2> DEFINE top == UNION {ItemsOf(x) : x \in h[n]}
             g == [i \in 0..(n + 1) |-> IF i = n + 1 THEN top ELSE h[i]]
  <2>2. /\ h[0] = {v}
        /\ \A i \in Nat : i + 1 <= n => h[i + 1] = UNION {ItemsOf(x) : x \in h[i]}
    BY <2>1, LevelsAt
  <2>3. ASSUME NEW i \in 0..(n + 1)
        PROVE  g[i] = IF i = 0 THEN {v} ELSE UNION {ItemsOf(x) : x \in g[i - 1]}
    <3>1. CASE i = 0
      <4>1. i # n + 1
        BY <3>1
      <4> HIDE DEF top
      <4> QED BY <2>2, <3>1, <4>1
    <3>2. CASE i = n + 1
      <4>1. i # 0 /\ i - 1 = n /\ n \in 0..(n + 1) /\ n # n + 1
        BY <3>2
      <4>2. g[i - 1] = h[n] /\ g[i] = top
        BY <3>2, <4>1
      <4> QED BY <4>1, <4>2
    <3>3. CASE i # 0 /\ i # n + 1
      <4>1. i - 1 \in Nat /\ (i - 1) + 1 = i /\ i <= n /\ i - 1 \in 0..(n + 1) /\ i - 1 # n + 1
        BY <3>3
      <4> HIDE DEF top
      <4>2. g[i - 1] = h[i - 1] /\ g[i] = h[i]
        BY <3>3, <4>1
      <4> HIDE DEF g
      <4>3. h[(i - 1) + 1] = UNION {ItemsOf(x) : x \in h[i - 1]}
        BY <2>2, <4>1
      <4> QED BY <3>3, <4>1, <4>2, <4>3
    <3> QED BY <3>1, <3>2, <3>3
  <2>4. g = [i \in 0..(n + 1) |-> IF i = 0 THEN {v} ELSE UNION {ItemsOf(x) : x \in g[i - 1]}]
    <3>1. g = [i \in 0..(n + 1) |-> g[i]]
      OBVIOUS
    <3> HIDE DEF g
    <3> QED BY <2>3, <3>1
  <2> HIDE DEF g
  <2> QED BY <2>4 DEF Levels
<1> HIDE DEF T
<1>3. \A n \in Nat : n \in T
  BY <1>1, <1>2, Induct
<1> QED BY <1>3 DEF T

\* Level is such a listing's last.
LEMMA LevelIs ==
  ASSUME NEW v, NEW n \in Nat
  PROVE  \E h : Levels(h, v, n) /\ Level(v, n) = h[n]
<1>1. Level(v, n) = (CHOOSE h : Levels(h, v, n))[n]
  BY DEF Level, Levels
<1>2. \E h : Levels(h, v, n)
  BY LevelsExist
<1> HIDE DEF Levels
<1> QED BY <1>1, <1>2

\* Two listings agree where both go.
LEMMA LevelsAgree ==
  ASSUME NEW v, NEW n \in Nat, NEW m \in Nat, NEW g, NEW h, Levels(g, v, n), Levels(h, v, m)
  PROVE  \A i \in Nat : i <= n /\ i <= m => g[i] = h[i]
<1> DEFINE T == {i \in Nat : i <= n /\ i <= m => g[i] = h[i]}
<1>1. 0 \in T
  <2>1. g[0] = {v} /\ h[0] = {v}
    BY LevelsAt
  <2> QED BY <2>1
<1>2. ASSUME NEW i \in Nat, i \in T PROVE i + 1 \in T
  <2> SUFFICES ASSUME i + 1 <= n, i + 1 <= m PROVE g[i + 1] = h[i + 1]
    OBVIOUS
  <2>1. g[i + 1] = UNION {ItemsOf(x) : x \in g[i]} /\ h[i + 1] = UNION {ItemsOf(x) : x \in h[i]}
    BY LevelsAt
  <2>2. g[i] = h[i]
    <3>1. i <= n /\ i <= m
      OBVIOUS
    <3> QED BY <1>2, <3>1
  <2> QED BY <2>1, <2>2
<1> HIDE DEF T
<1>3. \A i \in Nat : i \in T
  BY <1>1, <1>2, Induct
<1> QED BY <1>3 DEF T

\* A level is the items of the level above it.
LEMMA LevelBelow ==
  ASSUME NEW v
  PROVE  /\ Level(v, 0) = {v}
         /\ \A n \in Nat : Level(v, n + 1) = UNION {ItemsOf(x) : x \in Level(v, n)}
<1>1. Level(v, 0) = {v}
  <2>1. PICK h : Levels(h, v, 0) /\ Level(v, 0) = h[0]
    BY LevelIs
  <2> QED BY <2>1, LevelsAt
<1>2. ASSUME NEW n \in Nat PROVE Level(v, n + 1) = UNION {ItemsOf(x) : x \in Level(v, n)}
  <2>0. n + 1 \in Nat /\ n <= n /\ n <= n + 1
    OBVIOUS
  <2>1. PICK g : Levels(g, v, n) /\ Level(v, n) = g[n]
    BY LevelIs
  <2>2. PICK h : Levels(h, v, n + 1) /\ Level(v, n + 1) = h[n + 1]
    BY <2>0, LevelIs
  <2>3. g[n] = h[n]
    BY <2>0, <2>1, <2>2, LevelsAgree
  <2>4. h[n + 1] = UNION {ItemsOf(x) : x \in h[n]}
    BY <2>0, <2>2, LevelsAt
  <2> QED BY <2>1, <2>2, <2>3, <2>4
<1> QED BY <1>1, <1>2

\* The levels of a value that is m levels down in another.
LEMMA LevelOfLevel ==
  ASSUME NEW v, NEW m \in Nat, NEW x \in Level(v, m)
  PROVE  \A n \in Nat : Level(x, n) \subseteq Level(v, m + n)
<1> DEFINE T == {n \in Nat : Level(x, n) \subseteq Level(v, m + n)}
<1>1. 0 \in T
  <2>1. m + 0 = m
    OBVIOUS
  <2> QED BY <2>1, LevelBelow
<1>2. ASSUME NEW n \in Nat, n \in T PROVE n + 1 \in T
  <2>1. m + n \in Nat /\ m + (n + 1) = (m + n) + 1
    OBVIOUS
  <2>2. Level(x, n + 1) = UNION {ItemsOf(y) : y \in Level(x, n)}
    BY LevelBelow
  <2>3. Level(v, (m + n) + 1) = UNION {ItemsOf(y) : y \in Level(v, m + n)}
    BY <2>1, LevelBelow
  <2>4. Level(x, n) \subseteq Level(v, m + n)
    BY <1>2
  <2>5. Level(x, n + 1) \subseteq Level(v, (m + n) + 1)
    BY <2>2, <2>3, <2>4
  <2> QED BY <2>1, <2>5
<1> HIDE DEF T
<1>3. \A n \in Nat : n \in T
  BY <1>1, <1>2, Induct
<1> QED BY <1>3 DEF T

\* The n + 1st level is what is n levels down in the items.
LEMMA LevelAbove ==
  ASSUME NEW v
  PROVE  \A n \in Nat : Level(v, n + 1) = UNION {Level(y, n) : y \in ItemsOf(v)}
<1> DEFINE T == {n \in Nat : Level(v, n + 1) = UNION {Level(y, n) : y \in ItemsOf(v)}}
<1>1. 0 \in T
  <2>1. Level(v, 0 + 1) = UNION {ItemsOf(x) : x \in {v}}
    BY LevelBelow
  <2>2. \A y : Level(y, 0) = {y}
    BY LevelBelow
  <2>3. UNION {Level(y, 0) : y \in ItemsOf(v)} = ItemsOf(v)
    BY <2>2
  <2> QED BY <2>1, <2>3
<1>2. ASSUME NEW n \in Nat, n \in T PROVE n + 1 \in T
  <2>1. n + 1 \in Nat
    OBVIOUS
  <2>2. Level(v, (n + 1) + 1) = UNION {ItemsOf(x) : x \in Level(v, n + 1)}
    BY <2>1, LevelBelow
  <2>3. Level(v, n + 1) = UNION {Level(y, n) : y \in ItemsOf(v)}
    BY <1>2
  <2>4. \A y : Level(y, n + 1) = UNION {ItemsOf(x) : x \in Level(y, n)}
    BY LevelBelow
  <2>5. Level(v, (n + 1) + 1) = UNION {Level(y, n + 1) : y \in ItemsOf(v)}
    BY <2>2, <2>3, <2>4
  <2> QED BY <2>1, <2>5
<1> HIDE DEF T
<1>3. \A n \in Nat : n \in T
  BY <1>1, <1>2, Induct
<1> QED BY <1>3 DEF T

\* What is within a value is what is at some depth of it.
LEMMA WithinIs ==
  ASSUME NEW v
  PROVE  /\ v \in Within(v)
         /\ \A x \in Within(v) : \E n \in 0..MaxDepth : x \in Level(v, n)
         /\ \A n \in 0..MaxDepth : Level(v, n) \subseteq Within(v)
<1>1. 0 \in 0..MaxDepth
  BY DepthAssumption
<1>2. v \in Level(v, 0)
  BY LevelBelow
<1> QED BY <1>1, <1>2 DEF Within

\* Within is closed if the values end.
LEMMA WithinIsClosed ==
  ASSUME NEW v, Level(v, MaxDepth + 1) = {}
  PROVE  /\ \A n \in Nat : Level(v, n) \subseteq Within(v)
         /\ \A x \in Within(v) : ItemsOf(x) \subseteq Within(v)
         /\ \A x \in Within(v) : Level(x, MaxDepth + 1) = {}
         /\ \A x \in Within(v) : Within(x) \subseteq Within(v)
<1>1. MaxDepth \in Nat /\ MaxDepth + 1 \in Nat
  BY DepthAssumption
<1>2. \A n \in Nat : Level(v, (MaxDepth + 1) + n) = {}
  <2> DEFINE T == {n \in Nat : Level(v, (MaxDepth + 1) + n) = {}}
  <2>1. 0 \in T
    <3>1. (MaxDepth + 1) + 0 = MaxDepth + 1
      BY <1>1
    <3> QED BY <3>1
  <2>2. ASSUME NEW n \in Nat, n \in T PROVE n + 1 \in T
    <3>1. (MaxDepth + 1) + n \in Nat /\ (MaxDepth + 1) + (n + 1) = ((MaxDepth + 1) + n) + 1
      BY <1>1
    <3>2. Level(v, ((MaxDepth + 1) + n) + 1) = UNION {ItemsOf(x) : x \in Level(v, (MaxDepth + 1) + n)}
      BY <3>1, LevelBelow
    <3>3. Level(v, (MaxDepth + 1) + n) = {}
      BY <2>2
    <3> QED BY <3>1, <3>2, <3>3
  <2> HIDE DEF T
  <2>3. \A n \in Nat : n \in T
    BY <2>1, <2>2, Induct
  <2> QED BY <2>3 DEF T
<1>3. ASSUME NEW n \in Nat PROVE Level(v, n) \subseteq Within(v)
  <2>1. CASE n <= MaxDepth
    <3>1. n \in 0..MaxDepth
      BY <2>1, <1>1
    <3> QED BY <3>1, WithinIs
  <2>2. CASE n > MaxDepth
    <3>1. n - (MaxDepth + 1) \in Nat /\ (MaxDepth + 1) + (n - (MaxDepth + 1)) = n
      BY <2>2, <1>1
    <3> QED BY <3>1, <1>2
  <2> QED BY <1>1, <2>1, <2>2
<1>4. ASSUME NEW x \in Within(v)
      PROVE  ItemsOf(x) \subseteq Within(v) /\ Level(x, MaxDepth + 1) = {} /\ Within(x) \subseteq Within(v)
  <2>1. PICK m \in 0..MaxDepth : x \in Level(v, m)
    BY WithinIs
  <2>2. m \in Nat /\ m + 1 \in Nat
    OBVIOUS
  <2>3. ItemsOf(x) \subseteq Level(v, m + 1)
    <3>1. Level(v, m + 1) = UNION {ItemsOf(y) : y \in Level(v, m)}
      BY <2>2, LevelBelow
    <3> QED BY <2>1, <3>1
  <2>4. \A n \in Nat : Level(x, n) \subseteq Level(v, m + n)
    BY <2>1, <2>2, LevelOfLevel
  <2>5. Level(x, MaxDepth + 1) = {}
    <3>1. m + (MaxDepth + 1) = (MaxDepth + 1) + m
      BY <1>1, <2>2
    <3>2. Level(x, MaxDepth + 1) \subseteq Level(v, m + (MaxDepth + 1))
      BY <1>1, <2>4
    <3>3. Level(v, (MaxDepth + 1) + m) = {}
      BY <1>2, <2>2
    <3> QED BY <3>1, <3>2, <3>3
  <2>6. ASSUME NEW y \in Within(x) PROVE y \in Within(v)
    <3>1. PICK n \in 0..MaxDepth : y \in Level(x, n)
      BY WithinIs
    <3>2. n \in Nat /\ m + n \in Nat
      BY <2>2
    <3>3. Level(x, n) \subseteq Level(v, m + n)
      BY <2>4, <3>2
    <3>4. y \in Level(v, m + n)
      BY <3>1, <3>3
    <3> QED BY <1>3, <3>2, <3>4
  <2>7. ItemsOf(x) \subseteq Within(v)
    BY <1>3, <2>2, <2>3
  <2> QED BY <2>5, <2>6, <2>7
<1> QED BY <1>3, <1>4

\* What IsJson says of a value in one.
JsonIn(x, within) ==
  /\ x = Value(x.kind, x.text, x.items, x.num)
  /\ x.kind \in Kinds /\ x.text \in Seq(STRING) /\ x.num \in Numbers
  /\ Len(x.items) \in Nat /\ DOMAIN x.items = 1..Len(x.items)
  /\ x.items = <<>> <=> Len(x.items) = 0
  /\ \A k \in 1..Len(x.items) : x.items[k].key \in Seq(STRING) /\ x.items[k].value \in within
  /\ Container(x) => x.text = <<>>
  /\ ~Container(x) => x.items = <<>>
  /\ x.kind # "float" => x.num = NoNumber

\* A value within a value of JSON has the shape one has.
LEMMA JsonIs ==
  ASSUME NEW v, IsJson(v), NEW x \in Within(v)
  PROVE  JsonIn(x, Within(v))
<1> DEFINE W == Within(v)
           I == [key : Seq(STRING), value : W]
<1>1. /\ x \in [kind : Kinds, text : Seq(STRING), num : Numbers, items : Seq(I)]
      /\ x.kind \in {"list", "dict"} => x.text = <<>>
      /\ x.kind \notin {"list", "dict"} => x.items = <<>>
      /\ x.kind # "float" => x.num = NoNumber
  BY DEF IsJson
<1> HIDE DEF W, I
<1>2. x = Value(x.kind, x.text, x.items, x.num) /\ x.kind \in Kinds /\ x.text \in Seq(STRING) /\ x.num \in Numbers
      /\ x.items \in Seq(I)
  <2> DEFINE K == Kinds
             N == Numbers
             S == Seq(STRING)
             Q == Seq(I)
  <2>1. x \in [kind : K, text : S, num : N, items : Q]
    BY <1>1
  <2> HIDE DEF K, N, S, Q
  <2>2. x = [kind |-> x.kind, text |-> x.text, items |-> x.items, num |-> x.num]
        /\ x.kind \in K /\ x.text \in S /\ x.num \in N /\ x.items \in Q
    BY <2>1
  <2> QED BY <2>2 DEF K, N, S, Q, Value
<1>3. Len(x.items) \in Nat /\ DOMAIN x.items = 1..Len(x.items) /\ \A k \in 1..Len(x.items) : x.items[k] \in I
  BY <1>2, LenProperties, ElementOfSeq
<1>4. \A i \in I : i.key \in Seq(STRING) /\ i.value \in W
  <2> DEFINE S == Seq(STRING)
  <2>1. I = [key : S, value : W]
    BY DEF I
  <2> HIDE DEF S, I
  <2>2. \A i \in I : i.key \in S /\ i.value \in W
    BY <2>1
  <2> QED BY <2>2 DEF S
<1>5. x.items = <<>> <=> Len(x.items) = 0
  BY <1>2, EmptySeq
<1>6. \A k \in 1..Len(x.items) : x.items[k].key \in Seq(STRING) /\ x.items[k].value \in Within(v)
  BY <1>3, <1>4 DEF W
<1> QED BY <1>1, <1>2, <1>3, <1>5, <1>6, Zenon DEF JsonIn, Container

\* A value in one that loads made is one loads might make.
LEMMA JsonWithin ==
  ASSUME NEW v, IsJson(v), NEW x \in Within(v)
  PROVE  /\ IsJson(x)
         /\ Within(x) \subseteq Within(v)
         /\ ItemsOf(x) \subseteq Within(v)
         /\ ItemsOf(x) = {x.items[k].value : k \in 1..Len(x.items)}
<1>1. Level(v, MaxDepth + 1) = {}
  BY DEF IsJson
<1>2. /\ ItemsOf(x) \subseteq Within(v) /\ Level(x, MaxDepth + 1) = {} /\ Within(x) \subseteq Within(v)
  BY <1>1, WithinIsClosed
<1>3. \A y \in Within(x) : ItemsOf(y) \subseteq Within(x)
  BY <1>2, WithinIsClosed
<1>4. JsonIn(x, Within(v))
  BY JsonIs
<1>5. ItemsOf(x) = {x.items[k].value : k \in 1..Len(x.items)}
  BY <1>4 DEF JsonIn, ItemsOf
<1>6. ASSUME NEW y \in Within(x)
      PROVE  /\ y \in [kind : Kinds, text : Seq(STRING), num : Numbers,
                         items : Seq([key : Seq(STRING), value : Within(x)])]
             /\ y.kind \in {"list", "dict"} => y.text = <<>>
             /\ y.kind \notin {"list", "dict"} => y.items = <<>>
             /\ y.kind # "float" => y.num = NoNumber
             /\ y.kind = "dict" => \A j, k \in DOMAIN y.items : y.items[j].key = y.items[k].key => j = k
  <2> DEFINE W == Within(v)
             V == Within(x)
             I == [key : Seq(STRING), value : W]
             J == [key : Seq(STRING), value : V]
  <2>1. /\ y \in [kind : Kinds, text : Seq(STRING), num : Numbers, items : Seq(I)]
        /\ y.kind \in {"list", "dict"} => y.text = <<>>
        /\ y.kind \notin {"list", "dict"} => y.items = <<>>
        /\ y.kind # "float" => y.num = NoNumber
        /\ y.kind = "dict" => \A j, k \in DOMAIN y.items : y.items[j].key = y.items[k].key => j = k
    BY <1>2 DEF IsJson
  <2>2. ItemsOf(y) \subseteq V
    BY <1>3
  <2>3. y.items \in Seq(I)
    <3> DEFINE Q == Seq(I)
               S == Seq(STRING)
               K == Kinds
               N == Numbers
    <3>1. y \in [kind : K, text : S, num : N, items : Q]
      BY <2>1
    <3> HIDE DEF Q, S, K, N
    <3>2. y.items \in Q
      BY <3>1
    <3> QED BY <3>2 DEF Q
  <2>4. ASSUME NEW k \in 1..Len(y.items) PROVE y.items[k] \in J
    <3>1. y.items[k] \in I /\ k \in DOMAIN y.items
      BY <2>3, LenProperties, ElementOfSeq
    <3>2. y.items[k].value \in V
      BY <2>2, <3>1 DEF ItemsOf
    <3> DEFINE S == Seq(STRING)
    <3>3. I = [key : S, value : W] /\ J = [key : S, value : V]
      OBVIOUS
    <3> HIDE DEF S, W, V, I, J
    <3> QED BY <3>1, <3>2, <3>3
  <2>5. y.items \in Seq(J)
    <3>1. Len(y.items) \in Nat /\ y.items = [k \in 1..Len(y.items) |-> y.items[k]]
      BY <2>3, LenProperties
    <3> HIDE DEF J, I
    <3>2. [k \in 1..Len(y.items) |-> y.items[k]] \in [1..Len(y.items) -> J]
      BY <2>4
    <3> QED BY <3>1, <3>2, SeqDef
  <2>6. y \in [kind : Kinds, text : Seq(STRING), num : Numbers, items : Seq(J)]
    <3> DEFINE Q == Seq(I)
               P == Seq(J)
               S == Seq(STRING)
               K == Kinds
               N == Numbers
    <3>1. y \in [kind : K, text : S, num : N, items : Q]
      BY <2>1
    <3>2. y.items \in P
      BY <2>5
    <3> HIDE DEF Q, P, S, K, N
    <3>3. y \in [kind : K, text : S, num : N, items : P]
      BY <3>1, <3>2
    <3> QED BY <3>3 DEF P, S, K, N
  <2> QED BY <2>1, <2>6
<1>7. IsJson(x)
  BY <1>2, <1>6 DEF IsJson
<1> QED BY <1>2, <1>5, <1>7

-----------------------------------------------------------------------------
(* The fields of a dict *)

\* A dict has a key exactly if it is among its items' keys, and gets one of their
\* values.
LEMMA FieldIs ==
  ASSUME NEW body, IsJson(body), NEW v \in Within(body), NEW key
  PROVE  /\ HasKey(v, key) <=> <<key>> \in Keys(v)
         /\ HasKey(v, key) => \E k \in 1..Len(v.items) : v.items[k].key = <<key>> /\ v.items[k].value = Get(v, key)
         /\ HasKey(v, key) => Get(v, key) \in Within(body) /\ Get(v, key) \in ItemsOf(v)
         /\ v.kind = "dict" => \A k \in 1..Len(v.items) : v.items[k].key = <<key>> => v.items[k].value = Get(v, key)
<1>1. JsonIn(v, Within(body))
  BY JsonIs
<1>2. DOMAIN v.items = 1..Len(v.items) /\ \A k \in 1..Len(v.items) : v.items[k].value \in Within(body)
  BY <1>1 DEF JsonIn
<1>3. ItemsOf(v) = {v.items[k].value : k \in 1..Len(v.items)}
  BY JsonWithin
<1>4. HasKey(v, key) <=> <<key>> \in Keys(v)
  BY DEF HasKey, Keys, ToSet
<1>5. ASSUME HasKey(v, key)
      PROVE  \E k \in 1..Len(v.items) : v.items[k].key = <<key>> /\ v.items[k].value = Get(v, key)
  <2> DEFINE here == CHOOSE k \in DOMAIN v.items : v.items[k].key = <<key>>
  <2>1. \E k \in DOMAIN v.items : v.items[k].key = <<key>>
    BY <1>5 DEF HasKey
  <2>2. here \in DOMAIN v.items /\ v.items[here].key = <<key>>
    BY <2>1
  <2>3. v.items[here].value = Get(v, key)
    BY DEF Get
  <2> HIDE DEF here
  <2> QED BY <1>2, <2>2, <2>3
<1>6. HasKey(v, key) => Get(v, key) \in Within(body) /\ Get(v, key) \in ItemsOf(v)
  BY <1>2, <1>3, <1>5
<1>7. ASSUME v.kind = "dict", NEW k \in 1..Len(v.items), v.items[k].key = <<key>> PROVE v.items[k].value = Get(v, key)
  <2>1. HasKey(v, key)
    BY <1>2, <1>7 DEF HasKey
  <2>2. PICK j \in 1..Len(v.items) : v.items[j].key = <<key>> /\ v.items[j].value = Get(v, key)
    BY <1>5, <2>1
  <2>3. \A i, j2 \in DOMAIN v.items : v.items[i].key = v.items[j2].key => i = j2
    BY <1>7 DEF IsJson
  <2>4. j = k
    BY <1>2, <1>7, <2>2, <2>3
  <2> QED BY <2>2, <2>4
<1> QED BY <1>4, <1>5, <1>6, <1>7

-----------------------------------------------------------------------------
(* Errors, and the order of the checks *)

\* What errors of the wire model say, and the words and keys of their paths.
Types == {"missing", "extra_forbidden", "recursion_loop", "string_type", "dict_type", "list_type",
  "model_attributes_type", "union_tag_not_found", "union_tag_invalid", "value_error", "string_unicode",
  "string_too_short", "string_too_long", "too_short", "too_long"}
\* The steps of a path.
Words == {"body", "state", "model", "questions", "type", "instructions", "criteria", "true", "false",
  "noul", "choice", "score", "str", "dict", "list", "DICT_LOC", "LIST_LOC", "boolean", "options", "levels",
  "true_description", "false_description", "description"}
\* What a path of an error is made of; errors that show one of the inputs.
LocItems == {Str(t) : t \in Seq(STRING)} \union {Name(w) : w \in Words} \union {Index(i) : i \in Nat}
ErrorSet(inputs) == [type : Types, loc : Seq(LocItems), wire : BOOLEAN, input : inputs, quotes : Seq(STRING)]
\* The errors a check of this body may find.
Faults(body) == {e \in ErrorSet(Within(body)) : PointsAt(body, e)}
\* The errors so far and the counter.
Checks(body) == [errs : Seq(Faults(body)), leak : Nat]

\* The errors so far are faults of the body, and the counter is a number.
LEMMA ChecksAre ==
  ASSUME NEW body, NEW c \in Checks(body)
  PROVE  c.errs \in Seq(Faults(body)) /\ c.leak \in Nat /\ Len(c.errs) \in Nat
<1> DEFINE F == Seq(Faults(body))
<1>1. c \in [errs : F, leak : Nat]
  BY DEF Checks
<1> HIDE DEF F
<1>2. c.errs \in F /\ c.leak \in Nat
  BY <1>1
<1> QED BY <1>2, LenProperties DEF F

\* d follows c by a check that is fine if the counter is zero exactly if `good`.
Judges(c, d, good) == /\ Len(c.errs) <= Len(d.errs)
                      /\ c.leak = 0 /\ good => d = c
                      /\ c.leak = 0 /\ ~good => Len(c.errs) < Len(d.errs)
\* A check of `good`, after c and before d.
JudgedAs(body, c, d, good) == d \in Checks(body) /\ Judges(c, d, good)

\* A check that leaves everything as it is is right of what is good.
LEMMA JudgedSame ==
  ASSUME NEW body, NEW c \in Checks(body), NEW good, good
  PROVE  JudgedAs(body, c, c, good)
<1>1. Len(c.errs) \in Nat
  BY ChecksAre
<1>2. Len(c.errs) <= Len(c.errs)
  BY <1>1
<1> QED BY <1>2 DEF JudgedAs, Judges

\* Two checks one after the other check both.
LEMMA JudgedThen ==
  ASSUME NEW body, NEW c \in Checks(body), NEW d, NEW e, NEW p, NEW q,
         JudgedAs(body, c, d, p), JudgedAs(body, d, e, q)
  PROVE  JudgedAs(body, c, e, p /\ q)
<1>1. d \in Checks(body) /\ e \in Checks(body) /\ Judges(c, d, p) /\ Judges(d, e, q)
  BY DEF JudgedAs
<1>2. Len(c.errs) \in Nat /\ Len(d.errs) \in Nat /\ Len(e.errs) \in Nat
  BY <1>1, ChecksAre
<1>3. Len(c.errs) <= Len(d.errs) /\ Len(d.errs) <= Len(e.errs)
  BY <1>1 DEF Judges
<1>4. Len(c.errs) <= Len(e.errs)
  BY <1>2, <1>3
<1>5. c.leak = 0 /\ p /\ q => e = c
  BY <1>1 DEF Judges
<1>6. c.leak = 0 /\ ~(p /\ q) => Len(c.errs) < Len(e.errs)
  <2>1. c.leak = 0 /\ ~p => Len(c.errs) < Len(d.errs)
    BY <1>1 DEF Judges
  <2>2. c.leak = 0 /\ p /\ ~q => Len(c.errs) < Len(e.errs)
    BY <1>1 DEF Judges
  <2>3. \A x, y, z \in Nat : x < y /\ y <= z => x < z
    OBVIOUS
  <2> QED BY <1>2, <1>3, <2>1, <2>2, <2>3
<1> QED BY <1>1, <1>4, <1>5, <1>6 DEF JudgedAs, Judges

\* What is checked may be put another way.
LEMMA JudgedIff ==
  ASSUME NEW body, NEW c, NEW d, NEW p, NEW q, JudgedAs(body, c, d, p), p <=> q
  PROVE  JudgedAs(body, c, d, q)
BY DEF JudgedAs, Judges

\* Errors are added.
LEMMA WithIs ==
  ASSUME NEW body, NEW c \in Checks(body), NEW errs \in Seq(Faults(body))
  PROVE  /\ With(c, errs) \in Checks(body)
         /\ With(c, errs).leak = c.leak
         /\ Len(With(c, errs).errs) = Len(c.errs) + Len(errs)
         /\ errs = <<>> => With(c, errs) = c
<1> DEFINE F == Seq(Faults(body))
<1>1. c \in [errs : F, leak : Nat]
  BY DEF Checks
<1>2. c.errs \in F /\ c.leak \in Nat
  BY ChecksAre
<1>3. c.errs \o errs \in F /\ Len(c.errs \o errs) = Len(c.errs) + Len(errs)
  BY <1>2, ConcatProperties
<1>4. errs = <<>> => c.errs \o errs = c.errs
  BY <1>2, ConcatEmptySeq
<1>5. With(c, errs) = [c EXCEPT !.errs = c.errs \o errs]
  BY DEF With
<1> DEFINE all == c.errs \o errs
<1> HIDE DEF F, all
<1>6. c = [errs |-> c.errs, leak |-> c.leak]
  BY <1>1
<1>7. [c EXCEPT !.errs = all] = [errs |-> all, leak |-> c.leak]
  BY <1>6
<1>8. With(c, errs) = [errs |-> all, leak |-> c.leak]
  BY <1>5, <1>7 DEF all
<1>9. all \in F /\ Len(all) = Len(c.errs) + Len(errs) /\ (errs = <<>> => all = c.errs)
  BY <1>3, <1>4 DEF all
<1>10. With(c, errs) \in [errs : F, leak : Nat]
  BY <1>2, <1>8, <1>9
<1>11. With(c, errs) \in Checks(body)
  BY <1>10 DEF Checks, F
<1> QED BY <1>6, <1>8, <1>9, <1>11

\* A check that adds errors, none exactly if it is good.
LEMMA JudgedWith ==
  ASSUME NEW body, NEW c \in Checks(body), NEW errs \in Seq(Faults(body)), NEW good, errs = <<>> <=> good
  PROVE  JudgedAs(body, c, With(c, errs), good)
<1>1. /\ With(c, errs) \in Checks(body)
      /\ Len(With(c, errs).errs) = Len(c.errs) + Len(errs)
      /\ errs = <<>> => With(c, errs) = c
  BY WithIs
<1>2. Len(c.errs) \in Nat /\ Len(errs) \in Nat
  BY ChecksAre, LenProperties
<1>3. errs # <<>> => Len(errs) # 0
  BY EmptySeq
<1>4. Len(c.errs) <= Len(With(c, errs).errs) /\ (errs # <<>> => Len(c.errs) < Len(With(c, errs).errs))
  BY <1>1, <1>2, <1>3
<1> QED BY <1>1, <1>4 DEF JudgedAs, Judges

\* One error.
LEMMA JudgedWrong ==
  ASSUME NEW body, NEW c \in Checks(body), NEW e \in Faults(body), NEW good, ~good
  PROVE  JudgedAs(body, c, With(c, <<e>>), good)
<1>1. <<e>> \in Seq(Faults(body)) /\ <<e>> # <<>>
  OBVIOUS
<1> QED BY <1>1, JudgedWith

-----------------------------------------------------------------------------
(* Checks one after the other *)

\* f[k] is what the first k of F make of c.
Chain(f, n, c, F) == f[0] = c /\ \A k \in 1..n : f[k] = F[k][f[k - 1]]

\* A loop that passes c on through the functions F has a value after every turn,
LEMMA LoopExists ==
  ASSUME NEW C, NEW c \in C, NEW n \in Nat, NEW F \in [1..n -> [C -> C]]
  PROVE  \E f \in [0..n -> C] : Chain(f, n, c, F)
<1> DEFINE G == [i \in Nat |-> [x \in C |-> IF i + 1 \in 1..n THEN F[i + 1][x] ELSE x]]
<1>1. G \in [Nat -> [C -> C]]
  <2>1. ASSUME NEW i \in Nat, NEW x \in C PROVE (IF i + 1 \in 1..n THEN F[i + 1][x] ELSE x) \in C
    OBVIOUS
  <2> QED BY <2>1
<1>2. PICK g \in [Nat -> C] : \A m \in Nat : Makes(g, m, c, G)
  <2> HIDE DEF G
  <2> QED BY <1>1, Recursion
<1>3. g[0] = c
  BY <1>2 DEF Makes
<1>4. ASSUME NEW k \in 1..n PROVE g[k] = F[k][g[k - 1]]
  <2>1. k - 1 \in Nat /\ (k - 1) + 1 = k /\ k \in Nat /\ k - 1 < k
    OBVIOUS
  <2>2. g[(k - 1) + 1] = G[k - 1][g[k - 1]]
    <3>1. Makes(g, k, c, G)
      BY <1>2, <2>1
    <3> HIDE DEF G
    <3> QED BY <2>1, <3>1 DEF Makes
  <2>3. g[k - 1] \in C
    BY <1>2, <2>1
  <2>4. G[k - 1][g[k - 1]] = F[k][g[k - 1]]
    BY <2>1, <2>3
  <2> QED BY <2>1, <2>2, <2>4
<1> DEFINE f == [i \in 0..n |-> g[i]]
<1>5. f \in [0..n -> C] /\ f[0] = c
  BY <1>2, <1>3
<1>6. ASSUME NEW k \in 1..n PROVE f[k] = F[k][f[k - 1]]
  <2>1. k \in 0..n /\ k - 1 \in 0..n
    OBVIOUS
  <2> QED BY <1>4, <2>1
<1> HIDE DEF f
<1> QED BY <1>5, <1>6 DEF Chain

\* So is g[k], if F is what makes them where they are in C.
ChainIn(g, n, c, C, F) == g[0] = c /\ \A k \in 1..n : g[k - 1] \in C => g[k] = F[k][g[k - 1]]

\* and any function with its equations has the same ones.
LEMMA LoopSame ==
  ASSUME NEW C, NEW c \in C, NEW n \in Nat, NEW F, NEW f \in [0..n -> C], Chain(f, n, c, F),
         NEW g, ChainIn(g, n, c, C, F)
  PROVE  \A k \in 0..n : g[k] = f[k]
<1> DEFINE T == {k \in Nat : k <= n => g[k] = f[k]}
<1>1. 0 \in T
  BY DEF Chain, ChainIn
<1>2. ASSUME NEW k \in Nat, k \in T PROVE k + 1 \in T
  <2> SUFFICES ASSUME k + 1 <= n PROVE g[k + 1] = f[k + 1]
    OBVIOUS
  <2>1. k + 1 \in 1..n /\ (k + 1) - 1 = k /\ k <= n /\ k \in 0..n
    OBVIOUS
  <2>2. g[k] = f[k] /\ f[k] \in C
    BY <1>2, <2>1
  <2>3. f[k + 1] = F[k + 1][f[k]]
    BY <2>1 DEF Chain
  <2>4. g[k + 1] = F[k + 1][g[k]]
    BY <2>1, <2>2 DEF ChainIn
  <2> QED BY <2>2, <2>3, <2>4
<1> HIDE DEF T
<1>3. \A k \in Nat : k \in T
  BY <1>1, <1>2, Induct
<1> QED BY <1>3 DEF T

\* G: those that are good.
LEMMA LoopJudges ==
  ASSUME NEW body, NEW c \in Checks(body), NEW n \in Nat, NEW f \in [0..n -> Checks(body)],
         f[0] = c, NEW G, \A k \in 1..n : Judges(f[k - 1], f[k], k \in G)
  PROVE  JudgedAs(body, c, f[n], 1..n \subseteq G)
<1> DEFINE T == {i \in Nat : i <= n => JudgedAs(body, c, f[i], 1..i \subseteq G)}
<1>1. 0 \in T
  <2>1. 1..0 \subseteq G
    OBVIOUS
  <2> QED BY <2>1, JudgedSame
<1>2. ASSUME NEW i \in Nat, i \in T PROVE i + 1 \in T
  <2> SUFFICES ASSUME i + 1 <= n PROVE JudgedAs(body, c, f[i + 1], 1..(i + 1) \subseteq G)
    OBVIOUS
  <2>1. JudgedAs(body, c, f[i], 1..i \subseteq G)
    BY <1>2
  <2>2. i + 1 \in 1..n /\ (i + 1) - 1 = i /\ i + 1 \in 0..n /\ i \in 0..n
    OBVIOUS
  <2>3. JudgedAs(body, f[i], f[i + 1], i + 1 \in G)
    <3>1. Judges(f[(i + 1) - 1], f[i + 1], i + 1 \in G)
      BY <2>2
    <3> QED BY <2>2, <3>1 DEF JudgedAs
  <2>4. JudgedAs(body, c, f[i + 1], 1..i \subseteq G /\ i + 1 \in G)
    <3> DEFINE p == 1..i \subseteq G
               q == i + 1 \in G
               d == f[i]
               e == f[i + 1]
    <3>1. JudgedAs(body, c, d, p) /\ JudgedAs(body, d, e, q) /\ d \in Checks(body)
      BY <2>1, <2>3 DEF JudgedAs
    <3> HIDE DEF p, q, d, e
    <3>2. JudgedAs(body, c, e, p /\ q)
      BY <3>1, JudgedThen
    <3> QED BY <3>2 DEF p, q, d, e
  <2>5. (1..i \subseteq G /\ i + 1 \in G) <=> 1..(i + 1) \subseteq G
    <3>1. 1..(i + 1) = (1..i) \union {i + 1}
      OBVIOUS
    <3> QED BY <3>1
  <2> QED BY <2>4, <2>5, JudgedIff
<1> HIDE DEF T
<1>3. n \in T
  BY <1>1, <1>2, Induct
<1> QED BY <1>3 DEF T

-----------------------------------------------------------------------------
(* Where a path leads *)

\* What one step leads to.
To(x, step) == {x.items[k].value : k \in {k \in DOMAIN x.items : step = KeyOf(x, k)}}
                 \union {y \in {x} : step \in Alternatives}

\* One step of a path leads to an item, or stays at the name of an alternative.
LEMMA ToIs ==
  ASSUME NEW x
  PROVE  /\ \A k \in DOMAIN x.items : x.items[k].value \in To(x, KeyOf(x, k))
         /\ \A step \in Alternatives : x \in To(x, step)
         /\ \A step : To(x, step) \subseteq ItemsOf(x) \union {x}
<1>1. \A k \in DOMAIN x.items : x.items[k].value \in To(x, KeyOf(x, k))
  BY DEF To
<1>2. \A step \in Alternatives : x \in To(x, step)
  BY DEF To
<1>3. \A step : To(x, step) \subseteq ItemsOf(x) \union {x}
  BY DEF To, ItemsOf
<1> QED BY <1>1, <1>2, <1>3

\* at is where the steps of path lead, one by one, from v.
Leading(here, v, path) ==
  /\ here[0] = {v}
  /\ \A k \in 1..Len(path) : here[k] = UNION {To(x, path[k]) : x \in here[k - 1]}

\* Leads, by where the path leads after each of its steps.
LEMMA LeadsIs ==
  ASSUME NEW body, IsJson(body), NEW v \in Within(body), NEW S, NEW path \in Seq(S)
  PROVE  \E here : /\ here \in [0..Len(path) -> SUBSET Within(body)]
                 /\ Leading(here, v, path)
                 /\ Leads(v, path) = here[Len(path)]
<1> DEFINE n == Len(path)
           C == SUBSET Within(body)
           F == [k \in 1..n |-> [X \in C |-> UNION {To(x, path[k]) : x \in X}]]
<1>1. n \in Nat
  BY LenProperties
<1> HIDE DEF n
<1>2. F \in [1..n -> [C -> C]]
  <2> SUFFICES ASSUME NEW k \in 1..n, NEW X \in C, NEW x \in X PROVE To(x, path[k]) \subseteq Within(body)
    OBVIOUS
  <2>1. ItemsOf(x) \subseteq Within(body)
    BY JsonWithin
  <2> QED BY <2>1, ToIs
<1>3. {v} \in C
  OBVIOUS
<1>4. PICK f \in [0..n -> C] : f[0] = {v} /\ \A k \in 1..n : f[k] = F[k][f[k - 1]]
  <2> DEFINE c == {v}
  <2> HIDE DEF F, C, c
  <2>1. \E f \in [0..n -> C] : Chain(f, n, c, F)
    BY <1>1, <1>2, <1>3, LoopExists DEF c
  <2> QED BY <2>1 DEF c, Chain
<1>5. \A k \in 1..n : f[k] = UNION {To(x, path[k]) : x \in f[k - 1]}
  <2> SUFFICES ASSUME NEW k \in 1..n PROVE f[k] = UNION {To(x, path[k]) : x \in f[k - 1]}
    OBVIOUS
  <2>1. k - 1 \in 0..n
    BY <1>1
  <2>2. f[k - 1] \in C
    BY <1>4, <2>1
  <2> HIDE DEF C
  <2>3. F[k][f[k - 1]] = UNION {To(x, path[k]) : x \in f[k - 1]}
    BY <2>2
  <2> QED BY <1>4, <2>3
<1> HIDE DEF F
<1> DEFINE Is(g) == g = [k \in 0..n |-> IF k = 0 THEN {v} ELSE UNION {To(x, path[k]) : x \in g[k - 1]}]
<1>6. Is(f)
  <2>1. \A k \in 0..n : f[k] = IF k = 0 THEN {v} ELSE UNION {To(x, path[k]) : x \in f[k - 1]}
    <3> SUFFICES ASSUME NEW k \in 0..n, k # 0 PROVE f[k] = UNION {To(x, path[k]) : x \in f[k - 1]}
      BY <1>4
    <3>1. k \in 1..n
      BY <1>1
    <3> QED BY <1>5, <3>1
  <2>2. f = [k \in 0..n |-> f[k]]
    BY <1>4
  <2> QED BY <2>1, <2>2
<1>7. Leads(v, path) = (CHOOSE g : Is(g))[n]
  BY DEF Leads, n, To
<1>8. PICK g : Is(g) /\ Leads(v, path) = g[n]
  <2> HIDE DEF Is
  <2> QED BY <1>6, <1>7
<1>9. g[0] = {v} /\ \A k \in 1..n : g[k] = UNION {To(x, path[k]) : x \in g[k - 1]}
  <2>1. \A k \in 0..n : g[k] = IF k = 0 THEN {v} ELSE UNION {To(x, path[k]) : x \in g[k - 1]}
    BY <1>8
  <2>2. 0 \in 0..n /\ \A k \in 1..n : k \in 0..n /\ k # 0
    BY <1>1
  <2> QED BY <2>1, <2>2
<1> DEFINE T == {k \in Nat : k <= n => g[k] = f[k]}
<1>10. 0 \in T
  BY <1>4, <1>9
<1>11. ASSUME NEW k \in Nat, k \in T PROVE k + 1 \in T
  <2> SUFFICES ASSUME k + 1 <= n PROVE g[k + 1] = f[k + 1]
    OBVIOUS
  <2>1. k + 1 \in 1..n /\ (k + 1) - 1 = k /\ k <= n
    BY <1>1
  <2>2. g[k] = f[k]
    BY <1>11, <2>1
  <2> QED BY <1>5, <1>9, <2>1, <2>2
<1> HIDE DEF T
<1>12. n \in T
  BY <1>1, <1>10, <1>11, Induct
<1>13. g[n] = f[n]
  BY <1>1, <1>12 DEF T
<1>14. Leading(f, v, path)
  BY <1>4, <1>5 DEF Leading, n
<1> QED BY <1>4, <1>8, <1>13, <1>14 DEF n

\* A path of no steps stays, and one of one leads where the step does.
LEMMA LeadsEmpty ==
  ASSUME NEW body, IsJson(body), NEW v \in Within(body)
  PROVE  Leads(v, <<>>) = {v}
<1>1. <<>> \in Seq(LocItems) /\ Len(<<>>) = 0
  OBVIOUS
<1>2. PICK here : Leading(here, v, <<>>) /\ Leads(v, <<>>) = here[Len(<<>>)]
  BY <1>1, LeadsIs
<1> QED BY <1>1, <1>2 DEF Leading

\* One step of a path leads where the step goes.
LEMMA LeadsStep ==
  ASSUME NEW body, IsJson(body), NEW v \in Within(body), NEW s
  PROVE  Leads(v, <<s>>) = To(v, s)
<1>1. <<s>> \in Seq({s}) /\ Len(<<s>>) = 1 /\ <<s>>[1] = s /\ 1 \in 1..1 /\ 1 - 1 = 0
  OBVIOUS
<1>2. PICK here : Leading(here, v, <<s>>) /\ Leads(v, <<s>>) = here[1]
  BY <1>1, LeadsIs
<1>3. here[0] = {v} /\ here[1] = UNION {To(x, s) : x \in here[0]}
  <2>1. \A k \in 1..Len(<<s>>) : here[k] = UNION {To(x, <<s>>[k]) : x \in here[k - 1]}
    BY <1>2 DEF Leading
  <2>2. here[1] = UNION {To(x, <<s>>[1]) : x \in here[1 - 1]}
    BY <1>1, <2>1
  <2> QED BY <1>1, <1>2, <2>2 DEF Leading
<1> QED BY <1>2, <1>3

\* A path after another.
LEMMA LeadsOn ==
  ASSUME NEW body, IsJson(body), NEW S, NEW p \in Seq(S), NEW q \in Seq(S),
         NEW v \in Within(body), NEW y \in Leads(v, p), NEW z \in Leads(y, q)
  PROVE  /\ y \in Within(body) /\ z \in Within(body)
         /\ z \in Leads(v, p \o q)
<1> DEFINE m == Len(p)
           n == Len(q)
           r == p \o q
<1>1. /\ m \in Nat /\ n \in Nat /\ r \in Seq(S) /\ Len(r) = m + n
      /\ \A k \in 1..m : r[k] = p[k]
      /\ \A k \in 1..n : r[m + k] = q[k]
  <2>1. /\ m \in Nat /\ n \in Nat /\ r \in Seq(S) /\ Len(r) = m + n
        /\ \A k \in 1..(m + n) : r[k] = IF k <= m THEN p[k] ELSE q[k - m]
    BY LenProperties, ConcatProperties
  <2> HIDE DEF m, n, r
  <2>2. ASSUME NEW k \in 1..m PROVE r[k] = p[k]
    <3>1. k \in 1..(m + n) /\ k <= m
      BY <2>1
    <3> QED BY <2>1, <3>1
  <2>3. ASSUME NEW k \in 1..n PROVE r[m + k] = q[k]
    <3>1. m + k \in 1..(m + n) /\ ~(m + k <= m) /\ (m + k) - m = k
      BY <2>1
    <3> QED BY <2>1, <3>1
  <2> QED BY <2>1, <2>2, <2>3
<1>2. PICK a : a \in [0..m -> SUBSET Within(body)] /\ Leading(a, v, p) /\ Leads(v, p) = a[m]
  BY LeadsIs
<1>3. y \in Within(body)
  BY <1>1, <1>2
<1>4. PICK b : b \in [0..n -> SUBSET Within(body)] /\ Leading(b, y, q) /\ Leads(y, q) = b[n]
  BY <1>3, LeadsIs
<1>5. z \in Within(body)
  BY <1>1, <1>4
<1>6. PICK d : Leading(d, v, r) /\ Leads(v, r) = d[m + n]
  <2> HIDE DEF r
  <2>1. \E d : Leading(d, v, r) /\ Leads(v, r) = d[Len(r)]
    BY <1>1, LeadsIs
  <2> QED BY <1>1, <2>1
<1> HIDE DEF m, n, r
<1> DEFINE T == {k \in Nat : k <= m => d[k] = a[k]}
           V == {k \in Nat : k <= n => b[k] \subseteq d[m + k]}
<1>7. /\ a[0] = {v} /\ \A k \in 1..m : a[k] = UNION {To(x, p[k]) : x \in a[k - 1]}
      /\ b[0] = {y} /\ \A k \in 1..n : b[k] = UNION {To(x, q[k]) : x \in b[k - 1]}
      /\ d[0] = {v} /\ \A k \in 1..(m + n) : d[k] = UNION {To(x, r[k]) : x \in d[k - 1]}
  BY <1>1, <1>2, <1>4, <1>6 DEF Leading, m, n
<1>8. 0 \in T
  BY <1>7
<1>9. ASSUME NEW k \in Nat, k \in T PROVE k + 1 \in T
  <2> SUFFICES ASSUME k + 1 <= m PROVE d[k + 1] = a[k + 1]
    OBVIOUS
  <2>1. k + 1 \in 1..m /\ k + 1 \in 1..(m + n) /\ (k + 1) - 1 = k /\ k <= m
    BY <1>1
  <2>2. d[k] = a[k] /\ r[k + 1] = p[k + 1]
    BY <1>1, <1>9, <2>1
  <2>3. a[k + 1] = UNION {To(x, p[k + 1]) : x \in a[k]} /\ d[k + 1] = UNION {To(x, r[k + 1]) : x \in d[k]}
    BY <1>7, <2>1
  <2> QED BY <2>2, <2>3
<1>10. \A k \in Nat : k \in T
  <2> HIDE DEF T
  <2> QED BY <1>8, <1>9, Induct
<1>11. 0 \in V
  <2>1. d[m] = a[m] /\ m + 0 = m
    BY <1>1, <1>10
  <2> QED BY <1>2, <1>7, <2>1
<1>12. ASSUME NEW k \in Nat, k \in V PROVE k + 1 \in V
  <2> SUFFICES ASSUME k + 1 <= n PROVE b[k + 1] \subseteq d[m + (k + 1)]
    OBVIOUS
  <2>1. k + 1 \in 1..n /\ (k + 1) - 1 = k /\ k <= n /\ m + (k + 1) \in 1..(m + n) /\ (m + (k + 1)) - 1 = m + k
    BY <1>1
  <2>2. b[k] \subseteq d[m + k] /\ r[m + (k + 1)] = q[k + 1]
    BY <1>1, <1>12, <2>1
  <2>3. b[k + 1] = UNION {To(x, q[k + 1]) : x \in b[k]}
    BY <1>7, <2>1
  <2>4. d[m + (k + 1)] = UNION {To(x, r[m + (k + 1)]) : x \in d[(m + (k + 1)) - 1]}
    BY <1>7, <2>1
  <2> QED BY <2>1, <2>2, <2>3, <2>4
<1>13. n \in V
  <2> HIDE DEF V
  <2> QED BY <1>1, <1>11, <1>12, Induct
<1>14. z \in d[m + n]
  BY <1>1, <1>4, <1>13
<1> QED BY <1>3, <1>5, <1>6, <1>14 DEF r

-----------------------------------------------------------------------------
(* Errors at the values they show *)

\* v is the value at loc in the body.
LeadsTo(body, loc, v) == /\ loc \in Seq(LocItems) /\ Len(loc) >= 1
                    /\ v \in Within(body) /\ v \in Leads(body, Tail(loc))

\* Words, keys, indices and alternatives are parts of paths.
LEMMA NamesArePlaces ==
  /\ \A w \in Words : Name(w) \in LocItems
  /\ \A t \in Seq(STRING) : Str(t) \in LocItems
  /\ \A i \in Nat : Index(i) \in LocItems
  /\ Alternatives \subseteq LocItems
<1>1. Tags \union {"str", "dict", "list", "DICT_LOC", "LIST_LOC"} \subseteq Words
  BY DEF Tags, Words
<1>2. /\ \A w \in Words : Name(w) \in LocItems
      /\ \A t \in Seq(STRING) : Str(t) \in LocItems
      /\ \A i \in Nat : Index(i) \in LocItems
  BY DEF LocItems
<1> QED BY <1>1, <1>2 DEF Alternatives

\* The steps to an item are its key or index.
LEMMA KeyIsPlace ==
  ASSUME NEW body, IsJson(body), NEW x \in Within(body), NEW k \in 1..Len(x.items)
  PROVE  /\ Step(x, k) = KeyOf(x, k)
         /\ KeyOf(x, k) \in LocItems
         /\ x.items[k].value \in To(x, KeyOf(x, k))
<1>1. JsonIn(x, Within(body))
  BY JsonIs
<1>2. x.items[k].key \in Seq(STRING) /\ k \in DOMAIN x.items /\ k - 1 \in Nat
  BY <1>1 DEF JsonIn
<1>3. Step(x, k) = KeyOf(x, k)
  BY DEF Step, KeyOf
<1>4. KeyOf(x, k) \in LocItems
  BY <1>2, NamesArePlaces DEF KeyOf
<1> QED BY <1>2, <1>3, <1>4, ToIs

\* A path goes on from where it leads, and by one step, and from the body.
LEMMA AtOn ==
  ASSUME NEW body, IsJson(body), NEW loc, NEW v, LeadsTo(body, loc, v), NEW q \in Seq(LocItems), NEW y \in Leads(v, q)
  PROVE  LeadsTo(body, loc \o q, y)
<1>1. loc \in Seq(LocItems) /\ Len(loc) >= 1 /\ v \in Within(body) /\ v \in Leads(body, Tail(loc))
  BY DEF LeadsTo
<1>2. loc # <<>> /\ Len(loc) \in Nat /\ Len(q) \in Nat
  BY <1>1, LenProperties
<1>3. Tail(loc) \in Seq(LocItems)
  BY <1>1, <1>2, HeadTailProperties
<1>4. loc \o q \in Seq(LocItems) /\ Len(loc \o q) = Len(loc) + Len(q)
  BY <1>1, ConcatProperties
<1>5. Tail(loc \o q) = Tail(loc) \o q
  <2>1. Tail(loc) \o q \in Seq(LocItems) /\ Len(Tail(loc) \o q) = (Len(loc) - 1) + Len(q)
        /\ Len(Tail(loc)) = Len(loc) - 1
        /\ \A i \in 1..Len(Tail(loc)) : Tail(loc)[i] = loc[i + 1]
    BY <1>1, <1>2, <1>3, ConcatProperties, HeadTailProperties
  <2>2. loc \o q # <<>>
    BY <1>1, <1>2, <1>4
  <2>3. Tail(loc \o q) \in Seq(LocItems) /\ Len(Tail(loc \o q)) = (Len(loc) + Len(q)) - 1
        /\ \A i \in 1..Len(Tail(loc \o q)) : Tail(loc \o q)[i] = (loc \o q)[i + 1]
    BY <1>4, <2>2, HeadTailProperties
  <2>4. ASSUME NEW i \in 1..((Len(loc) + Len(q)) - 1) PROVE Tail(loc \o q)[i] = (Tail(loc) \o q)[i]
    <3>1. i + 1 \in 1..(Len(loc) + Len(q)) /\ i \in 1..((Len(loc) - 1) + Len(q))
      BY <1>2
    <3>2. (loc \o q)[i + 1] = IF i + 1 <= Len(loc) THEN loc[i + 1] ELSE q[(i + 1) - Len(loc)]
      BY <1>1, <3>1, ConcatProperties
    <3>3. (Tail(loc) \o q)[i] = IF i <= Len(loc) - 1 THEN Tail(loc)[i] ELSE q[i - (Len(loc) - 1)]
      BY <1>3, <2>1, <3>1, ConcatProperties
    <3>4. Tail(loc \o q)[i] = (loc \o q)[i + 1]
      BY <2>3
    <3>5. CASE i <= Len(loc) - 1
      <4>1. i + 1 <= Len(loc) /\ i \in 1..Len(Tail(loc))
        BY <1>1, <1>2, <2>1, <3>5
      <4> QED BY <2>1, <3>2, <3>3, <3>4, <3>5, <4>1
    <3>6. CASE ~(i <= Len(loc) - 1)
      <4>1. ~(i + 1 <= Len(loc)) /\ (i + 1) - Len(loc) = i - (Len(loc) - 1)
        BY <1>1, <1>2, <3>6
      <4> QED BY <3>2, <3>3, <3>4, <3>6, <4>1
    <3> QED BY <3>5, <3>6
  <2>5. Len(Tail(loc \o q)) = Len(Tail(loc) \o q)
    BY <1>2, <2>1, <2>3
  <2> QED BY <2>1, <2>3, <2>4, <2>5, SeqEqual
<1>6. body \in Within(body)
  BY WithinIs
<1>7. y \in Within(body) /\ y \in Leads(body, Tail(loc) \o q)
  BY <1>1, <1>3, <1>6, LeadsOn
<1>8. Len(loc \o q) >= 1
  BY <1>1, <1>2, <1>4
<1> QED BY <1>4, <1>5, <1>7, <1>8 DEF LeadsTo

\* A path with one step more leads where that step goes.
LEMMA AtStep ==
  ASSUME NEW body, IsJson(body), NEW loc, NEW v, LeadsTo(body, loc, v), NEW s \in LocItems, NEW y \in To(v, s)
  PROVE  LeadsTo(body, Append(loc, s), y)
<1>1. loc \in Seq(LocItems) /\ v \in Within(body)
  BY DEF LeadsTo
<1>2. <<s>> \in Seq(LocItems)
  OBVIOUS
<1>3. y \in Leads(v, <<s>>)
  BY <1>1, LeadsStep
<1>4. LeadsTo(body, loc \o <<s>>, y)
  BY <1>2, <1>3, AtOn
<1>5. Append(loc, s) = loc \o <<s>>
  BY <1>1, AppendIsConcat
<1> QED BY <1>4, <1>5

\* An alternative is a step to where it is.
LEMMA AtName ==
  ASSUME NEW body, IsJson(body), NEW loc, NEW v, LeadsTo(body, loc, v), NEW s \in Alternatives
  PROVE  LeadsTo(body, Append(loc, s), v)
BY ToIs, NamesArePlaces, AtStep

\* The path of an error about the whole body leads to the body.
LEMMA AtRoot == ASSUME NEW body, IsJson(body) PROVE LeadsTo(body, Root, body)
<1>1. Name("body") \in LocItems
  <2>1. "body" \in Words
    BY DEF Words
  <2> QED BY <2>1, NamesArePlaces
<1>2. Root \in Seq(LocItems) /\ Len(Root) = 1 /\ Tail(Root) = <<>>
  BY <1>1 DEF Root
<1>3. body \in Within(body)
  BY WithinIs
<1>4. body \in Leads(body, <<>>)
  BY <1>3, LeadsEmpty
<1>5. Len(Root) >= 1
  BY <1>2
<1> QED BY <1>2, <1>3, <1>4, <1>5 DEF LeadsTo

\* An error of the wire model is one, with its type, path and input.
LEMMA WireErrIs ==
  ASSUME NEW inputs, NEW type \in Types, NEW loc \in Seq(LocItems), NEW input \in inputs
  PROVE  /\ WireErr(type, loc, input) \in ErrorSet(inputs)
         /\ WireErr(type, loc, input).type = type
         /\ WireErr(type, loc, input).loc = loc
         /\ WireErr(type, loc, input).input = input
<1> DEFINE T == Types
           L == Seq(LocItems)
           Q == Seq(STRING)
           none == <<>>
<1>1. none \in Q
  OBVIOUS
<1>2. WireErr(type, loc, input) = [type |-> type, loc |-> loc, wire |-> TRUE, input |-> input, quotes |-> none]
  BY DEF WireErr
<1>3. ErrorSet(inputs) = [type : T, loc : L, wire : BOOLEAN, input : inputs, quotes : Q]
  BY DEF ErrorSet
<1>4. loc \in L /\ type \in T
  OBVIOUS
<1> HIDE DEF T, L, Q, none
<1> QED BY <1>1, <1>2, <1>3, <1>4

\* An error that shows the value it points at.
LEMMA FaultIs ==
  ASSUME NEW body, NEW loc, NEW v, LeadsTo(body, loc, v), NEW type \in Types, type # "missing" \/ Len(loc) = 1
  PROVE  WireErr(type, loc, v) \in Faults(body)
<1>1. loc \in Seq(LocItems) /\ v \in Within(body) /\ v \in Leads(body, Tail(loc))
  BY DEF LeadsTo
<1> DEFINE e == WireErr(type, loc, v)
<1>2. e \in ErrorSet(Within(body)) /\ e.type = type /\ e.loc = loc /\ e.input = v
  BY <1>1, WireErrIs
<1> HIDE DEF e
<1>3. ~(e.type = "missing" /\ Len(e.loc) > 1)
  <2>1. CASE type # "missing"
    BY <1>2, <2>1
  <2>2. CASE Len(loc) = 1
    <3>1. ~(Len(loc) > 1)
      BY <2>2
    <3> QED BY <1>2, <3>1
  <2> QED BY <2>1, <2>2
<1>4. PointsAt(body, e)
  BY <1>1, <1>2, <1>3 DEF PointsAt
<1>5. e \in Faults(body)
  BY <1>2, <1>4 DEF Faults
<1> QED BY <1>5 DEF e

\* A missing field is missing where the rest of the path leads.
LEMMA MissingIs ==
  ASSUME NEW body, IsJson(body), NEW loc, NEW v, LeadsTo(body, loc, v), NEW key \in Words, ~HasKey(v, key)
  PROVE  WireErr("missing", Append(loc, Name(key)), v) \in Faults(body)
<1>1. loc \in Seq(LocItems) /\ Len(loc) >= 1 /\ Len(loc) \in Nat /\ v \in Within(body) /\ v \in Leads(body, Tail(loc))
  BY LenProperties DEF LeadsTo
<1>2. Name(key) \in LocItems
  BY NamesArePlaces
<1> DEFINE l == Append(loc, Name(key))
           e == WireErr("missing", l, v)
<1>3. l \in Seq(LocItems) /\ Len(l) = Len(loc) + 1 /\ l[Len(loc) + 1] = Name(key)
      /\ \A i \in 1..Len(loc) : l[i] = loc[i]
  BY <1>1, <1>2, AppendProperties
<1>4. e \in ErrorSet(Within(body)) /\ e.type = "missing" /\ e.loc = l /\ e.input = v
  <2>1. "missing" \in Types
    BY DEF Types
  <2> HIDE DEF l
  <2> QED BY <1>1, <1>3, <2>1, WireErrIs
<1>5. Front(l) = loc
  <2> HIDE DEF l
  <2>1. Front(l) = SubSeq(l, 1, Len(loc))
    <3>1. Len(l) - 1 = Len(loc)
      BY <1>1, <1>3
    <3> QED BY <3>1 DEF Front
  <2>2. Len(loc) \in 0..Len(l)
    BY <1>1, <1>3
  <2>3. /\ SubSeq(l, 1, Len(loc)) \in Seq(LocItems)
        /\ Len(SubSeq(l, 1, Len(loc))) = Len(loc)
        /\ \A i \in 1..Len(loc) : SubSeq(l, 1, Len(loc))[i] = l[i]
    BY <1>3, <2>2, SubSeqIsStart
  <2> QED BY <1>1, <1>3, <2>1, <2>3, SeqEqual
<1>6. Last(l) = Name(key)
  BY <1>3 DEF Last
<1>7. Name(key).text = <<key>>
  BY DEF Name, Str, Value
<1>8. <<key>> \notin Keys(v)
  BY DEF HasKey, Keys, ToSet
<1> HIDE DEF e, l
<1>9. PointsAt(body, e)
  <2>1. Len(e.loc) > 1
    BY <1>1, <1>3, <1>4
  <2> QED BY <1>1, <1>4, <1>5, <1>6, <1>7, <1>8, <2>1 DEF PointsAt
<1>10. e \in Faults(body)
  BY <1>4, <1>9 DEF Faults
<1> QED BY <1>10 DEF e, l

-----------------------------------------------------------------------------
(* too_deep *)

\* What may be found below x: values its paths lead to.
HitsAt(v, x) == {h \in [path : Seq(LocItems), value : Within(v)] : h.value \in Leads(x, h.path)}
\* What too_deep may find in x, under v: hits and a counter.
FoundIn(v, x) == [hits : Seq(HitsAt(v, x)), leak : Nat]

\* What too_deep finds is hits, with a counter.
LEMMA FoundIs ==
  ASSUME NEW v, NEW x, NEW d \in FoundIn(v, x)
  PROVE  d.hits \in Seq(HitsAt(v, x)) /\ d.leak \in Nat /\ Len(d.hits) \in Nat /\ (d.hits = <<>> <=> Len(d.hits) = 0)
<1> DEFINE H == Seq(HitsAt(v, x))
<1>1. d \in [hits : H, leak : Nat]
  BY DEF FoundIn
<1> HIDE DEF H
<1>2. d.hits \in H /\ d.leak \in Nat
  BY <1>1
<1>3. d.hits \in Seq(HitsAt(v, x))
  BY <1>2 DEF H
<1> QED BY <1>2, <1>3, LenProperties, EmptySeq

\* Hits makes one of those.
LEMMA HitsIs ==
  ASSUME NEW v, NEW x, NEW hits \in Seq(HitsAt(v, x)), NEW l \in Nat
  PROVE  Hits(hits, l) \in FoundIn(v, x) /\ Hits(hits, l).hits = hits /\ Hits(hits, l).leak = l
<1> DEFINE H == Seq(HitsAt(v, x))
<1>1. FoundIn(v, x) = [hits : H, leak : Nat] /\ hits \in H
  BY DEF FoundIn
<1> HIDE DEF H
<1> QED BY <1>1 DEF Hits

\* One hit, seen from the value the item is in.
Under(x, k, tag, hit) == [hit EXCEPT !.path = <<Step(x, k)>> \o tag \o @]

\* A hit of an item is one of the value, with the item's step, and its
\* alternative's name, before its path.
LEMMA UnderIs ==
  ASSUME NEW v, IsJson(v), NEW x \in Within(v), NEW k \in 1..Len(x.items),
         NEW tag, tag = <<>> \/ \E s \in Alternatives : tag = <<s>>,
         NEW hit \in HitsAt(v, x.items[k].value)
  PROVE  Under(x, k, tag, hit) \in HitsAt(v, x)
<1> DEFINE y == x.items[k].value
           s == KeyOf(x, k)
           P == Seq(LocItems)
           p == <<s>> \o tag \o hit.path
<1>1. s \in LocItems /\ Step(x, k) = s /\ y \in To(x, s)
  BY KeyIsPlace
<1>2. y \in Within(v)
  <2>1. y \in ItemsOf(x)
    BY JsonWithin
  <2> QED BY <2>1, JsonWithin
<1>3. hit \in [path : P, value : Within(v)] /\ hit.value \in Leads(y, hit.path)
  BY DEF HitsAt
<1> HIDE DEF y, s
<1>4. <<s>> \in P /\ tag \in P
  <2>1. <<s>> \in P
    BY <1>1
  <2>2. ASSUME NEW a \in Alternatives PROVE <<a>> \in P
    <3>1. a \in LocItems
      BY NamesArePlaces
    <3> QED BY <3>1
  <2>3. <<>> \in P
    OBVIOUS
  <2> QED BY <2>1, <2>2, <2>3
<1>5. y \in Leads(x, <<s>>)
  BY <1>1, LeadsStep
<1>6. y \in Leads(y, tag)
  <2>1. CASE tag = <<>>
    BY <1>2, <2>1, LeadsEmpty
  <2>2. CASE \E a \in Alternatives : tag = <<a>>
    <3>1. PICK a \in Alternatives : tag = <<a>>
      BY <2>2
    <3>2. Leads(y, <<a>>) = To(y, a)
      BY <1>2, LeadsStep
    <3>3. y \in To(y, a)
      BY ToIs
    <3> QED BY <3>1, <3>2, <3>3
  <2> QED BY <2>1, <2>2
<1>7. <<s>> \o tag \in P /\ y \in Leads(x, <<s>> \o tag)
  BY <1>4, <1>5, <1>6, LeadsOn, ConcatProperties
<1>8. hit.path \in P /\ hit.value \in Within(v)
  <2> HIDE DEF P
  <2> QED BY <1>3
<1>9. p \in P /\ hit.value \in Leads(x, p)
  BY <1>3, <1>7, <1>8, LeadsOn, ConcatProperties
<1> HIDE DEF P
<1>10. Under(x, k, tag, hit) = [hit EXCEPT !.path = p]
  BY <1>1 DEF Under
<1> HIDE DEF p
<1>11. /\ Under(x, k, tag, hit) \in [path : P, value : Within(v)]
       /\ Under(x, k, tag, hit).path = p /\ Under(x, k, tag, hit).value = hit.value
  BY <1>3, <1>8, <1>9, <1>10
<1> QED BY <1>9, <1>11 DEF HitsAt, P

\* `below` is what is found in the values of v, from any counter.
Finds(v, below) == \A y \in Within(v), m \in Nat : below[y][m] \in FoundIn(v, y)

\* What an item adds.
ItemHits(x, k, depth, done, below) ==
  LET y == x.items[k].value
      tag == IF Container(y) /\ depth + 1 + done.leak < MAX_DEPTH THEN <<Name(y.kind)>> ELSE <<>>
      found == below[y][done.leak]
      under(hit) == [hit EXCEPT !.path = <<Step(x, k)>> \o tag \o @]
  IN Hits(done.hits \o [j \in DOMAIN found.hits |-> under(found.hits[j])], found.leak)

\* e is d with what was found.
Adds(v, x, d, e, found) == /\ e \in FoundIn(v, x)
                           /\ e.leak = found.leak
                           /\ Len(e.hits) = Len(d.hits) + Len(found.hits)

\* An item's hits are added to those of the items before it.
LEMMA ItemHitsIs ==
  ASSUME NEW v, IsJson(v), NEW x \in Within(v), NEW k \in 1..Len(x.items), NEW depth \in Nat, NEW d \in FoundIn(v, x),
         NEW below, Finds(v, below)
  PROVE  Adds(v, x, d, ItemHits(x, k, depth, d, below), below[x.items[k].value][d.leak])
<1> DEFINE y == x.items[k].value
           found == below[y][d.leak]
           tag == IF Container(y) /\ depth + 1 + d.leak < MAX_DEPTH THEN <<Name(y.kind)>> ELSE <<>>
           more == [j \in DOMAIN found.hits |-> Under(x, k, tag, found.hits[j])]
           H == HitsAt(v, x)
<1>1. d.hits \in Seq(H) /\ d.leak \in Nat
  BY FoundIs
<1>2. y \in Within(v)
  <2>1. y \in ItemsOf(x)
    <3>1. ItemsOf(x) = {x.items[i].value : i \in 1..Len(x.items)}
      BY JsonWithin
    <3> QED BY <3>1
  <2> QED BY <2>1, JsonWithin
<1>3. found \in FoundIn(v, y)
  BY <1>1, <1>2 DEF Finds
<1>4. /\ found.hits \in Seq(HitsAt(v, y)) /\ found.leak \in Nat /\ Len(found.hits) \in Nat
      /\ DOMAIN found.hits = 1..Len(found.hits)
  <2> HIDE DEF found, y
  <2>1. found.hits \in Seq(HitsAt(v, y)) /\ found.leak \in Nat /\ Len(found.hits) \in Nat
    BY <1>3, FoundIs
  <2> QED BY <2>1, LenProperties
<1>5. tag = <<>> \/ \E s \in Alternatives : tag = <<s>>
  <2>1. ASSUME Container(y) PROVE Name(y.kind) \in Alternatives
    BY <2>1 DEF Container, Alternatives
  <2> QED BY <2>1
<1> HIDE DEF tag
<1>6. ASSUME NEW j \in 1..Len(found.hits) PROVE Under(x, k, tag, found.hits[j]) \in H
  <2>1. found.hits[j] \in HitsAt(v, y)
    <3> HIDE DEF found, y
    <3> QED BY <1>4, ElementOfSeq
  <2> QED BY <1>5, <2>1, UnderIs
<1>7. more \in Seq(H) /\ Len(more) = Len(found.hits)
  <2> HIDE DEF H, found
  <2>1. more = [j \in 1..Len(found.hits) |-> Under(x, k, tag, found.hits[j])]
    BY <1>4
  <2>2. more \in [1..Len(found.hits) -> H]
    BY <1>6, <2>1
  <2> HIDE DEF more
  <2>3. more \in Seq(H)
    BY <1>4, <2>2, SeqDef
  <2>4. DOMAIN more = 1..Len(found.hits)
    BY <2>2
  <2>5. Len(more) \in Nat /\ DOMAIN more = 1..Len(more)
    BY <2>3, LenProperties
  <2>6. Len(more) = Len(found.hits)
    <3>1. Len(found.hits) \in Nat /\ 1..Len(more) = 1..Len(found.hits)
      BY <1>4, <2>4, <2>5
    <3> QED BY <2>5, <3>1
  <2> QED BY <2>3, <2>6
<1>8. d.hits \o more \in Seq(H) /\ Len(d.hits \o more) = Len(d.hits) + Len(more)
  <2> HIDE DEF H, more
  <2> QED BY <1>1, <1>7, ConcatProperties
<1>9. ItemHits(x, k, depth, d, below) = Hits(d.hits \o more, found.leak)
  BY DEF ItemHits, Under, tag
<1> HIDE DEF more
<1>10. /\ Hits(d.hits \o more, found.leak) \in FoundIn(v, x)
       /\ Hits(d.hits \o more, found.leak).hits = d.hits \o more
       /\ Hits(d.hits \o more, found.leak).leak = found.leak
  <2> DEFINE all == d.hits \o more
             l == found.leak
  <2>1. all \in Seq(HitsAt(v, x)) /\ l \in Nat
    BY <1>4, <1>8
  <2> HIDE DEF all, l
  <2>2. Hits(all, l) \in FoundIn(v, x) /\ Hits(all, l).hits = all /\ Hits(all, l).leak = l
    BY <2>1, HitsIs
  <2> QED BY <2>2 DEF all, l
<1> DEFINE e == ItemHits(x, k, depth, d, below)
<1>11. e \in FoundIn(v, x) /\ e.leak = found.leak /\ Len(e.hits) = Len(d.hits) + Len(found.hits)
  BY <1>7, <1>8, <1>9, <1>10
<1> HIDE DEF e
<1>12. Adds(v, x, d, e, found)
  BY <1>11 DEF Adds
<1> QED BY <1>12 DEF e

\* From a counter of zero.
None0(found) == found.hits = <<>> /\ found.leak = 0
\* Where nothing is found in a value, the counter is left at 0.
Leaves(below, y) == below[y][0].hits = <<>> => below[y][0].leak = 0

\* A loop over the items finds something, from 0, exactly if one of them has
\* something, and else leaves the counter at 0.
LEMMA InItemsIs ==
  ASSUME NEW v, IsJson(v), NEW x \in Within(v), NEW depth \in Nat, NEW l \in Nat, NEW below, Finds(v, below)
  PROVE  /\ InItems(x, depth, l, below) \in FoundIn(v, x)
         /\ l = 0 /\ (\A y \in Within(v) : Leaves(below, y)) =>
              IF \A y \in ItemsOf(x) : below[y][0].hits = <<>> THEN None0(InItems(x, depth, l, below))
              ELSE InItems(x, depth, l, below).hits # <<>>
<1> DEFINE n == Len(x.items)
           C == FoundIn(v, x)
           c == Hits(<<>>, l)
           F == [k \in 1..n |-> [d \in C |-> ItemHits(x, k, depth, d, below)]]
           value(k) == x.items[k].value
<1>1. n \in Nat
  <2>1. JsonIn(x, Within(v))
    BY JsonIs
  <2> QED BY <2>1 DEF JsonIn
<1>2. ItemsOf(x) = {value(k) : k \in 1..n} /\ ItemsOf(x) \subseteq Within(v)
  BY JsonWithin
<1>3. \A y \in Within(v), m \in Nat : below[y][m] \in FoundIn(v, y)
  BY DEF Finds
<1>4. ASSUME NEW k \in 1..n, NEW d \in C
      PROVE  Adds(v, x, d, ItemHits(x, k, depth, d, below), below[value(k)][d.leak])
  BY ItemHitsIs
<1>5. c \in C /\ c.hits = <<>> /\ c.leak = l
  <2> DEFINE e == <<>>
  <2>1. e \in Seq(HitsAt(v, x))
    BY EmptySeq
  <2> HIDE DEF e
  <2>2. Hits(e, l) \in FoundIn(v, x) /\ Hits(e, l).hits = e /\ Hits(e, l).leak = l
    BY <2>1, HitsIs
  <2> QED BY <2>2 DEF e
<1>6. F \in [1..n -> [C -> C]]
  BY <1>4 DEF Adds
<1> HIDE DEF n, C, c, value
<1>7. \A k \in 1..n : \A d \in C : F[k][d] = ItemHits(x, k, depth, d, below)
  OBVIOUS
<1> HIDE DEF F
<1>8. PICK f \in [0..n -> C] : Chain(f, n, c, F)
  BY <1>1, <1>5, <1>6, LoopExists
<1> DEFINE Is(g) == g = [k \in 0..n |-> IF k = 0 THEN c ELSE ItemHits(x, k, depth, g[k - 1], below)]
<1>9. ASSUME NEW k \in 1..n PROVE k \in 0..n /\ k - 1 \in 0..n /\ k # 0 /\ f[k - 1] \in C /\ f[k] \in C
                                  /\ f[k] = ItemHits(x, k, depth, f[k - 1], below)
  <2>1. k \in 0..n /\ k - 1 \in 0..n /\ k # 0
    BY <1>1
  <2>2. f[k] = F[k][f[k - 1]] /\ f[k - 1] \in C /\ f[k] \in C
    BY <1>8, <2>1 DEF Chain
  <2> QED BY <1>7, <2>1, <2>2
<1>10. f[0] = c
  BY <1>8 DEF Chain
<1>11. Is(f)
  <2>1. ASSUME NEW k \in 0..n PROVE f[k] = IF k = 0 THEN c ELSE ItemHits(x, k, depth, f[k - 1], below)
    <3>1. k = 0 \/ k \in 1..n
      BY <1>1
    <3> QED BY <1>9, <1>10, <3>1
  <2>2. f = [k \in 0..n |-> f[k]]
    BY <1>8
  <2> QED BY <2>1, <2>2
<1>12. InItems(x, depth, l, below) = (CHOOSE g : Is(g))[n]
  BY DEF InItems, ItemHits, n, c
<1>13. PICK g : Is(g) /\ InItems(x, depth, l, below) = g[n]
  <2> HIDE DEF Is
  <2> QED BY <1>11, <1>12
<1>14. g[0] = c /\ \A k \in 1..n : g[k] = ItemHits(x, k, depth, g[k - 1], below)
  <2>1. \A k \in 0..n : g[k] = IF k = 0 THEN c ELSE ItemHits(x, k, depth, g[k - 1], below)
    BY <1>13
  <2>2. 0 \in 0..n
    BY <1>1
  <2> QED BY <1>9, <2>1, <2>2
<1> HIDE DEF Is
<1>15. ChainIn(g, n, c, C, F)
  BY <1>7, <1>14 DEF ChainIn
<1>16. InItems(x, depth, l, below) = f[n]
  <2>1. \A k \in 0..n : g[k] = f[k]
    BY <1>1, <1>5, <1>8, <1>15, LoopSame
  <2>2. n \in 0..n
    BY <1>1
  <2> QED BY <1>13, <2>1, <2>2
<1>17. f[n] \in C
  <2>1. n \in 0..n
    BY <1>1
  <2> QED BY <1>8, <2>1
<1>18. ASSUME l = 0, \A y \in Within(v) : Leaves(below, y)
       PROVE  IF \A y \in ItemsOf(x) : below[y][0].hits = <<>> THEN None0(f[n]) ELSE f[n].hits # <<>>
  <2> DEFINE Quiet(i) == \A k \in 1..i : below[value(k)][0].hits = <<>>
             T == {i \in Nat : i <= n => IF Quiet(i) THEN None0(f[i]) ELSE Len(f[i].hits) # 0}
  <2>1. 0 \in T
    <3>1. Quiet(0) /\ None0(f[0])
      BY <1>5, <1>10, <1>18 DEF None0
    <3> QED BY <3>1
  <2>2. ASSUME NEW i \in Nat, i \in T PROVE i + 1 \in T
    <3> SUFFICES ASSUME i + 1 <= n PROVE IF Quiet(i + 1) THEN None0(f[i + 1]) ELSE Len(f[i + 1].hits) # 0
      OBVIOUS
    <3> DEFINE k == i + 1
               y == value(k)
    <3>1. k \in 1..n /\ k - 1 = i /\ i <= n
      BY <1>1
    <3>2. y \in Within(v)
      BY <1>2, <3>1
    <3>3. f[i] \in C /\ f[k] \in C /\ f[k] = ItemHits(x, k, depth, f[i], below)
      BY <1>9, <3>1
    <3>4. f[k].leak = below[y][f[i].leak].leak /\ Len(f[k].hits) = Len(f[i].hits) + Len(below[y][f[i].leak].hits)
      <4> HIDE DEF k
      <4>1. Adds(v, x, f[i], f[k], below[y][f[i].leak])
        BY <1>4, <3>1, <3>3
      <4> HIDE DEF y
      <4> QED BY <4>1 DEF Adds
    <3>5. /\ Len(f[i].hits) \in Nat /\ Len(f[k].hits) \in Nat
          /\ (f[i].hits = <<>> <=> Len(f[i].hits) = 0) /\ (f[k].hits = <<>> <=> Len(f[k].hits) = 0)
          /\ f[i].leak \in Nat
      BY <3>3, FoundIs DEF C
    <3>6. below[y][f[i].leak] \in FoundIn(v, y)
      BY <1>3, <3>2, <3>5
    <3>7. /\ Len(below[y][f[i].leak].hits) \in Nat
          /\ below[y][f[i].leak].hits = <<>> <=> Len(below[y][f[i].leak].hits) = 0
      BY <3>6, FoundIs
    <3>8. Quiet(k) <=> Quiet(i) /\ below[y][0].hits = <<>>
      <4>1. 1..k = (1..i) \union {k}
        OBVIOUS
      <4> HIDE DEF k
      <4> QED BY <4>1
    <3>9. IF Quiet(i) THEN None0(f[i]) ELSE Len(f[i].hits) # 0
      BY <2>2, <3>1
    <3>10. Leaves(below, y)
      BY <1>18, <3>2
    <3> HIDE DEF Quiet, k, y
    <3>11. CASE Quiet(i)
      <4>1. f[i].hits = <<>> /\ f[i].leak = 0 /\ Len(f[i].hits) = 0
        BY <3>5, <3>9, <3>11 DEF None0
      <4>2. f[k].leak = below[y][0].leak /\ Len(f[k].hits) = Len(below[y][0].hits)
        BY <3>4, <3>7, <4>1
      <4>3. below[y][0].hits = <<>> <=> Len(below[y][0].hits) = 0
        BY <3>7, <4>1
      <4>4. CASE below[y][0].hits = <<>>
        <5>1. f[k].hits = <<>> /\ f[k].leak = 0
          BY <3>5, <3>10, <4>2, <4>3, <4>4 DEF Leaves
        <5>2. Quiet(k) /\ None0(f[k])
          BY <3>8, <3>11, <4>4, <5>1 DEF None0
        <5> QED BY <5>2 DEF k
      <4>5. CASE below[y][0].hits # <<>>
        <5>1. ~Quiet(k) /\ Len(f[k].hits) # 0
          BY <3>8, <4>2, <4>3, <4>5
        <5> QED BY <5>1 DEF k
      <4> QED BY <4>4, <4>5
    <3>12. CASE ~Quiet(i)
      <4>1. Len(f[k].hits) # 0
        <5>1. \A p, q \in Nat : p # 0 => p + q # 0
          OBVIOUS
        <5>2. Len(f[i].hits) # 0
          BY <3>9, <3>12
        <5> QED BY <3>4, <3>5, <3>7, <5>1, <5>2
      <4>2. ~Quiet(k)
        BY <3>8, <3>12
      <4> QED BY <4>1, <4>2 DEF k
    <3> QED BY <3>11, <3>12
  <2> HIDE DEF T
  <2>3. n \in T
    BY <1>1, <2>1, <2>2, Induct
  <2>4. IF Quiet(n) THEN None0(f[n]) ELSE Len(f[n].hits) # 0
    BY <1>1, <2>3 DEF T
  <2>5. Quiet(n) <=> \A y \in ItemsOf(x) : below[y][0].hits = <<>>
    BY <1>2
  <2>6. f[n].hits = <<>> <=> Len(f[n].hits) = 0
    BY <1>17, FoundIs DEF C
  <2> HIDE DEF Quiet
  <2> QED BY <2>4, <2>5, <2>6
<1> QED BY <1>16, <1>17, <1>18 DEF C

\* b finds what is n levels down, or none if nothing is.
Right(v, b, n) == /\ Finds(v, b)
                  /\ \A y \in Within(v) : IF Level(y, n) = {} THEN None0(b[y][0]) ELSE b[y][0].hits # <<>>

\* At the limit the value itself is found.
LEMMA DeeperAtLimit ==
  ASSUME NEW v, IsJson(v), NEW x \in Within(v), NEW depth \in Nat, NEW l \in Nat, depth + l >= MAX_DEPTH
  PROVE  \A b : Deeper(x, depth, l, b) \in FoundIn(v, x) /\ Deeper(x, depth, l, b).hits # <<>>
<1> DEFINE hit == [path |-> <<>>, value |-> x]
           m == IF Container(x) THEN l + 1 ELSE l
           hits == <<hit>>
<1>1. hit \in HitsAt(v, x)
  <2> DEFINE P == Seq(LocItems)
             e == <<>>
  <2>1. e \in P /\ x \in Leads(x, e)
    BY LeadsEmpty
  <2>2. hit = [path |-> e, value |-> x]
    OBVIOUS
  <2> HIDE DEF P, e, hit
  <2>3. hit \in [path : P, value : Within(v)] /\ hit.value \in Leads(x, hit.path)
    BY <2>1, <2>2
  <2> QED BY <2>3 DEF HitsAt, P
<1> HIDE DEF hit
<1>2. hits \in Seq(HitsAt(v, x)) /\ hits # <<>> /\ m \in Nat
  BY <1>1
<1>3. \A b : Deeper(x, depth, l, b) = Hits(hits, m)
  BY DEF Deeper, hit
<1> HIDE DEF hits, m
<1>4. Hits(hits, m) \in FoundIn(v, x) /\ Hits(hits, m).hits = hits
  BY <1>2, HitsIs
<1> QED BY <1>2, <1>3, <1>4

\* What is right of the levels below is right one level up,
LEMMA DeeperIs ==
  ASSUME NEW v, IsJson(v), NEW depth \in 1..(MAX_DEPTH - 1), NEW n \in Nat, NEW b, Right(v, b, n),
         NEW d, \A x \in Within(v), l \in Nat : d[x][l] = Deeper(x, depth, l, b)
  PROVE  Right(v, d, n + 1)
<1>0. MAX_DEPTH \in Nat /\ depth \in Nat /\ depth < MAX_DEPTH
  BY WireAssumption
<1>1. Finds(v, b) /\ \A y \in Within(v) : Leaves(b, y) /\ (b[y][0].hits = <<>> <=> Level(y, n) = {})
  BY DEF Right, None0, Leaves
<1>2. ASSUME NEW x \in Within(v), NEW l \in Nat PROVE d[x][l] \in FoundIn(v, x)
  <2>1. CASE depth + l >= MAX_DEPTH
    BY <1>0, <2>1, DeeperAtLimit
  <2>2. CASE ~(depth + l >= MAX_DEPTH)
    <3>1. Deeper(x, depth, l, b) = InItems(x, depth, l, b)
      BY <2>2 DEF Deeper
    <3> QED BY <1>0, <1>1, <3>1, InItemsIs
  <2> QED BY <2>1, <2>2
<1>3. ASSUME NEW x \in Within(v)
      PROVE  IF Level(x, n + 1) = {} THEN None0(d[x][0]) ELSE d[x][0].hits # <<>>
  <2>1. ~(depth + 0 >= MAX_DEPTH) /\ 0 \in Nat
    BY <1>0
  <2>2. d[x][0] = InItems(x, depth, 0, b)
    BY <2>1 DEF Deeper
  <2>3. IF \A y \in ItemsOf(x) : b[y][0].hits = <<>> THEN None0(d[x][0]) ELSE d[x][0].hits # <<>>
    BY <1>0, <1>1, <2>1, <2>2, InItemsIs
  <2>4. Level(x, n + 1) = UNION {Level(y, n) : y \in ItemsOf(x)}
    BY LevelAbove
  <2>5. ItemsOf(x) \subseteq Within(v)
    BY JsonWithin
  <2>6. Level(x, n + 1) = {} <=> \A y \in ItemsOf(x) : b[y][0].hits = <<>>
    BY <1>1, <2>4, <2>5
  <2> QED BY <2>3, <2>6
<1>4. Finds(v, d)
  BY <1>2 DEF Finds
<1> QED BY <1>3, <1>4 DEF Right

\* What TooDeep finds at each depth.
IsDeep(deep, v) ==
  deep = [depth \in 1..MAX_DEPTH |-> [x \in Within(v) |-> [spent \in Nat |-> Deeper(x, depth, spent, deep[depth + 1])]]]

\* and what is found at each depth is a function, from the limit up.
LEMMA DeepExists == ASSUME NEW v, IsJson(v) PROVE \E deep : IsDeep(deep, v)
<1> DEFINE M == MAX_DEPTH
           W == Within(v)
           R == UNION {FoundIn(v, x) : x \in W}
           C == {b \in [W -> [Nat -> R]] : Finds(v, b)}
           made(depth, b) == [x \in W |-> [spent \in Nat |-> Deeper(x, depth, spent, b)]]
           F == [j \in 1..(M - 1) |-> [b \in C |-> made(M - j, b)]]
           c == made(M, <<>>)
<1>1. M \in Nat /\ M >= 2 /\ M - 1 \in Nat /\ M \in 1..M
  BY WireAssumption
<1>2. ASSUME NEW depth \in 1..M, NEW b, depth = M \/ b \in C PROVE made(depth, b) \in C
  <2>1. ASSUME NEW x \in W, NEW l \in Nat PROVE Deeper(x, depth, l, b) \in FoundIn(v, x)
    <3>1. CASE depth + l >= M
      BY <1>1, <3>1, DeeperAtLimit
    <3>2. CASE ~(depth + l >= M)
      <4>1. Deeper(x, depth, l, b) = InItems(x, depth, l, b)
        BY <3>2 DEF Deeper
      <4>2. depth # M /\ depth \in Nat
        BY <1>1, <3>2
      <4>3. Finds(v, b)
        BY <1>2, <4>2
      <4> QED BY <4>1, <4>2, <4>3, InItemsIs
    <3> QED BY <3>1, <3>2
  <2>2. \A x \in W : FoundIn(v, x) \subseteq R
    OBVIOUS
  <2> HIDE DEF R, W
  <2>3. made(depth, b) \in [W -> [Nat -> R]]
    BY <2>1, <2>2
  <2>4. \A x \in W, l \in Nat : made(depth, b)[x][l] = Deeper(x, depth, l, b)
    OBVIOUS
  <2> HIDE DEF made
  <2>5. Finds(v, made(depth, b))
    BY <2>1, <2>4 DEF Finds, W
  <2> QED BY <2>3, <2>5
<1>3. c \in C
  <2> HIDE DEF C, made
  <2> QED BY <1>1, <1>2
<1>4. F \in [1..(M - 1) -> [C -> C]]
  <2>1. ASSUME NEW j \in 1..(M - 1), NEW b \in C PROVE made(M - j, b) \in C
    <3>1. M - j \in 1..M
      BY <1>1
    <3> HIDE DEF C, made
    <3> QED BY <1>2, <3>1
  <2> HIDE DEF C, made
  <2> QED BY <2>1
<1>5. PICK f \in [0..(M - 1) -> C] : Chain(f, M - 1, c, F)
  <2> DEFINE n == M - 1
  <2>1. n \in Nat /\ F \in [1..n -> [C -> C]]
    BY <1>1, <1>4
  <2> HIDE DEF C, c, F, n
  <2>2. \E f \in [0..n -> C] : Chain(f, n, c, F)
    BY <1>3, <2>1, LoopExists
  <2> QED BY <2>2 DEF n
<1>6. f[0] = c /\ \A j \in 1..(M - 1) : f[j] = made(M - j, f[j - 1])
  <2>1. f[0] = c /\ \A j \in 1..(M - 1) : f[j] = F[j][f[j - 1]]
    BY <1>5 DEF Chain
  <2>2. \A j \in 1..(M - 1) : j - 1 \in 0..(M - 1)
    BY <1>1
  <2>3. \A j \in 1..(M - 1) : f[j - 1] \in C
    BY <1>5, <2>2
  <2> HIDE DEF C, c, made
  <2>4. \A j \in 1..(M - 1) : F[j][f[j - 1]] = made(M - j, f[j - 1])
    BY <2>3
  <2> QED BY <2>1, <2>4
<1> DEFINE deep == [depth \in 1..M |-> f[M - depth]]
<1>7. ASSUME NEW depth \in 1..M PROVE deep[depth] = made(depth, deep[depth + 1])
  <2>1. CASE depth = M
    <3>1. deep[depth] = c
      BY <1>1, <1>6, <2>1
    <3>2. ASSUME NEW x \in W, NEW l \in Nat PROVE Deeper(x, M, l, <<>>) = Deeper(x, M, l, deep[M + 1])
      <4>1. M + l >= M
        BY <1>1
      <4> QED BY <4>1 DEF Deeper
    <3> HIDE DEF W, deep
    <3>3. made(M, <<>>) = made(M, deep[M + 1])
      BY <3>2
    <3> QED BY <2>1, <3>1, <3>3
  <2>2. CASE depth # M
    <3>1. M - depth \in 1..(M - 1) /\ depth + 1 \in 1..M /\ (M - depth) - 1 = M - (depth + 1) /\ M - (M - depth) = depth
      BY <1>1, <2>2
    <3> HIDE DEF made
    <3>2. deep[depth] = f[M - depth] /\ deep[depth + 1] = f[(M - depth) - 1]
      BY <3>1
    <3>3. f[M - depth] = made(M - (M - depth), f[(M - depth) - 1])
      BY <1>6, <3>1
    <3> HIDE DEF deep
    <3> QED BY <3>1, <3>2, <3>3
  <2> QED BY <2>1, <2>2
<1>8. deep = [depth \in 1..M |-> made(depth, deep[depth + 1])]
  <2>1. deep = [depth \in 1..M |-> deep[depth]]
    OBVIOUS
  <2> HIDE DEF deep, made
  <2> QED BY <1>7, <2>1
<1> HIDE DEF deep
<1>9. IsDeep(deep, v)
  BY <1>8 DEF IsDeep
<1> QED BY <1>9

\* too_deep finds what is at the limit below v, at its place, from any counter;
\* from zero it finds nothing, and leaves the counter, exactly if nothing is there.
LEMMA TooDeepIs ==
  ASSUME NEW v, IsJson(v), NEW counter \in Nat
  PROVE  /\ TooDeep(v, counter) \in FoundIn(v, v)
         /\ counter = 0 => IF Level(v, MAX_DEPTH - 1) = {} THEN None0(TooDeep(v, counter))
                           ELSE TooDeep(v, counter).hits # <<>>
<1> DEFINE M == MAX_DEPTH
<1>1. M \in Nat /\ M >= 2 /\ M - 1 \in Nat /\ M \in 1..M /\ 1 \in 1..M
  BY WireAssumption
<1>2. TooDeep(v, counter) = (CHOOSE deep : IsDeep(deep, v))[1][v][counter]
  BY DEF TooDeep, IsDeep
<1>3. PICK deep : IsDeep(deep, v) /\ TooDeep(v, counter) = deep[1][v][counter]
  BY <1>2, DeepExists
<1>4. \A depth \in 1..M, x \in Within(v), l \in Nat : deep[depth][x][l] = Deeper(x, depth, l, deep[depth + 1])
  <2> SUFFICES ASSUME NEW depth \in 1..M, NEW x \in Within(v), NEW l \in Nat
               PROVE  deep[depth][x][l] = Deeper(x, depth, l, deep[depth + 1])
    OBVIOUS
  <2> DEFINE b == deep[depth + 1]
             W == Within(v)
  <2>1. deep[depth] = [y \in W |-> [spent \in Nat |-> Deeper(y, depth, spent, b)]]
    BY <1>3 DEF IsDeep
  <2> HIDE DEF b, W
  <2>2. \A y \in W : deep[depth][y] = [spent \in Nat |-> Deeper(y, depth, spent, b)]
    BY <2>1
  <2>3. deep[depth][x] = [spent \in Nat |-> Deeper(x, depth, spent, b)]
    BY <2>2 DEF W
  <2> QED BY <2>3 DEF b
<1> DEFINE T == {j \in Nat : j <= M - 1 => Right(v, deep[M - j], j)}
<1>5. 0 \in T
  <2>1. ASSUME NEW x \in Within(v), NEW l \in Nat
        PROVE  deep[M][x][l] \in FoundIn(v, x) /\ deep[M][x][l].hits # <<>>
    <3>1. M + l >= MAX_DEPTH
      BY <1>1
    <3>2. deep[M][x][l] = Deeper(x, M, l, deep[M + 1])
      BY <1>1, <1>4
    <3> QED BY <1>1, <3>1, <3>2, DeeperAtLimit
  <2>2. \A x : Level(x, 0) # {}
    BY LevelBelow
  <2>3. Right(v, deep[M], 0)
    BY <2>1, <2>2 DEF Right, Finds
  <2>4. M - 0 = M
    BY <1>1
  <2> QED BY <2>3, <2>4
<1>6. ASSUME NEW j \in Nat, j \in T PROVE j + 1 \in T
  <2> SUFFICES ASSUME j + 1 <= M - 1 PROVE Right(v, deep[M - (j + 1)], j + 1)
    OBVIOUS
  <2> DEFINE depth == M - (j + 1)
  <2>1. depth \in 1..(MAX_DEPTH - 1) /\ depth \in 1..M /\ depth + 1 = M - j /\ j <= M - 1
    BY <1>1
  <2>2. Right(v, deep[depth + 1], j)
    BY <1>6, <2>1
  <2> HIDE DEF depth, M
  <2>3. \A x \in Within(v), l \in Nat : deep[depth][x][l] = Deeper(x, depth, l, deep[depth + 1])
    BY <1>4, <2>1
  <2>4. Right(v, deep[depth], j + 1)
    BY <2>1, <2>2, <2>3, DeeperIs
  <2> QED BY <2>4 DEF depth
<1> HIDE DEF T
<1>7. M - 1 \in T
  BY <1>1, <1>5, <1>6, Induct
<1>8. Right(v, deep[1], M - 1)
  <2>1. M - (M - 1) = 1 /\ M - 1 <= M - 1
    BY <1>1
  <2> QED BY <1>1, <1>7, <2>1 DEF T
<1>9. v \in Within(v)
  BY WithinIs
<1> QED BY <1>3, <1>8, <1>9 DEF Right, Finds

-----------------------------------------------------------------------------
(* CheckStructured *)

\* An alternative's error: the recursion guard's, if it is of the value's kind
\* and too deep, or that the kind is another.
Member(v, loc, deep, kind, type, tag) ==
  IF v.kind # kind THEN <<WireErr(type, Append(loc, Name(tag)), v)>>
  ELSE [k \in DOMAIN deep.hits |->
          WireErr("recursion_loop", Append(loc, Name(tag)) \o deep.hits[k].path, deep.hits[k].value)]

\* Each alternative's errors are faults of the body.
LEMMA MemberIs ==
  ASSUME NEW body, IsJson(body), NEW loc, NEW v, LeadsTo(body, loc, v), NEW deep \in FoundIn(v, v),
         NEW kind, NEW type \in Types \ {"missing"}, NEW tag, Name(tag) \in Alternatives
  PROVE  /\ Member(v, loc, deep, kind, type, tag) \in Seq(Faults(body))
         /\ v.kind # kind => Member(v, loc, deep, kind, type, tag) # <<>>
<1> DEFINE here == Append(loc, Name(tag))
           e(k) == WireErr("recursion_loop", here \o deep.hits[k].path, deep.hits[k].value)
<1>1. LeadsTo(body, here, v)
  BY AtName
<1>2. WireErr(type, here, v) \in Faults(body)
  BY <1>1, FaultIs
<1>3. /\ deep.hits \in Seq(HitsAt(v, v)) /\ Len(deep.hits) \in Nat
      /\ DOMAIN deep.hits = 1..Len(deep.hits)
  BY FoundIs, LenProperties
<1>4. ASSUME NEW k \in 1..Len(deep.hits) PROVE e(k) \in Faults(body)
  <2>1. deep.hits[k] \in HitsAt(v, v)
    BY <1>3, ElementOfSeq
  <2> DEFINE h == deep.hits[k]
             P == Seq(LocItems)
  <2>2. h \in [path : P, value : Within(v)] /\ h.value \in Leads(v, h.path)
    BY <2>1 DEF HitsAt
  <2>3. h.path \in Seq(LocItems)
    <3> HIDE DEF P, h
    <3>1. h.path \in P
      BY <2>2
    <3> QED BY <3>1 DEF P
  <2> DEFINE p == h.path
             y == h.value
  <2> HIDE DEF h, here
  <2>4. LeadsTo(body, here \o p, y)
    <3> HIDE DEF p, y
    <3>1. p \in Seq(LocItems) /\ y \in Leads(v, p)
      BY <2>2, <2>3 DEF p, y
    <3> QED BY <1>1, <3>1, AtOn
  <2> DEFINE l == here \o p
  <2>5. "recursion_loop" \in Types /\ "recursion_loop" # "missing"
    BY DEF Types
  <2> HIDE DEF l, y
  <2>6. WireErr("recursion_loop", l, y) \in Faults(body)
    BY <2>4, <2>5, FaultIs DEF l
  <2> QED BY <2>6 DEF l, y, h
<1>5. CASE v.kind # kind
  <2> DEFINE f == WireErr(type, here, v)
  <2>1. Member(v, loc, deep, kind, type, tag) = <<f>> /\ f \in Faults(body)
    BY <1>2, <1>5 DEF Member
  <2> HIDE DEF f
  <2>2. <<f>> \in Seq(Faults(body)) /\ <<f>> # <<>>
    BY <2>1
  <2> QED BY <2>1, <2>2
<1>6. CASE v.kind = kind
  <2> DEFINE m == [k \in 1..Len(deep.hits) |-> e(k)]
  <2>1. Member(v, loc, deep, kind, type, tag) = m
    BY <1>3, <1>6 DEF Member
  <2> HIDE DEF e
  <2>2. m \in [1..Len(deep.hits) -> Faults(body)]
    BY <1>4
  <2> HIDE DEF m
  <2>3. m \in Seq(Faults(body))
    BY <1>3, <2>2, SeqDef
  <2> QED BY <1>6, <2>1, <2>3
<1> QED BY <1>5, <1>6

\* The errors of a value that is not what is asked for.
Members(v, loc, deep) ==
  Member(v, loc, deep, "str", "string_type", "str") \o Member(v, loc, deep, "dict", "dict_type", "DICT_LOC")
    \o Member(v, loc, deep, "list", "list_type", "LIST_LOC")

\* and one of the alternatives has an error if the value is no text.
LEMMA MembersAre ==
  ASSUME NEW body, IsJson(body), NEW loc, NEW v, LeadsTo(body, loc, v), NEW deep \in FoundIn(v, v)
  PROVE  /\ Members(v, loc, deep) \in Seq(Faults(body))
         /\ v.kind # "str" => Members(v, loc, deep) # <<>>
<1> DEFINE a == Member(v, loc, deep, "str", "string_type", "str")
           b == Member(v, loc, deep, "dict", "dict_type", "DICT_LOC")
           c == Member(v, loc, deep, "list", "list_type", "LIST_LOC")
           F == Faults(body)
<1>1. /\ Name("str") \in Alternatives /\ Name("DICT_LOC") \in Alternatives /\ Name("LIST_LOC") \in Alternatives
  BY DEF Alternatives
<1>2. /\ "string_type" \in Types \ {"missing"} /\ "dict_type" \in Types \ {"missing"}
      /\ "list_type" \in Types \ {"missing"}
  BY DEF Types
<1>3. a \in Seq(F) /\ (v.kind # "str" => a # <<>>)
  BY <1>1, <1>2, MemberIs
<1>4. b \in Seq(F)
  BY <1>1, <1>2, MemberIs
<1>5. c \in Seq(F)
  BY <1>1, <1>2, MemberIs
<1> HIDE DEF a, b, c, F
<1>6. a \o b \in Seq(F) /\ (a \o b) \o c \in Seq(F)
  BY <1>3, <1>4, <1>5, ConcatProperties
<1>7. a # <<>> => (a \o b) \o c # <<>>
  BY <1>3, <1>4, <1>5, <1>6, ConcatEqualIffEmpty
<1>8. Members(v, loc, deep) = (a \o b) \o c
  BY DEF Members, a, b, c
<1> QED BY <1>3, <1>6, <1>7, <1>8 DEF F

\* A value of the type asked for is what the check lets through, and the errors
\* of another are where it is.
LEMMA StructuredIs ==
  ASSUME NEW body, IsJson(body), NEW loc, NEW v, LeadsTo(body, loc, v), NEW c \in Checks(body), NEW optional \in BOOLEAN
  PROVE  JudgedAs(body, c, CheckStructured(v, loc, optional, c), (optional /\ v.kind = "null") \/ Structured(v))
<1> DEFINE deep == IF Container(v) THEN TooDeep(v, c.leak) ELSE Hits(<<>>, c.leak)
           good == (optional /\ v.kind = "null") \/ Structured(v)
           fine == \/ optional /\ v.kind = "null"
                   \/ v.kind = "str"
                   \/ Container(v) /\ deep.hits = <<>>
           d == [c EXCEPT !.leak = deep.leak]
           errs == IF fine THEN <<>> ELSE Members(v, loc, deep)
<1>1. v \in Within(body)
  BY DEF LeadsTo
<1>2. IsJson(v)
  BY <1>1, JsonWithin
<1>3. c.leak \in Nat /\ c.errs \in Seq(Faults(body)) /\ Len(c.errs) \in Nat
  BY ChecksAre
<1>4. Hits(<<>>, c.leak) \in FoundIn(v, v) /\ Hits(<<>>, c.leak).hits = <<>> /\ Hits(<<>>, c.leak).leak = c.leak
  <2> DEFINE e == <<>>
             l == c.leak
  <2>1. e \in Seq(HitsAt(v, v)) /\ l \in Nat
    BY <1>3, EmptySeq
  <2> HIDE DEF e, l
  <2>2. Hits(e, l) \in FoundIn(v, v) /\ Hits(e, l).hits = e /\ Hits(e, l).leak = l
    BY <2>1, HitsIs
  <2> QED BY <2>2 DEF e, l
<1>5. deep \in FoundIn(v, v)
  <2>1. TooDeep(v, c.leak) \in FoundIn(v, v)
    BY <1>2, <1>3, TooDeepIs
  <2> QED BY <1>4, <2>1
<1>6. c.leak = 0 /\ Container(v) => IF Level(v, MAX_DEPTH - 1) = {} THEN None0(deep) ELSE deep.hits # <<>>
  BY <1>2, <1>3, TooDeepIs
<1>7. CheckStructured(v, loc, optional, c) = With(d, errs)
  BY DEF CheckStructured, Judge, Members, Member
<1>8. ~Container(v) => deep.leak = c.leak
  BY <1>4
<1> HIDE DEF deep
<1>9. deep.leak \in Nat
  BY <1>5, FoundIs
<1>10. d \in Checks(body) /\ d.errs = c.errs /\ (deep.leak = c.leak => d = c)
  <2> DEFINE F == Seq(Faults(body))
             l == deep.leak
  <2>1. c \in [errs : F, leak : Nat] /\ l \in Nat
    BY <1>9 DEF Checks
  <2> HIDE DEF F, l
  <2>2. [c EXCEPT !.leak = l] \in [errs : F, leak : Nat] /\ [c EXCEPT !.leak = l].errs = c.errs
        /\ (l = c.leak => [c EXCEPT !.leak = l] = c)
    BY <2>1
  <2> QED BY <2>2 DEF F, l, Checks
<1>11. errs \in Seq(Faults(body)) /\ (fine => errs = <<>>) /\ (~fine => errs # <<>>)
  <2>1. Members(v, loc, deep) \in Seq(Faults(body)) /\ (v.kind # "str" => Members(v, loc, deep) # <<>>)
    BY <1>5, MembersAre
  <2>2. ~fine => v.kind # "str"
    OBVIOUS
  <2>3. <<>> \in Seq(Faults(body))
    BY EmptySeq
  <2> HIDE DEF fine
  <2> QED BY <2>1, <2>2, <2>3
<1>12. c.leak = 0 => (fine <=> good) /\ (fine => deep.leak = c.leak)
  <2> SUFFICES ASSUME c.leak = 0 PROVE (fine <=> good) /\ (fine => deep.leak = c.leak)
    OBVIOUS
  <2>1. CASE Container(v)
    <3>1. v.kind # "null" /\ v.kind # "str"
      BY <2>1 DEF Container
    <3>2. IF Level(v, MAX_DEPTH - 1) = {} THEN None0(deep) ELSE deep.hits # <<>>
      BY <1>6, <2>1
    <3>3. (fine <=> deep.hits = <<>>) /\ (good <=> Level(v, MAX_DEPTH - 1) = {})
      BY <2>1, <3>1 DEF Structured
    <3> QED BY <3>2, <3>3 DEF None0
  <2>2. CASE ~Container(v)
    BY <1>8, <2>2 DEF Structured
  <2> QED BY <2>1, <2>2
<1> HIDE DEF fine, errs, good, d
<1>13. /\ With(d, errs) \in Checks(body) /\ Len(With(d, errs).errs) = Len(d.errs) + Len(errs)
       /\ errs = <<>> => With(d, errs) = d
  BY <1>10, <1>11, WithIs
<1>14. Len(errs) \in Nat /\ (errs # <<>> => Len(errs) # 0)
  BY <1>11, LenProperties, EmptySeq
<1>15. Len(c.errs) <= Len(With(d, errs).errs) /\ (errs # <<>> => Len(c.errs) < Len(With(d, errs).errs))
  BY <1>3, <1>10, <1>13, <1>14
<1>16. c.leak = 0 /\ good => With(d, errs) = c
  BY <1>10, <1>11, <1>12, <1>13
<1>17. c.leak = 0 /\ ~good => Len(c.errs) < Len(With(d, errs).errs)
  BY <1>11, <1>12, <1>15
<1>18. JudgedAs(body, c, With(d, errs), good)
  BY <1>13, <1>15, <1>16, <1>17 DEF JudgedAs, Judges
<1> QED BY <1>7, <1>18 DEF good

-----------------------------------------------------------------------------
(* The checks of fields and items *)

\* The field of a dict is one step from it.
LEMMA GetAt ==
  ASSUME NEW body, IsJson(body), NEW loc, NEW v, LeadsTo(body, loc, v), v.kind = "dict", NEW key \in Words, HasKey(v, key)
  PROVE  LeadsTo(body, Append(loc, Name(key)), Get(v, key))
<1>1. v \in Within(body)
  BY DEF LeadsTo
<1>2. PICK k \in 1..Len(v.items) : v.items[k].key = <<key>> /\ v.items[k].value = Get(v, key)
  BY <1>1, FieldIs
<1>3. KeyOf(v, k) = Name(key)
  BY <1>2 DEF KeyOf, Name
<1>4. Get(v, key) \in To(v, Name(key))
  BY <1>1, <1>2, <1>3, KeyIsPlace
<1>5. Name(key) \in LocItems
  BY NamesArePlaces
<1> QED BY <1>4, <1>5, AtStep

\* An item is one step from what it is in.
LEMMA ItemAt ==
  ASSUME NEW body, IsJson(body), NEW loc, NEW v, LeadsTo(body, loc, v), NEW k \in 1..Len(v.items)
  PROVE  LeadsTo(body, Append(loc, KeyOf(v, k)), v.items[k].value)
<1>1. v \in Within(body)
  BY DEF LeadsTo
<1>2. KeyOf(v, k) \in LocItems /\ v.items[k].value \in To(v, KeyOf(v, k))
  BY <1>1, KeyIsPlace
<1> QED BY <1>2, AtStep

\* What CheckStructured lets through.
Typed(v, optional) == (optional /\ v.kind = "null") \/ Structured(v)

\* check_structured of a field.
LEMMA KeyIs ==
  ASSUME NEW body, IsJson(body), NEW loc, NEW v, LeadsTo(body, loc, v), v.kind = "dict", NEW c \in Checks(body),
         NEW optional \in BOOLEAN, NEW key \in Words
  PROVE  JudgedAs(body, c, CheckKey(key, v, loc, optional, c), HasKey(v, key) => Typed(Get(v, key), optional))
<1>1. CASE HasKey(v, key)
  <2> DEFINE y == Get(v, key)
             l == Append(loc, Name(key))
  <2>1. LeadsTo(body, l, y)
    BY <1>1, GetAt
  <2>2. CheckKey(key, v, loc, optional, c) = CheckStructured(y, l, optional, c)
    BY <1>1 DEF CheckKey
  <2> HIDE DEF y, l
  <2>3. JudgedAs(body, c, CheckStructured(y, l, optional, c), (optional /\ y.kind = "null") \/ Structured(y))
    BY <2>1, StructuredIs
  <2>4. ((optional /\ y.kind = "null") \/ Structured(y)) <=> (HasKey(v, key) => Typed(Get(v, key), optional))
    BY <1>1 DEF Typed, y
  <2>5. JudgedAs(body, c, CheckStructured(y, l, optional, c), HasKey(v, key) => Typed(Get(v, key), optional))
    BY <2>3, <2>4, JudgedIff
  <2> QED BY <2>2, <2>5
<1>2. CASE ~HasKey(v, key)
  <2>1. CheckKey(key, v, loc, optional, c) = c
    BY <1>2 DEF CheckKey
  <2>2. HasKey(v, key) => Typed(Get(v, key), optional)
    BY <1>2
  <2>3. JudgedAs(body, c, c, HasKey(v, key) => Typed(Get(v, key), optional))
    BY <2>2, JudgedSame
  <2> QED BY <2>1, <2>3
<1> QED BY <1>1, <1>2

\* The loops over items, given what one step does.
LEMMA JudgedLoop ==
  ASSUME NEW body, NEW c \in Checks(body), NEW n \in Nat, NEW F \in [1..n -> [Checks(body) -> Checks(body)]],
         NEW G, \A k \in 1..n, d \in Checks(body) : Judges(d, F[k][d], k \in G)
  PROVE  \E f \in [0..n -> Checks(body)] : Chain(f, n, c, F) /\ JudgedAs(body, c, f[n], 1..n \subseteq G)
<1> DEFINE C == Checks(body)
<1>1. \E f \in [0..n -> C] : Chain(f, n, c, F)
  <2>1. c \in C /\ F \in [1..n -> [C -> C]]
    OBVIOUS
  <2> HIDE DEF C
  <2> QED BY <2>1, LoopExists
<1>2. PICK f \in [0..n -> C] : Chain(f, n, c, F)
  <2> HIDE DEF C
  <2> QED BY <1>1
<1>3. ASSUME NEW k \in 1..n PROVE Judges(f[k - 1], f[k], k \in G)
  <2>1. k - 1 \in 0..n
    OBVIOUS
  <2>2. f[k - 1] \in Checks(body) /\ f[k] = F[k][f[k - 1]]
    BY <1>2, <2>1 DEF Chain
  <2> QED BY <2>2
<1>4. JudgedAs(body, c, f[n], 1..n \subseteq G)
  <2>1. f[0] = c
    BY <1>2 DEF Chain
  <2> QED BY <1>2, <1>3, <2>1, LoopJudges
<1> QED BY <1>2, <1>4

\* check_structured of every item: of a list, or of a dict.
LEMMA ItemsAre ==
  ASSUME NEW body, IsJson(body), NEW loc, NEW v, LeadsTo(body, loc, v), NEW c \in Checks(body), NEW optional \in BOOLEAN
  PROVE  JudgedAs(body, c, CheckItems(v, loc, optional, c), \A k \in 1..Len(v.items) : Typed(v.items[k].value, optional))
<1> DEFINE n == Len(v.items)
           C == Checks(body)
           check(k, d) == CheckStructured(v.items[k].value, Append(loc, Step(v, k)), optional, d)
           F == [k \in 1..n |-> [d \in C |-> check(k, d)]]
           G == {k \in 1..n : Typed(v.items[k].value, optional)}
<1>1. v \in Within(body)
  BY DEF LeadsTo
<1>2. n \in Nat
  BY <1>1, JsonIs DEF JsonIn
<1>3. ASSUME NEW k \in 1..n, NEW d \in C PROVE check(k, d) \in C /\ Judges(d, check(k, d), k \in G)
  <2> DEFINE y == v.items[k].value
             l == Append(loc, Step(v, k))
  <2>1. LeadsTo(body, l, y)
    BY <1>1, ItemAt, KeyIsPlace
  <2> HIDE DEF y, l
  <2>2. JudgedAs(body, d, CheckStructured(y, l, optional, d), (optional /\ y.kind = "null") \/ Structured(y))
    BY <2>1, StructuredIs
  <2>3. ((optional /\ y.kind = "null") \/ Structured(y)) <=> k \in G
    BY DEF Typed, y
  <2>4. JudgedAs(body, d, CheckStructured(y, l, optional, d), k \in G)
    <3> HIDE DEF G
    <3> QED BY <2>2, <2>3, JudgedIff
  <2> QED BY <2>4 DEF JudgedAs, y, l
<1> HIDE DEF check, G, C, n
<1>4. F \in [1..n -> [C -> C]] /\ \A k \in 1..n, d \in C : Judges(d, F[k][d], k \in G)
  BY <1>3
<1>5. \A k \in 1..n, d \in C : F[k][d] = check(k, d)
  OBVIOUS
<1> HIDE DEF F
<1>6. PICK f \in [0..n -> C] : Chain(f, n, c, F) /\ JudgedAs(body, c, f[n], 1..n \subseteq G)
  BY <1>2, <1>4, JudgedLoop DEF C
<1> DEFINE Is(g) == g = [k \in 0..n |-> IF k = 0 THEN c ELSE check(k, g[k - 1])]
<1>7. Is(f)
  <2>1. ASSUME NEW k \in 0..n PROVE f[k] = IF k = 0 THEN c ELSE check(k, f[k - 1])
    <3>1. CASE k = 0
      BY <1>6, <3>1 DEF Chain
    <3>2. CASE k # 0
      <4>1. k \in 1..n /\ k - 1 \in 0..n
        BY <1>2, <3>2
      <4>2. f[k - 1] \in C /\ f[k] = F[k][f[k - 1]]
        BY <1>6, <4>1 DEF Chain
      <4> QED BY <1>5, <3>2, <4>1, <4>2
    <3> QED BY <3>1, <3>2
  <2>2. f = [k \in 0..n |-> f[k]]
    BY <1>6
  <2> QED BY <2>1, <2>2
<1>8. CheckItems(v, loc, optional, c) = (CHOOSE g : Is(g))[n]
  BY DEF CheckItems, check, n
<1>9. PICK g : Is(g) /\ CheckItems(v, loc, optional, c) = g[n]
  <2> HIDE DEF Is
  <2> QED BY <1>7, <1>8
<1>10. ChainIn(g, n, c, C, F)
  <2>1. \A k \in 0..n : g[k] = IF k = 0 THEN c ELSE check(k, g[k - 1])
    BY <1>9
  <2>2. 0 \in 0..n /\ \A k \in 1..n : k \in 0..n /\ k # 0
    BY <1>2
  <2> QED BY <1>5, <2>1, <2>2 DEF ChainIn
<1>11. CheckItems(v, loc, optional, c) = f[n]
  <2>1. \A k \in 0..n : g[k] = f[k]
    BY <1>2, <1>6, <1>10, LoopSame DEF C
  <2>2. n \in 0..n
    BY <1>2
  <2> QED BY <1>9, <2>1, <2>2
<1>12. 1..n \subseteq G <=> \A k \in 1..Len(v.items) : Typed(v.items[k].value, optional)
  BY DEF G, n
<1>13. JudgedAs(body, c, f[n], \A k \in 1..Len(v.items) : Typed(v.items[k].value, optional))
  BY <1>6, <1>12, JudgedIff
<1> QED BY <1>11, <1>13

\* A dict's keys are among some names exactly if each item's is.
LEMMA KeysAre ==
  ASSUME NEW body, IsJson(body), NEW v \in Within(body), NEW names
  PROVE  Keys(v) \subseteq names <=> \A k \in 1..Len(v.items) : v.items[k].key \in names
<1>1. DOMAIN v.items = 1..Len(v.items)
  BY JsonIs DEF JsonIn
<1> QED BY <1>1 DEF Keys, ToSet

\* check_extras.
LEMMA ExtrasAre ==
  ASSUME NEW body, IsJson(body), NEW loc, NEW v, LeadsTo(body, loc, v), v.kind = "dict", NEW c \in Checks(body), NEW allowed
  PROVE  JudgedAs(body, c, CheckExtras(v, allowed, loc, c), KeysIn(v, allowed))
<1> DEFINE n == Len(v.items)
           C == Checks(body)
           names == {<<a>> : a \in allowed}
           item(m, d) == IF m.key \in names THEN d
                         ELSE With(d, <<WireErr("extra_forbidden", Append(loc, Str(m.key)), m.value)>>)
           check(k, d) == item(v.items[k], d)
           F == [k \in 1..n |-> [d \in C |-> check(k, d)]]
           G == {k \in 1..n : v.items[k].key \in names}
<1>1. v \in Within(body)
  BY DEF LeadsTo
<1>2. n \in Nat
  BY <1>1, JsonIs DEF JsonIn
<1>3. ASSUME NEW k \in 1..n, NEW d \in C PROVE check(k, d) \in C /\ Judges(d, check(k, d), k \in G)
  <2> DEFINE y == v.items[k].value
             l == Append(loc, Str(v.items[k].key))
             e == WireErr("extra_forbidden", l, y)
  <2>1. KeyOf(v, k) = Str(v.items[k].key)
    BY DEF KeyOf
  <2>2. LeadsTo(body, l, y)
    BY <1>1, <2>1, ItemAt
  <2>3. e \in Faults(body)
    <3>1. "extra_forbidden" \in Types
      BY DEF Types
    <3> HIDE DEF l, y
    <3> QED BY <2>2, <3>1, FaultIs
  <2>4. CASE v.items[k].key \in names
    <3>1. check(k, d) = d /\ k \in G
      BY <2>4
    <3>2. JudgedAs(body, d, d, k \in G)
      <4> HIDE DEF G
      <4> QED BY <3>1, JudgedSame
    <3> QED BY <3>1, <3>2 DEF JudgedAs
  <2>5. CASE v.items[k].key \notin names
    <3>1. check(k, d) = With(d, <<e>>) /\ k \notin G
      BY <2>5
    <3>2. JudgedAs(body, d, With(d, <<e>>), k \in G)
      <4> HIDE DEF G, e
      <4> QED BY <2>3, <3>1, JudgedWrong
    <3> QED BY <3>1, <3>2 DEF JudgedAs
  <2> QED BY <2>4, <2>5
<1>4. 1..n \subseteq G <=> KeysIn(v, allowed)
  <2>1. Keys(v) \subseteq names <=> \A k \in 1..n : v.items[k].key \in names
    <3> HIDE DEF names
    <3> QED BY <1>1, KeysAre
  <2> QED BY <2>1 DEF KeysIn
<1>5. CheckExtras(v, allowed, loc, c) = (CHOOSE g : g = [k \in 0..n |-> IF k = 0 THEN c ELSE check(k, g[k - 1])])[n]
  BY DEF CheckExtras
<1> HIDE DEF check, G, C, n
<1>6. F \in [1..n -> [C -> C]] /\ \A k \in 1..n, d \in C : Judges(d, F[k][d], k \in G)
  BY <1>3
<1>7. \A k \in 1..n, d \in C : F[k][d] = check(k, d)
  OBVIOUS
<1> HIDE DEF F
<1>8. PICK f \in [0..n -> C] : Chain(f, n, c, F) /\ JudgedAs(body, c, f[n], 1..n \subseteq G)
  BY <1>2, <1>6, JudgedLoop DEF C
<1> DEFINE Is(g) == g = [k \in 0..n |-> IF k = 0 THEN c ELSE check(k, g[k - 1])]
<1>9. Is(f)
  <2>1. ASSUME NEW k \in 0..n PROVE f[k] = IF k = 0 THEN c ELSE check(k, f[k - 1])
    <3>1. CASE k = 0
      BY <1>8, <3>1 DEF Chain
    <3>2. CASE k # 0
      <4>1. k \in 1..n /\ k - 1 \in 0..n
        BY <1>2, <3>2
      <4>2. f[k - 1] \in C /\ f[k] = F[k][f[k - 1]]
        BY <1>8, <4>1 DEF Chain
      <4> QED BY <1>7, <3>2, <4>1, <4>2
    <3> QED BY <3>1, <3>2
  <2>2. f = [k \in 0..n |-> f[k]]
    BY <1>8
  <2> QED BY <2>1, <2>2
<1>10. PICK g : Is(g) /\ CheckExtras(v, allowed, loc, c) = g[n]
  <2>1. CheckExtras(v, allowed, loc, c) = (CHOOSE g : Is(g))[n]
    BY <1>5
  <2> HIDE DEF Is
  <2> QED BY <1>9, <2>1
<1>11. ChainIn(g, n, c, C, F)
  <2>1. \A k \in 0..n : g[k] = IF k = 0 THEN c ELSE check(k, g[k - 1])
    BY <1>10
  <2>2. 0 \in 0..n /\ \A k \in 1..n : k \in 0..n /\ k # 0
    BY <1>2
  <2> QED BY <1>7, <2>1, <2>2 DEF ChainIn
<1>12. CheckExtras(v, allowed, loc, c) = f[n]
  <2>1. \A k \in 0..n : g[k] = f[k]
    BY <1>2, <1>8, <1>11, LoopSame DEF C
  <2>2. n \in 0..n
    BY <1>2
  <2> QED BY <1>10, <2>1, <2>2
<1>13. JudgedAs(body, c, f[n], KeysIn(v, allowed))
  BY <1>4, <1>8, JudgedIff
<1> QED BY <1>12, <1>13

-----------------------------------------------------------------------------
(* A question *)

\* The check of a field, of the items, and of the criteria of a noul, as what
\* they check.
FieldFine(v, key) == HasKey(v, key) => Typed(Get(v, key), TRUE)
ItemsFine(v, optional) == \A k \in 1..Len(v.items) : Typed(v.items[k].value, optional)
NoulFine(crit) == FieldFine(crit, "true") /\ FieldFine(crit, "false") /\ KeysIn(crit, {"true", "false"})
\* What CheckCriteria lets through.
CriteriaFine(tag, q) ==
  /\ tag = "noul" => \/ ~HasKey(q, "criteria")
                     \/ Get(q, "criteria").kind = "null"
                     \/ Get(q, "criteria").kind = "dict" /\ NoulFine(Get(q, "criteria"))
  /\ tag = "choice" => /\ HasKey(q, "criteria")
                       /\ Get(q, "criteria").kind = "dict" /\ ItemsFine(Get(q, "criteria"), TRUE)
  /\ tag = "score" => /\ HasKey(q, "criteria")
                      /\ Get(q, "criteria").kind = "list" /\ ItemsFine(Get(q, "criteria"), FALSE)

\* The criteria of a question, by its type's rules.
LEMMA CriteriaAre ==
  ASSUME NEW body, IsJson(body), NEW loc, NEW q, LeadsTo(body, loc, q), q.kind = "dict", NEW c \in Checks(body), NEW tag \in Tags
  PROVE  JudgedAs(body, c, CheckCriteria(tag, q, Append(loc, Name("criteria")), c), CriteriaFine(tag, q))
<1> DEFINE l == Append(loc, Name("criteria"))
           crit == Get(q, "criteria")
           fine == CriteriaFine(tag, q)
           result == CheckCriteria(tag, q, l, c)
<1>1. "criteria" \in Words /\ "true" \in Words /\ "false" \in Words
  BY DEF Words
<1>2. HasKey(q, "criteria") => LeadsTo(body, l, crit)
  BY <1>1, GetAt
<1>3. tag \in {"noul", "choice", "score"}
  BY DEF Tags
<1>4. ASSUME HasKey(q, "criteria"), NEW type \in Types, type # "missing", ~fine
      PROVE  JudgedAs(body, c, With(c, <<WireErr(type, l, crit)>>), fine)
  <2> DEFINE e == WireErr(type, l, crit)
  <2> HIDE DEF l, crit, fine
  <2>1. e \in Faults(body)
    BY <1>2, <1>4, FaultIs
  <2> HIDE DEF e
  <2>2. JudgedAs(body, c, With(c, <<e>>), fine)
    BY <1>4, <2>1, JudgedWrong
  <2> QED BY <2>2 DEF e
<1>5. "model_attributes_type" \in Types /\ "dict_type" \in Types /\ "list_type" \in Types
  BY DEF Types
<1>6. CASE tag = "noul" /\ (~HasKey(q, "criteria") \/ crit.kind = "null")
  <2>1. result = c
    <3>1. CASE ~HasKey(q, "criteria")
      BY <1>6, <3>1 DEF CheckCriteria
    <3>2. CASE crit.kind = "null"
      BY <1>6, <3>2 DEF CheckCriteria
    <3> QED BY <1>6, <3>1, <3>2
  <2>2. fine
    BY <1>6 DEF CriteriaFine
  <2> HIDE DEF fine
  <2>3. JudgedAs(body, c, c, fine)
    BY <2>2, JudgedSame
  <2> QED BY <2>1, <2>3 DEF fine
<1>7. CASE tag = "noul" /\ HasKey(q, "criteria") /\ crit.kind # "null" /\ crit.kind # "dict"
  <2>1. result = With(c, <<WireErr("model_attributes_type", l, crit)>>) /\ ~fine
    BY <1>7 DEF CheckCriteria, CriteriaFine
  <2>2. JudgedAs(body, c, With(c, <<WireErr("model_attributes_type", l, crit)>>), fine)
    <3> HIDE DEF l, crit, fine
    <3> QED BY <1>4, <1>5, <1>7, <2>1
  <2> QED BY <2>1, <2>2
<1>8. CASE tag = "noul" /\ HasKey(q, "criteria") /\ crit.kind = "dict"
  <2> DEFINE d == CheckKey("true", crit, l, TRUE, c)
             e == CheckKey("false", crit, l, TRUE, d)
             x == CheckExtras(crit, {"true", "false"}, l, e)
             p1 == FieldFine(crit, "true")
             p2 == FieldFine(crit, "false")
             p3 == KeysIn(crit, {"true", "false"})
  <2>1. result = x
    BY <1>8 DEF CheckCriteria
  <2>2. fine <=> (p1 /\ p2) /\ p3
    BY <1>8 DEF CriteriaFine, NoulFine
  <2>3. LeadsTo(body, l, crit) /\ crit.kind = "dict"
    BY <1>2, <1>8
  <2> HIDE DEF l, crit
  <2>4. JudgedAs(body, c, d, p1)
    BY <1>1, <2>3, KeyIs DEF FieldFine
  <2>5. d \in Checks(body)
    <3> HIDE DEF d, p1
    <3> QED BY <2>4 DEF JudgedAs
  <2>6. JudgedAs(body, d, e, p2)
    <3> HIDE DEF d
    <3> QED BY <1>1, <2>3, <2>5, KeyIs DEF FieldFine
  <2>7. e \in Checks(body)
    <3> HIDE DEF d, e, p2
    <3> QED BY <2>6 DEF JudgedAs
  <2>8. JudgedAs(body, e, x, p3)
    <3> HIDE DEF e
    <3> QED BY <2>3, <2>7, ExtrasAre
  <2> HIDE DEF d, e, x, p1, p2, p3
  <2>9. JudgedAs(body, c, e, p1 /\ p2)
    BY <2>4, <2>5, <2>6, JudgedThen
  <2>10. JudgedAs(body, c, x, (p1 /\ p2) /\ p3)
    <3> DEFINE pp == p1 /\ p2
    <3>1. JudgedAs(body, c, e, pp)
      BY <2>9
    <3> HIDE DEF pp
    <3>2. JudgedAs(body, c, x, pp /\ p3)
      BY <2>8, <3>1, JudgedThen
    <3> QED BY <3>2 DEF pp
  <2>11. JudgedAs(body, c, x, fine)
    <3> DEFINE pp == (p1 /\ p2) /\ p3
    <3>1. JudgedAs(body, c, x, pp) /\ (pp <=> fine)
      BY <2>2, <2>10
    <3> HIDE DEF pp, fine
    <3> QED BY <3>1, JudgedIff
  <2> QED BY <2>1, <2>11 DEF l
<1>9. CASE tag # "noul" /\ ~HasKey(q, "criteria")
  <2> DEFINE e == WireErr("missing", l, q)
  <2>1. result = With(c, <<e>>)
    BY <1>9 DEF CheckCriteria
  <2>4. ~fine
    BY <1>3, <1>9 DEF CriteriaFine
  <2>2. e \in Faults(body)
    BY <1>1, <1>9, MissingIs
  <2> HIDE DEF e, fine
  <2>3. JudgedAs(body, c, With(c, <<e>>), fine)
    BY <2>2, <2>4, JudgedWrong
  <2> QED BY <2>1, <2>3 DEF fine
<1>10. CASE tag = "choice" /\ HasKey(q, "criteria") /\ crit.kind # "dict"
  <2>1. result = With(c, <<WireErr("dict_type", l, crit)>>) /\ ~fine
    BY <1>10 DEF CheckCriteria, CriteriaFine
  <2>2. JudgedAs(body, c, With(c, <<WireErr("dict_type", l, crit)>>), fine)
    <3> HIDE DEF l, crit, fine
    <3> QED BY <1>4, <1>5, <1>10, <2>1
  <2> QED BY <2>1, <2>2
<1>11. CASE tag = "score" /\ HasKey(q, "criteria") /\ crit.kind # "list"
  <2>1. result = With(c, <<WireErr("list_type", l, crit)>>) /\ ~fine
    BY <1>11 DEF CheckCriteria, CriteriaFine
  <2>2. JudgedAs(body, c, With(c, <<WireErr("list_type", l, crit)>>), fine)
    <3> HIDE DEF l, crit, fine
    <3> QED BY <1>4, <1>5, <1>11, <2>1
  <2> QED BY <2>1, <2>2
<1>12. CASE tag = "choice" /\ HasKey(q, "criteria") /\ crit.kind = "dict"
  <2>1. result = CheckItems(crit, l, TRUE, c) /\ (ItemsFine(crit, TRUE) <=> fine)
    BY <1>12 DEF CheckCriteria, CriteriaFine
  <2>2. LeadsTo(body, l, crit)
    BY <1>2, <1>12
  <2> HIDE DEF l, crit, fine
  <2>3. JudgedAs(body, c, CheckItems(crit, l, TRUE, c), ItemsFine(crit, TRUE))
    BY <2>2, ItemsAre DEF ItemsFine
  <2>4. JudgedAs(body, c, CheckItems(crit, l, TRUE, c), fine)
    <3> DEFINE good == ItemsFine(crit, TRUE)
               d == CheckItems(crit, l, TRUE, c)
    <3>1. JudgedAs(body, c, d, good) /\ (good <=> fine)
      BY <2>1, <2>3
    <3> HIDE DEF good, d
    <3>2. JudgedAs(body, c, d, fine)
      BY <3>1, JudgedIff
    <3> QED BY <3>2 DEF d
  <2> QED BY <2>1, <2>4 DEF fine, l
<1>13. CASE tag = "score" /\ HasKey(q, "criteria") /\ crit.kind = "list"
  <2>1. result = CheckItems(crit, l, FALSE, c) /\ (ItemsFine(crit, FALSE) <=> fine)
    BY <1>13 DEF CheckCriteria, CriteriaFine
  <2>2. LeadsTo(body, l, crit)
    BY <1>2, <1>13
  <2> HIDE DEF l, crit, fine
  <2>3. JudgedAs(body, c, CheckItems(crit, l, FALSE, c), ItemsFine(crit, FALSE))
    BY <2>2, ItemsAre DEF ItemsFine
  <2>4. JudgedAs(body, c, CheckItems(crit, l, FALSE, c), fine)
    <3> DEFINE good == ItemsFine(crit, FALSE)
               d == CheckItems(crit, l, FALSE, c)
    <3>1. JudgedAs(body, c, d, good) /\ (good <=> fine)
      BY <2>1, <2>3
    <3> HIDE DEF good, d
    <3>2. JudgedAs(body, c, d, fine)
      BY <3>1, JudgedIff
    <3> QED BY <3>2 DEF d
  <2> QED BY <2>1, <2>4 DEF fine, l
<1> QED BY <1>3, <1>6, <1>7, <1>8, <1>9, <1>10, <1>11, <1>12, <1>13

\* The fields of a question, as what is checked of them.
QuestionFields == {"type", "instructions", "criteria"}
FieldsFine(tag, q) == FieldFine(q, "instructions") /\ CriteriaFine(tag, q) /\ KeysIn(q, QuestionFields)

\* The criteria, the instructions and what is no field, in order.
LEMMA FieldsAre ==
  ASSUME NEW body, IsJson(body), NEW loc, NEW q, LeadsTo(body, loc, q), q.kind = "dict", NEW c \in Checks(body), NEW tag \in Tags
  PROVE  JudgedAs(body, c, CheckFields(tag, q, loc, c), FieldsFine(tag, q))
<1> DEFINE d == CheckKey("instructions", q, loc, TRUE, c)
           e == CheckCriteria(tag, q, Append(loc, Name("criteria")), d)
           x == CheckExtras(q, QuestionFields, loc, e)
           p1 == FieldFine(q, "instructions")
           p2 == CriteriaFine(tag, q)
           p3 == KeysIn(q, QuestionFields)
<1>1. CheckFields(tag, q, loc, c) = x
  BY DEF CheckFields, QuestionFields
<1>2. JudgedAs(body, c, d, p1)
  <2>1. "instructions" \in Words
    BY DEF Words
  <2> QED BY <2>1, KeyIs DEF FieldFine
<1>3. d \in Checks(body)
  <2> HIDE DEF d, p1
  <2> QED BY <1>2 DEF JudgedAs
<1>4. JudgedAs(body, d, e, p2)
  <2> HIDE DEF d
  <2> QED BY <1>3, CriteriaAre
<1>5. e \in Checks(body)
  <2> HIDE DEF d, e, p2
  <2> QED BY <1>4 DEF JudgedAs
<1>6. JudgedAs(body, e, x, p3)
  <2> HIDE DEF e
  <2> QED BY <1>5, ExtrasAre
<1>7. FieldsFine(tag, q) <=> (p1 /\ p2) /\ p3
  BY DEF FieldsFine
<1> DEFINE fine == FieldsFine(tag, q)
<1> HIDE DEF d, e, x, p1, p2, p3, fine
<1> DEFINE p12 == p1 /\ p2
           p123 == p12 /\ p3
<1>8. JudgedAs(body, c, e, p12)
  BY <1>2, <1>3, <1>4, JudgedThen
<1>9. JudgedAs(body, c, x, p123)
  <2> HIDE DEF p12
  <2> QED BY <1>5, <1>6, <1>8, JudgedThen
<1>10. JudgedAs(body, c, x, fine)
  <2>1. p123 <=> fine
    BY <1>7 DEF fine
  <2> HIDE DEF p123
  <2> QED BY <1>9, <2>1, JudgedIff
<1> QED BY <1>1, <1>10 DEF fine

\* The model validator, after the fields.
LEMMA ValidateIs ==
  ASSUME NEW body, NEW loc, NEW q, LeadsTo(body, loc, q), NEW c \in Checks(body), NEW tag \in Tags,
         NEW d, NEW good, JudgedAs(body, c, d, good)
  PROVE  JudgedAs(body, c, Validate(tag, q, loc, c.errs, d), good /\ (tag = "noul" \/ ~Problem(tag, Get(q, "criteria"))))
<1> DEFINE problem == tag # "noul" /\ Problem(tag, Get(q, "criteria"))
           e == WireErr("value_error", loc, q)
           r == Validate(tag, q, loc, c.errs, d)
           all == good /\ (tag = "noul" \/ ~Problem(tag, Get(q, "criteria")))
<1>1. d \in Checks(body) /\ Judges(c, d, good)
  BY DEF JudgedAs
<1>2. r = IF d.errs = c.errs /\ problem THEN With(d, <<e>>) ELSE d
  BY DEF Validate
<1>3. e \in Faults(body)
  <2>1. "value_error" \in Types
    BY DEF Types
  <2> QED BY <2>1, FaultIs
<1>4. all <=> good /\ ~problem
  OBVIOUS
<1> DEFINE w == With(d, <<e>>)
<1> HIDE DEF problem, e, r, all
<1>5. w \in Checks(body) /\ Len(w.errs) = Len(d.errs) + 1
  <2>1. <<e>> \in Seq(Faults(body)) /\ Len(<<e>>) = 1
    BY <1>3
  <2> HIDE DEF e
  <2> DEFINE one == <<e>>
  <2>2. one \in Seq(Faults(body)) /\ Len(one) = 1
    BY <2>1
  <2> HIDE DEF one
  <2>3. With(d, one) \in Checks(body) /\ Len(With(d, one).errs) = Len(d.errs) + 1
    BY <1>1, <2>2, WithIs
  <2> QED BY <2>3 DEF one
<1> HIDE DEF w
<1>6. Len(c.errs) \in Nat /\ Len(d.errs) \in Nat
  BY <1>1, ChecksAre
<1>7. Len(c.errs) <= Len(d.errs) /\ (c.leak = 0 /\ good => d = c) /\ (c.leak = 0 /\ ~good => Len(c.errs) < Len(d.errs))
  BY <1>1 DEF Judges
<1>8. CASE d.errs = c.errs /\ problem
  <2>1. r = w /\ ~all
    BY <1>2, <1>4, <1>8 DEF w
  <2>2. Len(c.errs) < Len(w.errs) /\ Len(c.errs) <= Len(w.errs)
    BY <1>5, <1>6, <1>7
  <2>3. JudgedAs(body, c, w, all)
    BY <1>5, <2>1, <2>2 DEF JudgedAs, Judges
  <2> QED BY <2>1, <2>3 DEF r, all
<1>9. CASE ~(d.errs = c.errs /\ problem)
  <2>1. r = d
    BY <1>2, <1>9
  <2>2. c.leak = 0 /\ all => d = c
    BY <1>4, <1>7
  <2>3. c.leak = 0 /\ ~all => Len(c.errs) < Len(d.errs)
    <3>1. c.leak = 0 /\ ~good => Len(c.errs) < Len(d.errs)
      BY <1>7
    <3>2. c.leak = 0 /\ good => d = c
      BY <1>7
    <3>3. c.leak = 0 /\ good /\ problem => FALSE
      BY <1>9, <3>2
    <3> QED BY <1>4, <3>1, <3>3
  <2>4. JudgedAs(body, c, d, all)
    BY <1>1, <1>7, <2>2, <2>3 DEF JudgedAs, Judges
  <2> QED BY <2>1, <2>4 DEF r, all
<1> QED BY <1>8, <1>9

\* A value with nothing but a text.
LEMMA StringIs ==
  ASSUME NEW body, IsJson(body), NEW v \in Within(body)
  PROVE  /\ v.kind = "str" => v = Str(v.text)
         /\ v.kind = "null" => v.items = <<>>
         /\ v.kind \notin {"list", "dict"} => v.items = <<>> /\ DOMAIN v.items = {}
         /\ v.text \in Seq(STRING)
         /\ v.kind \in Kinds
<1>1. JsonIn(v, Within(body))
  BY JsonIs
<1>2. v.text \in Seq(STRING) /\ v.kind \in Kinds
  BY <1>1 DEF JsonIn
<1>3. v.kind \notin {"list", "dict"} => v.items = <<>>
  BY <1>1 DEF JsonIn, Container
<1>4. v = Value(v.kind, v.text, v.items, v.num) /\ (v.kind # "float" => v.num = NoNumber)
  BY <1>1 DEF JsonIn
<1>5. v.kind = "str" => v = Str(v.text)
  BY <1>3, <1>4 DEF Str
<1> QED BY <1>2, <1>3, <1>5

\* What a question of the wire model is.
QuestionFine(q) ==
  /\ q.kind = "dict" /\ HasKey(q, "type")
  /\ \E tag \in Tags : /\ Get(q, "type") = Name(tag)
                       /\ FieldsFine(tag, q)
                       /\ tag = "noul" \/ ~Problem(tag, Get(q, "criteria"))

\* Words are told apart by their characters.
LEMMA NameIs ==
  ASSUME NEW s, NEW t
  PROVE  /\ Name(s) = Name(t) <=> s = t
         /\ Name(s).text = <<s>> /\ Name(s).kind = "str" /\ Name(s).text[1] = s
         /\ Name(s).items = <<>>
<1>1. Name(s) = [kind |-> "str", text |-> <<s>>, items |-> <<>>, num |-> NoNumber]
      /\ Name(t) = [kind |-> "str", text |-> <<t>>, items |-> <<>>, num |-> NoNumber]
  BY DEF Name, Str, Value
<1>2. <<s>>[1] = s /\ <<t>>[1] = t
  OBVIOUS
<1>3. Name(s).text = <<s>> /\ Name(t).text = <<t>> /\ Name(s).kind = "str" /\ Name(s).items = <<>>
  BY <1>1
<1> QED BY <1>2, <1>3

\* check_question lets through exactly the questions of the three shapes.
LEMMA QuestionIs ==
  ASSUME NEW body, IsJson(body), NEW qid, NEW q, LeadsTo(body, <<Name("body"), Name("questions"), Str(qid)>>, q),
         NEW c \in Checks(body)
  PROVE  JudgedAs(body, c, CheckQuestion(qid, q, c), QuestionFine(q))
<1> DEFINE here == <<Name("body"), Name("questions"), Str(qid)>>
           type == Get(q, "type")
           fine == QuestionFine(q)
           result == CheckQuestion(qid, q, c)
<1>1. LeadsTo(body, here, q) /\ q \in Within(body)
  BY DEF LeadsTo
<1>2. ASSUME NEW t \in Types, t # "missing", ~fine
      PROVE  JudgedAs(body, c, With(c, <<WireErr(t, here, q)>>), fine)
  <2> DEFINE e == WireErr(t, here, q)
  <2> HIDE DEF here, fine
  <2>1. e \in Faults(body)
    BY <1>1, <1>2, FaultIs
  <2> HIDE DEF e
  <2>2. JudgedAs(body, c, With(c, <<e>>), fine)
    BY <1>2, <2>1, JudgedWrong
  <2> QED BY <2>2 DEF e
<1>3. "model_attributes_type" \in Types /\ "union_tag_not_found" \in Types /\ "union_tag_invalid" \in Types
  BY DEF Types
<1>4. CASE q.kind # "dict"
  <2>1. result = With(c, <<WireErr("model_attributes_type", here, q)>>) /\ ~fine
    BY <1>4 DEF CheckQuestion, QuestionFine
  <2>2. JudgedAs(body, c, With(c, <<WireErr("model_attributes_type", here, q)>>), fine)
    <3> HIDE DEF here, fine
    <3> QED BY <1>2, <1>3, <2>1
  <2> QED BY <2>1, <2>2
<1>5. CASE q.kind = "dict" /\ ~HasKey(q, "type")
  <2>1. result = With(c, <<WireErr("union_tag_not_found", here, q)>>) /\ ~fine
    BY <1>5 DEF CheckQuestion, QuestionFine
  <2>2. JudgedAs(body, c, With(c, <<WireErr("union_tag_not_found", here, q)>>), fine)
    <3> HIDE DEF here, fine
    <3> QED BY <1>2, <1>3, <2>1
  <2> QED BY <2>1, <2>2
<1>6. CASE q.kind = "dict" /\ HasKey(q, "type") /\ (type.kind # "str" \/ type.text \notin {<<t>> : t \in Tags})
  <2> DEFINE e == WireErr("union_tag_invalid", here, q)
             x == [e EXCEPT !.quotes = type.text]
  <2>1. result = With(c, <<x>>)
    BY <1>6 DEF CheckQuestion
  <2>2. ~fine
    <3>1. \A t \in Tags : Name(t).kind = "str" /\ Name(t).text \in {<<a>> : a \in Tags}
      BY NameIs
    <3> QED BY <1>6, <3>1 DEF QuestionFine
  <2>3. type \in Within(body)
    BY <1>1, <1>6, FieldIs
  <2>4. type.text \in Seq(STRING)
    <3> HIDE DEF type
    <3> QED BY <2>3, StringIs
  <2>5. e \in Faults(body)
    <3> HIDE DEF here
    <3> QED BY <1>1, <1>3, FaultIs
  <2> HIDE DEF e, here, fine, type
  <2>6. x \in Faults(body)
    <3> DEFINE I == Within(body)
               L == Seq(LocItems)
               Q == Seq(STRING)
    <3>1. e \in [type : Types, loc : L, wire : BOOLEAN, input : I, quotes : Q] /\ PointsAt(body, e)
      BY <2>5 DEF Faults, ErrorSet
    <3>2. type.text \in Q
      BY <2>4
    <3> HIDE DEF I, L, Q
    <3>3. x \in [type : Types, loc : L, wire : BOOLEAN, input : I, quotes : Q]
          /\ x.type = e.type /\ x.loc = e.loc /\ x.input = e.input
      BY <3>1, <3>2
    <3>4. PointsAt(body, x)
      <4> HIDE DEF x
      <4> QED BY <3>1, <3>3 DEF PointsAt
    <3>5. x \in ErrorSet(Within(body))
      BY <3>3 DEF ErrorSet, I, L, Q
    <3> HIDE DEF x
    <3> QED BY <3>4, <3>5 DEF Faults
  <2> HIDE DEF x
  <2>7. JudgedAs(body, c, With(c, <<x>>), fine)
    BY <2>2, <2>6, JudgedWrong
  <2> QED BY <2>1, <2>7 DEF fine
<1>7. CASE q.kind = "dict" /\ HasKey(q, "type") /\ type.kind = "str" /\ type.text \in {<<t>> : t \in Tags}
  <2>1. PICK t \in Tags : type.text = <<t>>
    BY <1>7
  <2> DEFINE base == Append(here, Str(type.text))
             d == CheckFields(t, q, base, c)
             x == Validate(t, q, base, c.errs, d)
             good == FieldsFine(t, q)
             all == good /\ (t = "noul" \/ ~Problem(t, Get(q, "criteria")))
  <2>2. result = x
    <3>1. type.text[1] = t
      BY <2>1
    <3> QED BY <1>7, <3>1 DEF CheckQuestion
  <2>3. type = Name(t)
    <3>1. type \in Within(body)
      BY <1>1, <1>7, FieldIs
    <3> HIDE DEF type
    <3>2. type = Str(type.text)
      BY <1>7, <3>1, StringIs
    <3> QED BY <2>1, <3>2 DEF Name
  <2>4. fine <=> all
    <3>1. \A s \in Tags : type = Name(s) => s = t
      BY <2>3, NameIs
    <3>2. all => fine
      BY <1>7, <2>3 DEF QuestionFine
    <3>3. fine => all
      <4> SUFFICES ASSUME fine PROVE all
        OBVIOUS
      <4>1. PICK s \in Tags : /\ type = Name(s) /\ FieldsFine(s, q)
                              /\ s = "noul" \/ ~Problem(s, Get(q, "criteria"))
        BY DEF QuestionFine
      <4> HIDE DEF type
      <4>2. s = t
        BY <3>1, <4>1
      <4> QED BY <4>1, <4>2
    <3> QED BY <3>2, <3>3
  <2>5. LeadsTo(body, base, q)
    <3>1. Str(type.text) = Name(t)
      BY <2>1 DEF Name
    <3>2. Name(t) \in Alternatives
      BY DEF Alternatives
    <3> HIDE DEF here, type
    <3> QED BY <1>1, <3>1, <3>2, AtName
  <2> HIDE DEF base
  <2>6. JudgedAs(body, c, d, good)
    BY <1>7, <2>5, FieldsAre
  <2> HIDE DEF d, good
  <2>7. JudgedAs(body, c, x, all)
    BY <2>5, <2>6, ValidateIs
  <2> HIDE DEF x, all, fine
  <2>8. JudgedAs(body, c, x, fine)
    BY <2>4, <2>7, JudgedIff
  <2> QED BY <2>2, <2>8 DEF fine
<1> QED BY <1>4, <1>5, <1>6, <1>7

-----------------------------------------------------------------------------
(* A request *)

\* What check_wire checks of the state, the model and the questions.
StateFine(body) == HasKey(body, "state") /\ Structured(Get(body, "state"))
ModelFine(body) == /\ HasKey(body, "model")
                   /\ Get(body, "model").kind = "str" /\ Get(body, "model").text # <<>> /\ ~Lone(Get(body, "model").text)
QuestionsFine(body) ==
  /\ HasKey(body, "questions")
  /\ Get(body, "questions").kind = "dict" /\ Get(body, "questions").items # <<>>
  /\ \A k \in 1..Len(Get(body, "questions").items) : QuestionFine(Get(body, "questions").items[k].value)
RequestFields == {"state", "model", "questions"}
\* What check_wire lets through.
WireFine(body) == body.kind = "dict" /\ StateFine(body) /\ ModelFine(body) /\ QuestionsFine(body) /\ KeysIn(body, RequestFields)

\* A field of the request that is missing, or is what it may not be.
LEMMA FieldFaults ==
  ASSUME NEW body, IsJson(body), body.kind = "dict", NEW key \in Words, NEW c \in Checks(body), NEW good, ~good
  PROVE  /\ ~HasKey(body, key) => JudgedAs(body, c, With(c, <<Missing(body, key)>>), good)
         /\ HasKey(body, key) => LeadsTo(body, Append(Root, Name(key)), Get(body, key))
         /\ \A t \in Types \ {"missing"} :
              HasKey(body, key) => JudgedAs(body, c, With(c, <<WireErr(t, Append(Root, Name(key)), Get(body, key))>>), good)
<1>1. LeadsTo(body, Root, body)
  BY AtRoot
<1>2. ASSUME ~HasKey(body, key) PROVE JudgedAs(body, c, With(c, <<Missing(body, key)>>), good)
  <2> DEFINE e == Missing(body, key)
  <2>1. e \in Faults(body)
    BY <1>1, <1>2, MissingIs DEF Missing
  <2> HIDE DEF e
  <2>2. JudgedAs(body, c, With(c, <<e>>), good)
    BY <2>1, JudgedWrong
  <2> QED BY <2>2 DEF e
<1>3. ASSUME HasKey(body, key) PROVE LeadsTo(body, Append(Root, Name(key)), Get(body, key))
  BY <1>1, <1>3, GetAt
<1>4. ASSUME NEW t \in Types \ {"missing"}, HasKey(body, key)
      PROVE  JudgedAs(body, c, With(c, <<WireErr(t, Append(Root, Name(key)), Get(body, key))>>), good)
  <2> DEFINE l == Append(Root, Name(key))
             y == Get(body, key)
             e == WireErr(t, l, y)
  <2>1. LeadsTo(body, l, y)
    BY <1>3, <1>4
  <2>2. e \in Faults(body)
    <3> HIDE DEF l, y
    <3> QED BY <2>1, FaultIs
  <2> HIDE DEF e
  <2>3. JudgedAs(body, c, With(c, <<e>>), good)
    BY <2>2, JudgedWrong
  <2> QED BY <2>3 DEF e
<1> QED BY <1>2, <1>3, <1>4

\* The state, the model and the questions, each from its field on.
LEMMA StateIs ==
  ASSUME NEW body, IsJson(body), body.kind = "dict", NEW c \in Checks(body)
  PROVE  JudgedAs(body, c, CheckState(body, c), StateFine(body))
<1>1. "state" \in Words
  BY DEF Words
<1>2. CASE ~HasKey(body, "state")
  <2>1. CheckState(body, c) = With(c, <<Missing(body, "state")>>) /\ ~StateFine(body)
    BY <1>2 DEF CheckState, StateFine
  <2>2. JudgedAs(body, c, With(c, <<Missing(body, "state")>>), StateFine(body))
    BY <1>1, <1>2, <2>1, FieldFaults
  <2> QED BY <2>1, <2>2
<1>3. CASE HasKey(body, "state")
  <2> DEFINE y == Get(body, "state")
             l == Append(Root, Name("state"))
             d == CheckStructured(y, l, FALSE, c)
             good == (FALSE /\ y.kind = "null") \/ Structured(y)
             fine == StateFine(body)
  <2>1. LeadsTo(body, l, y)
    BY <1>1, <1>3, AtRoot, GetAt
  <2>2. CheckState(body, c) = d
    BY <1>3 DEF CheckState
  <2>3. good <=> fine
    BY <1>3 DEF StateFine
  <2> HIDE DEF y, l
  <2>4. JudgedAs(body, c, d, good)
    BY <2>1, StructuredIs
  <2> HIDE DEF d, good, fine
  <2>5. JudgedAs(body, c, d, fine)
    BY <2>3, <2>4, JudgedIff
  <2> QED BY <2>2, <2>5 DEF fine
<1> QED BY <1>2, <1>3

\* The model's name is judged as it has to be.
LEMMA ModelIs ==
  ASSUME NEW body, IsJson(body), body.kind = "dict", NEW c \in Checks(body)
  PROVE  JudgedAs(body, c, CheckModel(body, c), ModelFine(body))
<1> DEFINE y == Get(body, "model")
           l == Append(Root, Name("model"))
           fine == ModelFine(body)
           result == CheckModel(body, c)
<1>1. "model" \in Words
  BY DEF Words
<1>2. CASE ~HasKey(body, "model")
  <2>1. result = With(c, <<Missing(body, "model")>>) /\ ~fine
    BY <1>2 DEF CheckModel, ModelFine
  <2>2. JudgedAs(body, c, With(c, <<Missing(body, "model")>>), fine)
    BY <1>1, <1>2, <2>1, FieldFaults
  <2> QED BY <2>1, <2>2
<1>3. ASSUME HasKey(body, "model"), ~fine, NEW t \in {"string_type", "string_unicode", "string_too_short"}
      PROVE  JudgedAs(body, c, With(c, <<WireErr(t, l, y)>>), fine)
  <2>1. t \in Types \ {"missing"}
    BY DEF Types
  <2> HIDE DEF fine
  <2> QED BY <1>1, <1>3, <2>1, FieldFaults
<1>4. CASE HasKey(body, "model") /\ y.kind # "str"
  <2>1. result = With(c, <<WireErr("string_type", l, y)>>) /\ ~fine
    BY <1>4 DEF CheckModel, ModelFine
  <2> QED BY <1>3, <1>4, <2>1
<1>5. CASE HasKey(body, "model") /\ y.kind = "str" /\ Lone(y.text)
  <2>1. result = With(c, <<WireErr("string_unicode", l, y)>>) /\ ~fine
    BY <1>5 DEF CheckModel, ModelFine
  <2> QED BY <1>3, <1>5, <2>1
<1>6. CASE HasKey(body, "model") /\ y.kind = "str" /\ ~Lone(y.text) /\ y.text = <<>>
  <2>1. result = With(c, <<WireErr("string_too_short", l, y)>>) /\ ~fine
    BY <1>6 DEF CheckModel, ModelFine
  <2> QED BY <1>3, <1>6, <2>1
<1>7. CASE HasKey(body, "model") /\ y.kind = "str" /\ ~Lone(y.text) /\ y.text # <<>>
  <2>1. result = c /\ fine
    BY <1>7 DEF CheckModel, ModelFine
  <2> HIDE DEF fine
  <2>2. JudgedAs(body, c, c, fine)
    BY <2>1, JudgedSame
  <2> QED BY <2>1, <2>2 DEF fine
<1> QED BY <1>2, <1>4, <1>5, <1>6, <1>7

\* The questions are judged as they have to be.
LEMMA QuestionsAre ==
  ASSUME NEW body, IsJson(body), body.kind = "dict", NEW c \in Checks(body)
  PROVE  JudgedAs(body, c, CheckQuestions(body, c), QuestionsFine(body))
<1> DEFINE qs == Get(body, "questions")
           l == Append(Root, Name("questions"))
           fine == QuestionsFine(body)
           result == CheckQuestions(body, c)
<1>1. "questions" \in Words
  BY DEF Words
<1>2. CASE ~HasKey(body, "questions")
  <2>1. result = With(c, <<Missing(body, "questions")>>) /\ ~fine
    BY <1>2 DEF CheckQuestions, QuestionsFine
  <2>2. JudgedAs(body, c, With(c, <<Missing(body, "questions")>>), fine)
    BY <1>1, <1>2, <2>1, FieldFaults
  <2> QED BY <2>1, <2>2
<1>3. ASSUME HasKey(body, "questions"), ~fine, NEW t \in {"dict_type", "too_short"}
      PROVE  JudgedAs(body, c, With(c, <<WireErr(t, l, qs)>>), fine)
  <2>1. t \in Types \ {"missing"}
    BY DEF Types
  <2> HIDE DEF fine
  <2> QED BY <1>1, <1>3, <2>1, FieldFaults
<1>4. CASE HasKey(body, "questions") /\ qs.kind # "dict"
  <2>1. result = With(c, <<WireErr("dict_type", l, qs)>>) /\ ~fine
    BY <1>4 DEF CheckQuestions, QuestionsFine
  <2> QED BY <1>3, <1>4, <2>1
<1>5. CASE HasKey(body, "questions") /\ qs.kind = "dict" /\ qs.items = <<>>
  <2>1. result = With(c, <<WireErr("too_short", l, qs)>>) /\ ~fine
    BY <1>5 DEF CheckQuestions, QuestionsFine
  <2> QED BY <1>3, <1>5, <2>1
<1>6. CASE HasKey(body, "questions") /\ qs.kind = "dict" /\ qs.items # <<>>
  <2> DEFINE n == Len(qs.items)
             C == Checks(body)
             check(k, d) == CheckQuestion(qs.items[k].key, qs.items[k].value, d)
             F == [k \in 1..n |-> [d \in C |-> check(k, d)]]
             G == {k \in 1..n : QuestionFine(qs.items[k].value)}
  <2>1. LeadsTo(body, l, qs) /\ qs \in Within(body)
    <3>1. LeadsTo(body, l, qs)
      BY <1>1, <1>6, AtRoot, GetAt
    <3> QED BY <3>1 DEF LeadsTo
  <2>2. n \in Nat
    <3> HIDE DEF qs
    <3> QED BY <2>1, JsonIs DEF JsonIn
  <2>3. ASSUME NEW k \in 1..n, NEW d \in C PROVE check(k, d) \in C /\ Judges(d, check(k, d), k \in G)
    <3> DEFINE y == qs.items[k].value
               id == qs.items[k].key
               here == <<Name("body"), Name("questions"), Str(id)>>
    <3>1. LeadsTo(body, here, y)
      <4>1. KeyOf(qs, k) = Str(id)
        BY <1>6 DEF KeyOf
      <4>2. here = Append(l, Str(id))
        BY DEF Root
      <4>3. LeadsTo(body, Append(l, KeyOf(qs, k)), y)
        <5> HIDE DEF l, qs
        <5> QED BY <2>1, ItemAt
      <4> QED BY <4>1, <4>2, <4>3
    <3> HIDE DEF y, id
    <3>2. JudgedAs(body, d, CheckQuestion(id, y, d), QuestionFine(y))
      BY <3>1, QuestionIs
    <3>3. QuestionFine(y) <=> k \in G
      BY DEF y
    <3>4. JudgedAs(body, d, CheckQuestion(id, y, d), k \in G)
      <4> DEFINE p == QuestionFine(y)
                 r == CheckQuestion(id, y, d)
                 q == k \in G
      <4> HIDE DEF p, q, r
      <4>1. JudgedAs(body, d, r, q)
        BY <3>2, <3>3, JudgedIff DEF p, q, r
      <4> QED BY <4>1 DEF q, r
    <3> QED BY <3>4 DEF JudgedAs, y, id
  <2>4. result = (CHOOSE g : g = [k \in 0..n |-> IF k = 0 THEN c ELSE check(k, g[k - 1])])[n]
    BY <1>6 DEF CheckQuestions
  <2>5. 1..n \subseteq G <=> fine
    BY <1>6 DEF QuestionsFine
  <2> HIDE DEF check, G, C, n, result, fine
  <2>6. F \in [1..n -> [C -> C]] /\ \A k \in 1..n, d \in C : Judges(d, F[k][d], k \in G)
    BY <2>3
  <2>7. \A k \in 1..n, d \in C : F[k][d] = check(k, d)
    OBVIOUS
  <2> HIDE DEF F
  <2>8. PICK f \in [0..n -> C] : Chain(f, n, c, F) /\ JudgedAs(body, c, f[n], 1..n \subseteq G)
    BY <2>2, <2>6, JudgedLoop DEF C
  <2> DEFINE Is(g) == g = [k \in 0..n |-> IF k = 0 THEN c ELSE check(k, g[k - 1])]
  <2>9. Is(f)
    <3>1. ASSUME NEW k \in 0..n PROVE f[k] = IF k = 0 THEN c ELSE check(k, f[k - 1])
      <4>1. CASE k = 0
        BY <2>8, <4>1 DEF Chain
      <4>2. CASE k # 0
        <5>1. k \in 1..n /\ k - 1 \in 0..n
          BY <2>2, <4>2
        <5>2. f[k - 1] \in C /\ f[k] = F[k][f[k - 1]]
          BY <2>8, <5>1 DEF Chain
        <5> QED BY <2>7, <4>2, <5>1, <5>2
      <4> QED BY <4>1, <4>2
    <3>2. f = [k \in 0..n |-> f[k]]
      BY <2>8
    <3> QED BY <3>1, <3>2
  <2>10. PICK g : Is(g) /\ result = g[n]
    <3>1. result = (CHOOSE g : Is(g))[n]
      BY <2>4
    <3> HIDE DEF Is
    <3> QED BY <2>9, <3>1
  <2>11. ChainIn(g, n, c, C, F)
    <3>1. \A k \in 0..n : g[k] = IF k = 0 THEN c ELSE check(k, g[k - 1])
      BY <2>10
    <3>2. 0 \in 0..n /\ \A k \in 1..n : k \in 0..n /\ k # 0
      BY <2>2
    <3> QED BY <2>7, <3>1, <3>2 DEF ChainIn
  <2>12. result = f[n]
    <3>1. \A k \in 0..n : g[k] = f[k]
      BY <2>2, <2>8, <2>11, LoopSame DEF C
    <3>2. n \in 0..n
      BY <2>2
    <3> QED BY <2>10, <3>1, <3>2
  <2>13. JudgedAs(body, c, f[n], fine)
    BY <2>5, <2>8, JudgedIff
  <2> QED BY <2>12, <2>13 DEF result, fine
<1> QED BY <1>2, <1>4, <1>5, <1>6

\* check_wire finds nothing in what it should let through, and errors that point
\* at the body where they say in what it should not.
LEMMA WireIs ==
  ASSUME NEW body, IsJson(body)
  PROVE  /\ CheckWireFrom(body, 0) \in Checks(body)
         /\ CheckWireFrom(body, 0).errs = <<>> <=> WireFine(body)
<1> DEFINE none == [errs |-> <<>>, leak |-> 0]
           result == CheckWireFrom(body, 0)
           fine == WireFine(body)
<1>1. none \in Checks(body) /\ none.leak = 0 /\ none.errs = <<>> /\ Len(none.errs) = 0
  <2> DEFINE F == Seq(Faults(body))
             e == <<>>
  <2>1. e \in F /\ Len(e) = 0
    OBVIOUS
  <2> HIDE DEF F, e
  <2>2. [errs |-> e, leak |-> 0] \in [errs : F, leak : Nat]
    BY <2>1
  <2>3. [errs |-> e, leak |-> 0].errs = e
    OBVIOUS
  <2> QED BY <2>1, <2>2, <2>3 DEF Checks, F, e
<1>2. LeadsTo(body, Root, body) /\ Len(Root) = 1
  BY AtRoot DEF Root
<1>3. JudgedAs(body, none, result, fine)
  <2>1. ASSUME ~fine, NEW t \in {"missing", "model_attributes_type"}
        PROVE  JudgedAs(body, none, With(none, <<WireErr(t, Root, body)>>), fine)
    <3> DEFINE e == WireErr(t, Root, body)
    <3>1. t \in Types
      BY DEF Types
    <3>2. e \in Faults(body)
      BY <1>2, <3>1, FaultIs
    <3> HIDE DEF none, e, fine
    <3>3. JudgedAs(body, none, With(none, <<e>>), fine)
      BY <1>1, <2>1, <3>2, JudgedWrong
    <3> QED BY <3>3 DEF e
  <2>2. CASE body.kind = "null"
    <3>1. result = With(none, <<WireErr("missing", Root, body)>>) /\ ~fine
      BY <2>2 DEF CheckWireFrom, WireFine
    <3> QED BY <2>1, <3>1
  <2>3. CASE body.kind # "null" /\ body.kind # "dict"
    <3>1. result = With(none, <<WireErr("model_attributes_type", Root, body)>>) /\ ~fine
      BY <2>3 DEF CheckWireFrom, WireFine
    <3> QED BY <2>1, <3>1
  <2>4. CASE body.kind = "dict"
    <3> DEFINE a == CheckState(body, none)
               b == CheckModel(body, a)
               d == CheckQuestions(body, b)
               e == CheckExtras(body, RequestFields, Root, d)
               p1 == StateFine(body)
               p2 == ModelFine(body)
               p3 == QuestionsFine(body)
               p4 == KeysIn(body, RequestFields)
    <3>1. result = e
      BY <2>4 DEF CheckWireFrom, RequestFields
    <3>2. fine <=> ((p1 /\ p2) /\ p3) /\ p4
      BY <2>4 DEF WireFine
    <3> HIDE DEF none
    <3>3. JudgedAs(body, none, a, p1)
      BY <1>1, <2>4, StateIs
    <3>4. a \in Checks(body)
      <4> HIDE DEF a, p1
      <4> QED BY <3>3 DEF JudgedAs
    <3>5. JudgedAs(body, a, b, p2)
      <4> HIDE DEF a
      <4> QED BY <2>4, <3>4, ModelIs
    <3>6. b \in Checks(body)
      <4> HIDE DEF a, b, p2
      <4> QED BY <3>5 DEF JudgedAs
    <3>7. JudgedAs(body, b, d, p3)
      <4> HIDE DEF b
      <4> QED BY <2>4, <3>6, QuestionsAre
    <3>8. d \in Checks(body)
      <4> HIDE DEF b, d, p3
      <4> QED BY <3>7 DEF JudgedAs
    <3>9. JudgedAs(body, d, e, p4)
      <4> HIDE DEF d
      <4> QED BY <1>2, <2>4, <3>8, ExtrasAre
    <3> HIDE DEF a, b, d, e, p1, p2, p3, p4, fine
    <3> DEFINE q2 == p1 /\ p2
               q3 == q2 /\ p3
               q4 == q3 /\ p4
    <3>10. JudgedAs(body, none, b, q2)
      BY <1>1, <3>3, <3>5, JudgedThen
    <3>11. JudgedAs(body, none, d, q3)
      <4> HIDE DEF q2
      <4> QED BY <1>1, <3>7, <3>10, JudgedThen
    <3>12. JudgedAs(body, none, e, q4)
      <4> HIDE DEF q3
      <4> QED BY <1>1, <3>9, <3>11, JudgedThen
    <3>13. JudgedAs(body, none, e, fine)
      <4>1. q4 <=> fine
        BY <3>2
      <4> HIDE DEF q4
      <4> QED BY <3>12, <4>1, JudgedIff
    <3> QED BY <3>1, <3>13 DEF fine
  <2> QED BY <2>2, <2>3, <2>4
<1> HIDE DEF none, result, fine
<1>4. result \in Checks(body) /\ (fine => result = none) /\ (~fine => Len(none.errs) < Len(result.errs))
  BY <1>1, <1>3 DEF JudgedAs, Judges
<1>5. fine => result.errs = <<>>
  BY <1>1, <1>4
<1>6. ~fine => result.errs # <<>>
  <2>1. Len(<<>>) = 0
    OBVIOUS
  <2> QED BY <1>1, <1>4, <2>1
<1> QED BY <1>4, <1>5, <1>6 DEF result, fine

-----------------------------------------------------------------------------
(* Texts *)

\* A finite set of places has a first and a last.
LEMMA Ends ==
  ASSUME NEW n \in Nat, NEW T \in SUBSET (1..n), T # {}
  PROVE  /\ Min(T) \in T /\ Max(T) \in T
         /\ \A y \in T : Min(T) <= y /\ y <= Max(T)
<1>1. \E x \in T : \A y \in T : x <= y
  <2>1. T \in SUBSET Nat
    OBVIOUS
  <2>2. PICK x \in T : \A y \in T : ~(y < x)
    BY <2>1, Least
  <2>3. \A y \in T : x <= y
    BY <2>1, <2>2
  <2> QED BY <2>3
<1>2. \E x \in T : \A y \in T : x >= y
  <2> DEFINE U == {m \in Nat : m <= n /\ n - m \in T}
  <2>1. U \in SUBSET Nat /\ U # {}
    <3>1. PICK t \in T : TRUE
      OBVIOUS
    <3>2. n - t \in Nat /\ n - t <= n /\ n - (n - t) = t
      OBVIOUS
    <3>3. n - t \in U
      BY <3>2
    <3> QED BY <3>3
  <2>2. PICK u \in U : \A m \in U : ~(m < u)
    <3> HIDE DEF U
    <3> QED BY <2>1, Least
  <2>3. ASSUME NEW y \in T PROVE n - u >= y
    <3>1. n - y \in Nat /\ n - y <= n /\ n - (n - y) = y
      OBVIOUS
    <3>2. n - y \in U
      BY <3>1
    <3>3. ~(n - y < u) /\ u \in Nat
      BY <2>2, <3>2
    <3> QED BY <3>3
  <2> QED BY <2>2, <2>3
<1>3. Min(T) \in T /\ \A y \in T : Min(T) <= y
  BY <1>1 DEF Min
<1>4. Max(T) \in T /\ \A y \in T : Max(T) >= y
  BY <1>2 DEF Max
<1> QED BY <1>3, <1>4

\* The places of what is not white.
Solid(text) == {k \in DOMAIN text : text[k] \notin White}
\* Strip leaves what is from a to b.
Bounds(text, a, b) ==
  /\ a \in 1..Len(text) /\ b \in 1..Len(text) /\ a <= b
  /\ text[a] \notin White /\ text[b] \notin White
  /\ Len(Strip(text)) = b - a + 1
  /\ \A i \in 1..(b - a + 1) : Strip(text)[i] = text[a + i - 1]

\* Strip leaves what is between the first and the last character that is no
\* space.
LEMMA StripIs ==
  ASSUME NEW S, NEW text \in Seq(S)
  PROVE  /\ Strip(text) \in Seq(S) /\ Len(Strip(text)) \in Nat
         /\ Solid(text) = {} => Strip(text) = <<>>
         /\ Solid(text) # {} => /\ Strip(text) # <<>>
                                /\ Bounds(text, Min(Solid(text)), Max(Solid(text)))
<1> DEFINE n == Len(text)
           T == Solid(text)
           a == Min(T)
           b == Max(T)
<1>1. n \in Nat /\ DOMAIN text = 1..n
  BY LenProperties
<1>2. T = {k \in 1..n : text[k] \notin White}
  BY <1>1 DEF Solid
<1>3. CASE T = {}
  <2>1. Strip(text) = <<>>
    BY <1>3 DEF Strip, Solid
  <2>2. <<>> \in Seq(S) /\ Len(<<>>) = 0
    OBVIOUS
  <2> QED BY <1>3, <2>1, <2>2
<1>4. CASE T # {}
  <2>1. T \in SUBSET (1..n)
    BY <1>2
  <2>2. a \in T /\ b \in T /\ a <= b
    <3> HIDE DEF n, T
    <3> QED BY <1>1, <1>4, <2>1, Ends
  <2>3. a \in 1..n /\ b \in 1..n /\ text[a] \notin White /\ text[b] \notin White
    BY <1>2, <2>2
  <2>4. Strip(text) = SubSeq(text, a, b)
    BY <1>4 DEF Strip, Solid
  <2> HIDE DEF a, b, T
  <2>5. \A i \in a..b : text[i] \in S
    <3>1. \A i \in 1..n : text[i] \in S
      BY <1>1, ElementOfSeq
    <3>2. \A i \in a..b : i \in 1..n
      BY <1>1, <2>3
    <3> QED BY <3>1, <3>2
  <2>6. /\ SubSeq(text, a, b) \in Seq(S)
        /\ Len(SubSeq(text, a, b)) = b - a + 1
        /\ \A i \in 1..(b - a + 1) : SubSeq(text, a, b)[i] = text[a + i - 1]
    <3> HIDE DEF n
    <3>1. a <= b + 1
      BY <1>1, <2>2, <2>3
    <3>2. (IF a <= b THEN b - a + 1 ELSE 0) = b - a + 1
      BY <2>2
    <3>3. a \in 1..(n + 1) /\ b \in (a - 1)..n
      BY <1>1, <2>2, <2>3
    <3> QED BY <1>1, <2>3, <2>5, <3>1, <3>2, <3>3, SubSeqProperties DEF n
  <2>7. b - a + 1 \in Nat /\ b - a + 1 # 0
    BY <1>1, <2>2, <2>3
  <2>8. Strip(text) # <<>>
    <3>1. Len(<<>>) = 0
      OBVIOUS
    <3> QED BY <2>4, <2>6, <2>7, <3>1
  <2>9. Bounds(text, a, b)
    BY <2>2, <2>3, <2>4, <2>6 DEF Bounds
  <2> QED BY <1>4, <2>4, <2>6, <2>7, <2>8, <2>9 DEF a, b, T
<1> QED BY <1>3, <1>4

\* What begins and ends with none is left alone, so stripping twice is stripping
\* once; it adds no surrogate.
LEMMA StripTrimmed ==
  ASSUME NEW S, NEW text \in Seq(S), text # <<>>, text[1] \notin White, text[Len(text)] \notin White
  PROVE  Strip(text) = text
<1> DEFINE n == Len(text)
           T == Solid(text)
           a == Min(T)
           b == Max(T)
<1>1. n \in Nat /\ DOMAIN text = 1..n /\ n # 0
  BY LenProperties, EmptySeq
<1>2. T \in SUBSET (1..n) /\ 1 \in T /\ n \in T
  BY <1>1 DEF Solid
<1>3. Bounds(text, a, b) /\ Strip(text) \in Seq(S)
  <2>1. T # {}
    BY <1>2
  <2> QED BY <2>1, StripIs
<1>4. a = 1 /\ b = n
  <2> HIDE DEF n, T
  <2>1. a \in T /\ b \in T /\ a <= 1 /\ n <= b
    BY <1>1, <1>2, Ends
  <2> HIDE DEF a, b
  <2> QED BY <1>1, <1>2, <2>1
<1> HIDE DEF a, b
<1>5. Len(Strip(text)) = n /\ \A i \in 1..n : Strip(text)[i] = text[i]
  <2>1. Bounds(text, 1, n)
    BY <1>3, <1>4
  <2>2. n - 1 + 1 = n /\ \A i \in 1..n : 1 + i - 1 = i
    BY <1>1
  <2>3. Len(Strip(text)) = n - 1 + 1 /\ \A i \in 1..(n - 1 + 1) : Strip(text)[i] = text[1 + i - 1]
    BY <2>1 DEF Bounds
  <2> HIDE DEF n
  <2> QED BY <2>2, <2>3
<1> QED BY <1>3, <1>5, SeqEqual

\* Stripping twice is stripping once.
LEMMA StripTwice ==
  ASSUME NEW S, NEW text \in Seq(S)
  PROVE  Strip(Strip(text)) = Strip(text)
<1>1. CASE Solid(text) = {}
  <2>1. Strip(text) = <<>>
    BY <1>1, StripIs
  <2>2. <<>> \in Seq(S) /\ Solid(<<>>) = {}
    BY DEF Solid
  <2>3. Strip(<<>>) = <<>>
    BY <2>2, StripIs
  <2> QED BY <2>1, <2>3
<1>2. CASE Solid(text) # {}
  <2> DEFINE a == Min(Solid(text))
             b == Max(Solid(text))
             s == Strip(text)
  <2>1. s \in Seq(S) /\ s # <<>> /\ Bounds(text, a, b) /\ Len(text) \in Nat
    <3>1. Len(text) \in Nat
      BY LenProperties
    <3>2. s \in Seq(S)
      BY StripIs
    <3>3. s # <<>> /\ Bounds(text, a, b)
      BY <1>2, StripIs
    <3> QED BY <3>1, <3>2, <3>3
  <2> HIDE DEF a, b, s
  <2>2. /\ a \in 1..Len(text) /\ b \in 1..Len(text) /\ a <= b
        /\ text[a] \notin White /\ text[b] \notin White
        /\ Len(s) = b - a + 1
        /\ \A i \in 1..(b - a + 1) : s[i] = text[a + i - 1]
    BY <2>1 DEF Bounds, s
  <2>3. 1 \in 1..(b - a + 1) /\ b - a + 1 \in 1..(b - a + 1) /\ a + 1 - 1 = a /\ a + (b - a + 1) - 1 = b
    BY <2>1, <2>2
  <2>4. s[1] = text[a] /\ s[Len(s)] = text[b]
    BY <2>2, <2>3
  <2>5. Strip(s) = s
    BY <2>1, <2>2, <2>4, StripTrimmed
  <2> QED BY <2>5 DEF s
<1> QED BY <1>1, <1>2

\* Stripping leaves what UTF-8 can write.
LEMMA StripEncodes ==
  ASSUME NEW S, NEW text \in Seq(S), ~Lone(text)
  PROVE  ~Lone(Strip(text))
<1> DEFINE a == Min(Solid(text))
           b == Max(Solid(text))
           s == Strip(text)
<1>1. s \in Seq(S) /\ Len(s) \in Nat /\ Len(text) \in Nat /\ DOMAIN text = 1..Len(text) /\ DOMAIN s = 1..Len(s)
  BY StripIs, LenProperties
<1>2. CASE Solid(text) = {}
  <2>1. s = <<>>
    BY <1>2, StripIs
  <2> QED BY <2>1 DEF Lone
<1>3. CASE Solid(text) # {}
  <2>1. Bounds(text, a, b)
    BY <1>3, StripIs
  <2> HIDE DEF a, b, s
  <2>2. /\ a \in 1..Len(text) /\ b \in 1..Len(text)
        /\ Len(s) = b - a + 1 /\ \A i \in 1..(b - a + 1) : s[i] = text[a + i - 1]
    BY <2>1 DEF Bounds, s
  <2>3. \A i \in 1..(b - a + 1) : a + i - 1 \in 1..Len(text)
    BY <1>1, <2>2
  <2>4. ~Lone(s)
    BY <1>1, <2>2, <2>3 DEF Lone
  <2> QED BY <2>4 DEF s
<1> QED BY <1>2, <1>3

\* The check of a text finds nothing exactly if the text fits.
LEMMA FitsIs ==
  ASSUME NEW S, NEW text \in Seq(S), NEW loc
  PROVE  TextField(text, loc) = <<>> <=> Fits(text)
<1>1. Len(Strip(text)) \in Nat
  BY StripIs
<1>2. MAX_TEXT \in Nat
  BY WireAssumption
<1>3. \A e : <<e>> # <<>>
  OBVIOUS
<1> DEFINE n == Len(Strip(text))
<1>4. n \in Nat
  BY <1>1
<1>5. TextField(text, loc) = IF Lone(text) THEN <<AppErr("string_unicode", loc, <<>>)>>
                             ELSE IF n < 1 THEN <<AppErr("string_too_short", loc, <<>>)>>
                             ELSE IF n > MAX_TEXT THEN <<AppErr("string_too_long", loc, <<>>)>>
                             ELSE <<>>
  BY DEF TextField
<1>6. Fits(text) <=> ~Lone(text) /\ n \in 1..MAX_TEXT
  BY DEF Fits
<1> HIDE DEF n
<1>7. n \in 1..MAX_TEXT <=> ~(n < 1) /\ ~(n > MAX_TEXT)
  BY <1>2, <1>4
<1> QED BY <1>3, <1>5, <1>6, <1>7

\* Which word is put before a text changes nothing in whether it fits.
LEMMA WordBefore ==
  ASSUME NEW S, NEW text \in Seq(S), NEW x \in S, NEW y \in S,
         x \notin White \union Surrogates, y \notin White \union Surrogates, Fits(<<x>> \o text)
  PROVE  Fits(<<y>> \o text)
<1> DEFINE a == <<x>> \o text
           b == <<y>> \o text
           n == Len(text) + 1
<1>1. ASSUME NEW z \in S
      PROVE  /\ <<z>> \o text \in Seq(S) /\ Len(<<z>> \o text) = n
             /\ (<<z>> \o text)[1] = z /\ \A i \in 2..n : (<<z>> \o text)[i] = text[i - 1]
  <2>1. <<z>> \in Seq(S) /\ Len(<<z>>) = 1 /\ <<z>>[1] = z /\ Len(text) \in Nat
    BY LenProperties
  <2> DEFINE s == <<z>>
  <2> HIDE DEF s
  <2>2. s \in Seq(S) /\ Len(s) = 1 /\ s[1] = z
    BY <2>1 DEF s
  <2>3. s \o text \in Seq(S) /\ Len(s \o text) = 1 + Len(text)
        /\ \A i \in 1..(1 + Len(text)) : (s \o text)[i] = IF i <= 1 THEN s[i] ELSE text[i - 1]
    BY <2>2, ConcatProperties
  <2>4. 1 + Len(text) = n /\ 1 \in 1..n /\ 1 <= 1 /\ \A i \in 2..n : i \in 1..n /\ ~(i <= 1)
    BY <2>1
  <2> HIDE DEF n
  <2>5. s \o text \in Seq(S) /\ Len(s \o text) = n
        /\ (s \o text)[1] = z /\ \A i \in 2..n : (s \o text)[i] = text[i - 1]
    BY <2>2, <2>3, <2>4
  <2> QED BY <2>5 DEF s
<1>2. /\ a \in Seq(S) /\ Len(a) = n /\ a[1] = x /\ \A i \in 2..n : a[i] = text[i - 1]
      /\ b \in Seq(S) /\ Len(b) = n /\ b[1] = y /\ \A i \in 2..n : b[i] = text[i - 1]
  BY <1>1
<1>3. n \in Nat /\ n >= 1 /\ Fits(a)
  BY LenProperties
<1> HIDE DEF a, b, n
<1>4. DOMAIN a = 1..n /\ DOMAIN b = 1..n
  BY <1>2, LenProperties
<1>5. \A i \in 1..n : i = 1 \/ i \in 2..n
  BY <1>3
<1>6. Solid(a) = Solid(b) /\ 1 \in Solid(a)
  BY <1>2, <1>3, <1>4, <1>5 DEF Solid
<1>7. Lone(b) => Lone(a)
  BY <1>2, <1>3, <1>4, <1>5 DEF Lone
<1>8. Len(Strip(a)) = Len(Strip(b))
  <2>1. Bounds(a, Min(Solid(a)), Max(Solid(a))) /\ Bounds(b, Min(Solid(b)), Max(Solid(b)))
    BY <1>2, <1>6, StripIs
  <2> QED BY <1>6, <2>1 DEF Bounds
<1>9. Fits(b)
  BY <1>3, <1>7, <1>8 DEF Fits
<1> QED BY <1>9 DEF b

\* The words the code puts into texts.
Spoken == {"default", "Yes. ", "No. ", ":", " ", "- ", " < ", "Question: ", "Answer:"}
\* The characters of prompts: of texts, and the words of the templates.
Characters == STRING \union Spoken

\* A text that is one word.
LEMMA WordIs ==
  ASSUME NEW w \in Spoken
  PROVE  /\ <<w>> \in Seq(Characters) /\ ~Lone(<<w>>)
         /\ w \notin White \ {" "}
<1>1. w \in Characters
  BY DEF Characters
<1>2. w \notin Surrogates /\ w \notin White \ {" "}
  BY DEF Spoken, Surrogates, White
<1>3. <<w>> \in Seq(Characters) /\ DOMAIN <<w>> = {1} /\ <<w>>[1] = w
  BY <1>1
<1>4. ~Lone(<<w>>)
  BY <1>2, <1>3 DEF Lone
<1> QED BY <1>2, <1>3, <1>4

\* A text of JSON is one of those.
LEMMA MoreTexts == \A text \in Seq(STRING) : text \in Seq(Characters)
<1> SUFFICES ASSUME NEW text \in Seq(STRING) PROVE text \in Seq(Characters)
  OBVIOUS
<1> QED BY DEF Characters

\* The text to_native puts where there are no instructions fits.
LEMMA DefaultFits == <<"default">> \in Seq(Characters) /\ Fits(<<"default">>)
<1> DEFINE t == <<"default">>
<1>1. "default" \in Spoken
  BY DEF Spoken
<1>2. t \in Seq(Characters) /\ ~Lone(t) /\ "default" \notin White \ {" "}
  BY <1>1, WordIs
<1>3. t # <<>> /\ Len(t) = 1 /\ t[1] = "default" /\ "default" \notin White
  BY <1>2
<1> HIDE DEF t
<1>4. Strip(t) = t
  BY <1>2, <1>3, StripTrimmed
<1>5. Len(Strip(t)) \in 1..MAX_TEXT
  <2>1. MAX_TEXT \in Nat \ {0}
    BY WireAssumption
  <2>2. Len(Strip(t)) = 1
    BY <1>3, <1>4
  <2> QED BY <2>1, <2>2
<1> QED BY <1>2, <1>5 DEF Fits, t

\* A value of a request: sent, and in what was sent.
SentIn(r, v) == r \in Sent /\ IsJson(r.value) /\ v \in Within(r.value)

\* What dumps writes of a value that was sent (DumpsAssumption).
LEMMA DumpsAre ==
  ASSUME NEW r, NEW v, SentIn(r, v), NEW o \in {Canonical, StateDump, PromptDump}
  PROVE  /\ Dumps(v, o) \in Seq(STRING)
         /\ Lone(Dumps(v, o)) <=> HasLone(v)
         /\ Container(v) => Bracketed(Dumps(v, o))
<1>1. v \in UNION {Within(s.value) : s \in Sent}
  BY DEF SentIn
<1>2. /\ Dumps(v, o) \in Seq(STRING)
      /\ Lone(Dumps(v, o)) <=> HasLone(v)
      /\ \A text \in {Dumps(v, o)} : Container(v) => Bracketed(text)
  BY <1>1, DumpsAssumption
<1> QED BY <1>2

\* text_of is stripped, and empty only for a text of spaces.
LEMMA TextOfIs ==
  ASSUME NEW r, NEW v, SentIn(r, v), v.kind = "str" \/ Container(v)
  PROVE  /\ TextOf(v) \in Seq(STRING)
         /\ v.kind = "str" => TextOf(v) = Strip(v.text)
         /\ Container(v) => TextOf(v) # <<>>
         /\ Strip(TextOf(v)) = TextOf(v)
<1>1. v.text \in Seq(STRING)
  BY StringIs DEF SentIn
<1>2. CASE v.kind = "str"
  <2>1. TextOf(v) = Strip(v.text) /\ ~Container(v)
    BY <1>2 DEF TextOf, Container
  <2> QED BY <1>1, <1>2, <2>1, StripIs, StripTwice
<1>3. CASE Container(v)
  <2> DEFINE t == Dumps(v, Canonical)
  <2>1. TextOf(v) = t /\ v.kind # "str"
    BY <1>3 DEF TextOf, Container
  <2>2. t \in Seq(STRING) /\ Bracketed(t)
    BY <1>3, DumpsAre
  <2> HIDE DEF t
  <2>3. t # <<>> /\ t[1] \in {"[", "{"} /\ t[Len(t)] \in {"]", "}"}
    BY <2>2 DEF Bracketed
  <2>4. {"[", "{", "]", "}"} \intersect White = {}
    BY DEF White
  <2>5. t[1] \notin White /\ t[Len(t)] \notin White
    BY <2>3, <2>4
  <2>6. Strip(t) = t
    BY <2>2, <2>3, <2>5, StripTrimmed
  <2> QED BY <2>1, <2>2, <2>3, <2>6
<1> QED BY <1>2, <1>3

\* There is no NaN in null.
LEMMA NullIsFinite ==
  ASSUME NEW v, v.kind = "null", v.items = <<>>
  PROVE  ~HasNonFinite(v)
<1> DEFINE T == {n \in Nat : Level(v, n) \subseteq {v}}
<1>1. 0 \in T
  BY LevelBelow
<1>2. ASSUME NEW n \in Nat, n \in T PROVE n + 1 \in T
  <2>1. Level(v, n + 1) = UNION {ItemsOf(x) : x \in Level(v, n)}
    BY LevelBelow
  <2>2. ItemsOf(v) = {}
    BY DEF ItemsOf
  <2>3. Level(v, n) \subseteq {v}
    BY <1>2
  <2> QED BY <2>1, <2>2, <2>3
<1> HIDE DEF T
<1>3. \A n \in Nat : n \in T
  BY <1>1, <1>2, Induct
<1>4. Within(v) \subseteq {v}
  <2>1. \A n \in 0..MaxDepth : Level(v, n) \subseteq {v}
    BY <1>3, DepthAssumption DEF T
  <2> QED BY <2>1 DEF Within
<1> QED BY <1>4 DEF HasNonFinite

-----------------------------------------------------------------------------
(* What the checks and the schema say of a question's parts *)

\* Of instructions
InstructionsPass(v) == Typed(v, TRUE) /\ ~HasNonFinite(v) /\ (Truthy(v) /\ TextOf(v) # <<>> => Fits(TextOf(v)))

\* What both checks let through as instructions is what the schema does,
LEMMA InstructionsAgree ==
  ASSUME NEW r, NEW v, SentIn(r, v)
  PROVE  InstructionsPass(v) <=> GoodInstructions(v)
<1>1. v.text \in Seq(STRING) /\ v.kind \in Kinds /\ (v.kind \notin {"list", "dict"} => v.items = <<>>)
  BY StringIs DEF SentIn
<1>2. CASE v.kind = "null"
  <2>1. v.items = <<>>
    BY <1>1, <1>2
  <2>2. ~HasNonFinite(v)
    BY <1>2, <2>1, NullIsFinite
  <2>3. ~Truthy(v)
    BY <1>2 DEF Truthy
  <2> QED BY <1>2, <2>2, <2>3 DEF InstructionsPass, GoodInstructions, Typed
<1>3. CASE v.kind # "null" /\ v.kind # "str" /\ ~Container(v)
  BY <1>3 DEF InstructionsPass, GoodInstructions, Typed, Readable, Structured
<1>4. CASE v.kind = "str"
  <2>1. TextOf(v) = Strip(v.text) /\ v.items = <<>>
    BY <1>1, <1>4, TextOfIs
  <2>2. Truthy(v) <=> v.text # <<>>
    BY <1>4 DEF Truthy
  <2>3. v.text = <<>> => Strip(v.text) = <<>>
    BY DEF Strip
  <2>4. v.kind # "null"
    BY <1>4
  <2>5. Typed(v, TRUE) <=> Structured(v)
    BY <2>4 DEF Typed
  <2>6. InstructionsPass(v) <=> Structured(v) /\ ~HasNonFinite(v) /\ (Strip(v.text) # <<>> => Fits(Strip(v.text)))
    BY <2>1, <2>2, <2>3, <2>5 DEF InstructionsPass
  <2>7. GoodInstructions(v) <=> Structured(v) /\ ~HasNonFinite(v) /\ (Strip(v.text) = <<>> \/ Fits(Strip(v.text)))
    BY <2>1, <2>4 DEF GoodInstructions, Readable
  <2> QED BY <2>6, <2>7
<1>5. CASE Container(v)
  <2>1. TextOf(v) # <<>>
    BY <1>5, TextOfIs
  <2>2. Truthy(v) <=> v.items # <<>>
    BY <1>5 DEF Truthy, Container
  <2>3. v.text = <<>>
    BY <1>5, JsonIs DEF JsonIn, SentIn
  <2>4. Strip(v.text) = <<>>
    BY <2>3 DEF Strip
  <2>5. v.kind # "null"
    BY <1>5 DEF Container
  <2>6. Typed(v, TRUE) <=> Structured(v)
    BY <2>5 DEF Typed
  <2>7. InstructionsPass(v) <=> Structured(v) /\ ~HasNonFinite(v) /\ (v.items # <<>> => Fits(TextOf(v)))
    BY <2>1, <2>2, <2>6 DEF InstructionsPass
  <2>8. GoodInstructions(v) <=> Structured(v) /\ ~HasNonFinite(v) /\ (v.items = <<>> \/ Fits(TextOf(v)))
    BY <2>4, <2>5 DEF GoodInstructions, Readable
  <2> QED BY <2>7, <2>8
<1> QED BY <1>2, <1>3, <1>4, <1>5

\* Of a description after `before`
DescriptionPasses(v, before) == Typed(v, TRUE) /\ ~HasNonFinite(v) /\ (~Blank(v) => Fits(before \o TextOf(v)))

\* and so of a description.
LEMMA DescriptionsAgree ==
  ASSUME NEW r, NEW v, SentIn(r, v), NEW before
  PROVE  DescriptionPasses(v, before) <=> GoodDescription(v, before)
<1>1. v.kind = "null" => v.items = <<>>
  BY StringIs DEF SentIn
<1>2. CASE v.kind = "null"
  <2>1. ~HasNonFinite(v)
    BY <1>1, <1>2, NullIsFinite
  <2> QED BY <1>2, <2>1 DEF DescriptionPasses, GoodDescription, Typed, Blank
<1>3. CASE v.kind # "null"
  <2>1. Typed(v, TRUE) <=> Structured(v)
    BY <1>3 DEF Typed
  <2>2. Blank(v) <=> v = Str(<<>>)
    BY <1>3 DEF Blank
  <2> QED BY <1>3, <2>1, <2>2 DEF DescriptionPasses, GoodDescription, Readable
<1> QED BY <1>2, <1>3

-----------------------------------------------------------------------------
(* The errors of check_native *)

\* A function of 1..n is a sequence.
LEMMA MadeSeq ==
  ASSUME NEW S, NEW n \in Nat, NEW f \in [1..n -> S]
  PROVE  f \in Seq(S) /\ Len(f) = n /\ DOMAIN f = 1..n
<1>1. f \in Seq(S)
  BY SeqDef
<1> QED BY <1>1

\* Lists laid end to end are empty exactly if each is.
LEMMA FlattenEmpty ==
  ASSUME NEW X, NEW ss \in Seq(Seq(X))
  PROVE  /\ FlattenSeq(ss) \in Seq(X)
         /\ FlattenSeq(ss) = <<>> <=> \A k \in 1..Len(ss) : ss[k] = <<>>
<1> DEFINE f == FlattenSeq(ss)
           s == Lens(ss)
           n == Len(ss)
<1>1. f \in Seq(X) /\ Flat(ss, f)
  BY FlattenIs
<1>2. n \in Nat /\ DOMAIN ss = 1..n /\ s \in [1..n -> Nat]
      /\ \A b \in 1..n : ss[b] \in Seq(X) /\ s[b] = Len(ss[b]) /\ Len(ss[b]) \in Nat
  BY LensIs
<1> HIDE DEF f, s, n
<1>3. Len(f) = SumTo(s, n) /\ \A b \in 1..n : \A j \in 1..Len(ss[b]) : SumTo(s, b - 1) + j \in 1..Len(f)
  BY <1>1, <1>2 DEF Flat, s, n
<1>4. Len(f) \in Nat
  BY <1>1, LenProperties
<1>5. ASSUME f = <<>>, NEW k \in 1..n PROVE ss[k] = <<>>
  <2>1. Len(f) = 0
    BY <1>5
  <2>2. ss[k] # <<>> => 1 \in 1..Len(ss[k])
    <3>1. ss[k] # <<>> => Len(ss[k]) \in Nat \ {0}
      BY <1>2, EmptySeq
    <3> QED BY <3>1
  <2>3. ss[k] # <<>> => SumTo(s, k - 1) + 1 \in 1..0
    BY <1>3, <2>1, <2>2
  <2> QED BY <2>3
<1>6. ASSUME f # <<>> PROVE \E k \in 1..n : ss[k] # <<>>
  <2>1. Len(f) # 0 /\ 1 \in 1..Len(f)
    <3>1. Len(f) \in Nat \ {0}
      BY <1>1, <1>6, EmptySeq
    <3> QED BY <3>1
  <2>2. 1 \in 1..SumTo(s, n)
    BY <1>3, <2>1
  <2>3. PICK b \in 1..n : 1 - SumTo(s, b - 1) \in 1..s[b]
    BY <1>2, <2>2, PlaceInSum
  <2>4. s[b] # 0
    BY <1>2, <2>3
  <2>5. ss[b] # <<>>
    <3>1. s[b] = Len(ss[b])
      BY <1>2
    <3>2. Len(<<>>) = 0
      OBVIOUS
    <3> QED BY <2>4, <3>1, <3>2
  <2> QED BY <2>5
<1> QED BY <1>1, <1>5, <1>6 DEF f, n

\* The errors at locations L.
AppErrs(L) == {AppErr(t, l, <<>>) : t \in Types, l \in L}

\* A text's errors have its path.
LEMMA TextFieldIs ==
  ASSUME NEW text, NEW L, NEW loc \in L
  PROVE  TextField(text, loc) \in Seq(AppErrs(L))
<1> DEFINE X == AppErrs(L)
<1>1. \A t \in Types : AppErr(t, loc, <<>>) \in X
  BY DEF AppErrs
<1>2. "string_unicode" \in Types /\ "string_too_short" \in Types /\ "string_too_long" \in Types
  BY DEF Types
<1>3. \A e \in X : <<e>> \in Seq(X)
  OBVIOUS
<1>4. <<>> \in Seq(X)
  OBVIOUS
<1> HIDE DEF X
<1>5. TextField(text, loc) \in {<<>>, <<AppErr("string_unicode", loc, <<>>)>>, <<AppErr("string_too_short", loc, <<>>)>>,
                                <<AppErr("string_too_long", loc, <<>>)>>}
  BY DEF TextField
<1>6. TextField(text, loc) \in Seq(X)
  BY <1>1, <1>2, <1>3, <1>4, <1>5
<1> QED BY <1>6 DEF X

\* The places of a question's errors.
Base(N) == <<Name("body"), Name("questions"), Str(N.id), Name(N.kind)>>
\* Where the errors of a question point, the texts it is checked by, and two that
\* are the same when stripped.
TextLoc(N, k) == Base(N) \o <<Name(N.texts[k].field)>> \o
                CASE N.kind = "choice" -> <<Index(k - 1), Name("description")>>
                  [] N.kind = "score" -> <<Index(k - 1)>>
                  [] OTHER -> <<>>
NativeLocs(N) == {Base(N), Append(Base(N), Name("instructions"))} \union {TextLoc(N, k) : k \in 1..Len(N.texts)}
\* A question to_native has made, whose texts are texts.
Native(N) == /\ N.instructions \in Seq(Characters)
             /\ Len(N.texts) \in Nat /\ DOMAIN N.texts = 1..Len(N.texts)
             /\ \A k \in 1..Len(N.texts) : N.texts[k].text \in Seq(Characters)
TextsFit(N) == /\ Fits(N.instructions)
               /\ \A k \in 1..Len(N.texts) : Fits(N.texts[k].text)
Repeated(N) == \E j, k \in 1..Len(N.texts) : j # k /\ Strip(N.texts[j].text) = Strip(N.texts[k].text)

\* The errors of a question: none exactly if its texts fit and no two levels are
\* the same.
LEMMA CheckTextsIs ==
  ASSUME NEW N, Native(N)
  PROVE  /\ CheckTexts(N) \in Seq(AppErrs(NativeLocs(N)))
         /\ CheckTexts(N) = <<>> <=> TextsFit(N) /\ ~(N.kind = "score" /\ Repeated(N))
<1> DEFINE L == NativeLocs(N)
           X == AppErrs(L)
           n == Len(N.texts)
           field == TextField(N.instructions, Append(Base(N), Name("instructions")))
           each == [k \in 1..n |-> TextField(N.texts[k].text, TextLoc(N, k))]
           fields == field \o FlattenSeq(each)
           again == N.kind = "score" /\ Repeated(N)
           e == AppErr("value_error", Base(N), <<>>)
<1>1. n \in Nat /\ DOMAIN N.texts = 1..n
  BY DEF Native
<1>2. field \in Seq(X) /\ (field = <<>> <=> Fits(N.instructions))
  <2>1. Append(Base(N), Name("instructions")) \in L
    BY DEF NativeLocs
  <2>2. N.instructions \in Seq(Characters)
    BY DEF Native
  <2> HIDE DEF L
  <2> QED BY <2>1, <2>2, TextFieldIs, FitsIs
<1>3. \A k \in 1..n : TextField(N.texts[k].text, TextLoc(N, k)) \in Seq(X)
                      /\ (TextField(N.texts[k].text, TextLoc(N, k)) = <<>> <=> Fits(N.texts[k].text))
  <2> SUFFICES ASSUME NEW k \in 1..n
               PROVE  TextField(N.texts[k].text, TextLoc(N, k)) \in Seq(X)
                      /\ (TextField(N.texts[k].text, TextLoc(N, k)) = <<>> <=> Fits(N.texts[k].text))
    OBVIOUS
  <2>1. TextLoc(N, k) \in L
    BY DEF NativeLocs
  <2>2. N.texts[k].text \in Seq(Characters)
    BY DEF Native
  <2> HIDE DEF L
  <2> QED BY <2>1, <2>2, TextFieldIs, FitsIs
<1>4. CheckTexts(N) = IF N.kind = "score" /\ fields = <<>> /\ Repeated(N) THEN <<e>> ELSE fields
  BY <1>1 DEF CheckTexts, Repeated, Base, TextLoc
<1>5. e \in X
  <2>1. Base(N) \in L
    BY DEF NativeLocs
  <2>2. "value_error" \in Types
    BY DEF Types
  <2> HIDE DEF L
  <2> QED BY <2>1, <2>2 DEF AppErrs
<1> HIDE DEF X, L, field, e
<1>6. each \in Seq(Seq(X)) /\ Len(each) = n
  <2>1. each \in [1..n -> Seq(X)]
    BY <1>3
  <2> HIDE DEF each, n
  <2> QED BY <1>1, <2>1, MadeSeq
<1>7. \A k \in 1..n : each[k] = <<>> <=> Fits(N.texts[k].text)
  BY <1>3
<1> HIDE DEF each
<1>8. FlattenSeq(each) \in Seq(X) /\ (FlattenSeq(each) = <<>> <=> \A k \in 1..n : each[k] = <<>>)
  BY <1>6, FlattenEmpty
<1> DEFINE rest == FlattenSeq(each)
<1> HIDE DEF rest
<1>9. fields \in Seq(X) /\ (fields = <<>> <=> field = <<>> /\ rest = <<>>)
  <2>1. rest \in Seq(X)
    BY <1>8 DEF rest
  <2>2. field \o rest \in Seq(X) /\ (field \o rest = <<>> <=> field = <<>> /\ rest = <<>>)
    BY <1>2, <2>1, ConcatProperties, ConcatEqualIffEmpty
  <2> QED BY <2>2 DEF rest
<1>10. fields = <<>> <=> TextsFit(N)
  BY <1>2, <1>7, <1>8, <1>9 DEF TextsFit, rest
<1> HIDE DEF fields
<1>11. <<e>> \in Seq(X) /\ <<e>> # <<>>
  BY <1>5
<1>12. CheckTexts(N) \in Seq(X)
  BY <1>4, <1>9, <1>11
<1>13. CheckTexts(N) = <<>> <=> TextsFit(N) /\ ~(N.kind = "score" /\ Repeated(N))
  BY <1>4, <1>10, <1>11
<1> QED BY <1>12, <1>13 DEF X, L

-----------------------------------------------------------------------------
(* What to_native makes of a question *)

\* The parts of a value that was sent are values that were sent.
LEMMA FieldSent ==
  ASSUME NEW r, NEW q, SentIn(r, q), NEW key, HasKey(q, key)
  PROVE  SentIn(r, Get(q, key))
BY FieldIs DEF SentIn

\* The items of a value that was sent were sent.
LEMMA ItemsSent ==
  ASSUME NEW r, NEW v, SentIn(r, v)
  PROVE  /\ Len(v.items) \in Nat /\ DOMAIN v.items = 1..Len(v.items)
         /\ v.items = <<>> <=> Len(v.items) = 0
         /\ \A k \in 1..Len(v.items) : v.items[k].key \in Seq(STRING) /\ SentIn(r, v.items[k].value)
<1>1. JsonIn(v, Within(r.value))
  BY JsonIs DEF SentIn
<1>2. /\ Len(v.items) \in Nat /\ DOMAIN v.items = 1..Len(v.items)
      /\ v.items = <<>> <=> Len(v.items) = 0
      /\ \A k \in 1..Len(v.items) : v.items[k].key \in Seq(STRING) /\ v.items[k].value \in Within(r.value)
  BY <1>1 DEF JsonIn
<1> QED BY <1>2 DEF SentIn

\* Instructions as they are asked: the default ones if there are none.
Worded(q) == HasKey(q, "instructions") /\ Truthy(Get(q, "instructions")) /\ TextOf(Get(q, "instructions")) # <<>>

\* The instructions to_native writes are the text that was given, or the default.
LEMMA InstructionsAre ==
  ASSUME NEW r, NEW q, SentIn(r, q), FieldFine(q, "instructions"), NEW qid
  PROVE  /\ ToNative(qid, q).instructions = IF Worded(q) THEN TextOf(Get(q, "instructions")) ELSE <<"default">>
         /\ ToNative(qid, q).instructions \in Seq(Characters)
         /\ Fits(ToNative(qid, q).instructions) <=> (Worded(q) => Fits(TextOf(Get(q, "instructions"))))
<1> DEFINE v == Get(q, "instructions")
           said == HasKey(q, "instructions") /\ Truthy(v)
           t == IF said THEN TextOf(v) ELSE <<>>
           i == ToNative(qid, q).instructions
<1>1. i = IF t = <<>> THEN <<"default">> ELSE t
  BY DEF ToNative
<1>2. i = IF Worded(q) THEN TextOf(v) ELSE <<"default">>
  BY <1>1 DEF Worded
<1>3. Worded(q) => TextOf(v) \in Seq(STRING)
  <2> SUFFICES ASSUME Worded(q) PROVE TextOf(v) \in Seq(STRING)
    OBVIOUS
  <2>1. SentIn(r, v)
    BY FieldSent DEF Worded
  <2>2. v.kind # "null"
    BY DEF Worded, Truthy
  <2>3. v.kind = "str" \/ Container(v)
    BY <2>2 DEF Worded, FieldFine, Typed, Structured
  <2> HIDE DEF v
  <2> QED BY <2>1, <2>3, TextOfIs
<1>4. i \in Seq(Characters)
  <2>1. Worded(q) => TextOf(v) \in Seq(Characters)
    BY <1>3, MoreTexts
  <2> QED BY <1>2, <2>1, DefaultFits
<1>5. Fits(i) <=> (Worded(q) => Fits(TextOf(v)))
  BY <1>2, DefaultFits
<1> QED BY <1>2, <1>4, <1>5

\* Text i says the values its items hold, without what text_of refuses.
FiniteInstructions(q) == HasKey(q, "instructions") => ~HasNonFinite(Get(q, "instructions"))
\* No NaN where to_native dumps the criteria.
FiniteCriteria(q) == HasKey(q, "criteria") =>
  \A k \in 1..Len(Get(q, "criteria").items) : ~HasNonFinite(Get(q, "criteria").items[k].value)

\* Instructions pass the checks exactly if they are good.
LEMMA InstructionsPassed ==
  ASSUME NEW r, NEW q, SentIn(r, q), NEW qid
  PROVE  /\ (HasKey(q, "instructions") => GoodInstructions(Get(q, "instructions"))) => FieldFine(q, "instructions")
         /\ FieldFine(q, "instructions") =>
              (FiniteInstructions(q) /\ Fits(ToNative(qid, q).instructions) <=>
                (HasKey(q, "instructions") => GoodInstructions(Get(q, "instructions"))))
<1> DEFINE v == Get(q, "instructions")
<1>1. HasKey(q, "instructions") => (InstructionsPass(v) <=> GoodInstructions(v))
  BY FieldSent, InstructionsAgree
<1>2. (HasKey(q, "instructions") => GoodInstructions(v)) => FieldFine(q, "instructions")
  BY <1>1 DEF InstructionsPass, FieldFine
<1>3. ASSUME FieldFine(q, "instructions")
      PROVE  FiniteInstructions(q) /\ Fits(ToNative(qid, q).instructions) <=>
                (HasKey(q, "instructions") => GoodInstructions(v))
  <2>1. Fits(ToNative(qid, q).instructions) <=> (Worded(q) => Fits(TextOf(v)))
    BY <1>3, InstructionsAre
  <2>2. HasKey(q, "instructions") => (InstructionsPass(v) <=> ~HasNonFinite(v) /\ (Worded(q) => Fits(TextOf(v))))
    BY <1>3 DEF FieldFine, InstructionsPass, Worded
  <2>3. ~HasKey(q, "instructions") => ~Worded(q)
    BY DEF Worded
  <2> QED BY <1>1, <2>1, <2>2, <2>3 DEF FiniteInstructions
<1> QED BY <1>2, <1>3

\* to_native refuses a question exactly if a text it has to write holds NaN.
LEMMA NanIs ==
  ASSUME NEW r, NEW q, SentIn(r, q), NEW tag \in Tags, Get(q, "type") = Name(tag), CriteriaFine(tag, q)
  PROVE  ~NanIn(q) <=> FiniteInstructions(q) /\ FiniteCriteria(q)
<1> DEFINE crit == Get(q, "criteria")
           instructions == IF HasKey(q, "instructions") THEN {Get(q, "instructions")} ELSE {}
           keys == IF Get(q, "type") = Name("noul") THEN {<<"true">>, <<"false">>} ELSE {m.key : m \in ToSet(crit.items)}
           values == IF HasKey(q, "criteria") THEN {m.value : m \in {m \in ToSet(crit.items) : m.key \in keys}} ELSE {}
<1>1. Texts(q) = instructions \union values
  BY DEF Texts
<1>2. (\A v \in instructions : ~HasNonFinite(v)) <=> FiniteInstructions(q)
  BY DEF FiniteInstructions
<1>3. (\A v \in values : ~HasNonFinite(v)) <=> FiniteCriteria(q)
  <2>1. CASE ~HasKey(q, "criteria")
    BY <2>1 DEF FiniteCriteria
  <2>2. CASE HasKey(q, "criteria")
    <3>1. SentIn(r, crit)
      BY <2>2, FieldSent
    <3>2. Len(crit.items) \in Nat /\ DOMAIN crit.items = 1..Len(crit.items) /\ (crit.items = <<>> => Len(crit.items) = 0)
      <4> HIDE DEF crit
      <4> QED BY <3>1, ItemsSent
    <3>3. ToSet(crit.items) = {crit.items[k] : k \in 1..Len(crit.items)}
      <4> HIDE DEF crit
      <4> QED BY <3>2 DEF ToSet
    <3>4. \A k \in 1..Len(crit.items) : crit.items[k].key \in keys
      <4>1. CASE tag = "noul"
        <5>1. keys = {<<"true">>, <<"false">>}
          BY <4>1
        <5>2. CASE crit.kind = "null"
          <6>1. crit.items = <<>>
            BY <3>1, <5>2, StringIs DEF SentIn
          <6>2. 1..Len(crit.items) = {}
            BY <3>2, <6>1
          <6> QED BY <6>2
        <5>3. CASE crit.kind # "null"
          <6>1. KeysIn(crit, {"true", "false"})
            BY <2>2, <4>1, <5>3 DEF CriteriaFine, NoulFine
          <6>2. Keys(crit) \subseteq {<<"true">>, <<"false">>}
            BY <6>1 DEF KeysIn
          <6> HIDE DEF crit, keys
          <6>3. \A k \in 1..Len(crit.items) : crit.items[k].key \in Keys(crit)
            BY <3>3 DEF Keys
          <6> QED BY <5>1, <6>2, <6>3
        <5> QED BY <5>2, <5>3
      <4>2. CASE tag # "noul"
        <5>1. Name(tag) # Name("noul")
          BY <4>2, NameIs
        <5>2. keys = {m.key : m \in ToSet(crit.items)}
          BY <5>1
        <5> HIDE DEF crit, keys
        <5> QED BY <3>3, <5>2
      <4> QED BY <4>1, <4>2
    <3>5. values = {crit.items[k].value : k \in 1..Len(crit.items)}
      <4>1. values = {m.value : m \in {m \in ToSet(crit.items) : m.key \in keys}}
        BY <2>2
      <4> HIDE DEF crit, keys, values
      <4>2. {m \in ToSet(crit.items) : m.key \in keys} = ToSet(crit.items)
        BY <3>3, <3>4
      <4> QED BY <3>3, <4>1, <4>2
    <3> HIDE DEF values
    <3> QED BY <2>2, <3>5 DEF FiniteCriteria
  <2> QED BY <2>1, <2>2
<1> HIDE DEF instructions, values
<1>4. ~NanIn(q) <=> (\A v \in instructions : ~HasNonFinite(v)) /\ (\A v \in values : ~HasNonFinite(v))
  BY <1>1 DEF NanIn
<1> QED BY <1>2, <1>3, <1>4

-----------------------------------------------------------------------------
(* The criteria of a noul *)

\* The schema's criteria of a noul.
GoodNoul(q) ==
  HasKey(q, "criteria") =>
    \/ Get(q, "criteria").kind = "null"
    \/ /\ KeysIn(Get(q, "criteria"), {"true", "false"})
       /\ \A m \in ToSet(Get(q, "criteria").items) : GoodDescription(m.value, <<"Yes. ">>)

\* The texts of a sequence of texts.
TextsAre(ts, said) == /\ Len(ts) \in Nat /\ DOMAIN ts = 1..Len(ts)
                      /\ {ts[k].text : k \in 1..Len(ts)} = said

\* The texts of two lists laid end to end are the texts of both.
LEMMA ConcatTexts ==
  ASSUME NEW M, NEW x \in Seq(M), NEW y \in Seq(M), NEW a, NEW b, TextsAre(x, a), TextsAre(y, b)
  PROVE  TextsAre(x \o y, a \union b)
<1>1. x \o y \in Seq(M) /\ Len(x \o y) = Len(x) + Len(y) /\ Len(x) \in Nat /\ Len(y) \in Nat
      /\ \A i \in 1..(Len(x) + Len(y)) : (x \o y)[i] = IF i <= Len(x) THEN x[i] ELSE y[i - Len(x)]
  BY ConcatProperties, LenProperties
<1> DEFINE z == x \o y
           m == Len(x)
           n == Len(y)
<1>2. Len(z) \in Nat /\ DOMAIN z = 1..Len(z)
  BY <1>1, LenProperties
<1>3. Len(z) = m + n /\ m \in Nat /\ n \in Nat /\ \A i \in 1..(m + n) : z[i] = IF i <= m THEN x[i] ELSE y[i - m]
  BY <1>1
<1>4. {x[k].text : k \in 1..m} = a /\ {y[k].text : k \in 1..n} = b
  BY DEF TextsAre
<1> HIDE DEF z, m, n
<1>5. \A k \in 1..(m + n) : z[k].text \in a \union b
  <2> SUFFICES ASSUME NEW k \in 1..(m + n) PROVE z[k].text \in a \union b
    OBVIOUS
  <2>1. CASE k <= m
    <3>1. k \in 1..m /\ z[k] = x[k]
      BY <1>3, <2>1
    <3> QED BY <1>4, <3>1
  <2>2. CASE ~(k <= m)
    <3>1. k - m \in 1..n /\ z[k] = y[k - m]
      BY <1>3, <2>2
    <3> QED BY <1>4, <3>1
  <2> QED BY <2>1, <2>2
<1>6. \A k \in 1..m : k \in 1..(m + n) /\ z[k] = x[k]
  BY <1>3
<1>7. \A k \in 1..n : m + k \in 1..(m + n) /\ z[m + k] = y[k]
  <2> SUFFICES ASSUME NEW k \in 1..n PROVE m + k \in 1..(m + n) /\ z[m + k] = y[k]
    OBVIOUS
  <2>1. m + k \in 1..(m + n) /\ ~(m + k <= m) /\ (m + k) - m = k
    BY <1>3
  <2> QED BY <1>3, <2>1
<1>8. a \subseteq {z[k].text : k \in 1..(m + n)}
  BY <1>4, <1>6
<1>9. b \subseteq {z[k].text : k \in 1..(m + n)}
  BY <1>4, <1>7
<1>10. {z[k].text : k \in 1..Len(z)} = a \union b
  BY <1>3, <1>5, <1>8, <1>9
<1> QED BY <1>2, <1>10 DEF TextsAre, z

\* The description of an answer, if there is one.
Says(crit, key) == HasKey(crit, key) /\ ~Blank(Get(crit, key))
\* What is made of one of the criteria of a noul.
Said(crit, key, words) == IF Says(crit, key) THEN {words \o TextOf(Get(crit, key))} ELSE {}

\* to_native makes a text of a criterion exactly if there is one.
LEMMA DescribedIs ==
  ASSUME NEW q, HasKey(q, "criteria"), NEW key, NEW field, NEW words, NEW M,
         Text(field, words \o TextOf(Get(Get(q, "criteria"), key))) \in M
  PROVE  /\ Described(q, key, field, words) \in Seq(M)
         /\ TextsAre(Described(q, key, field, words), Said(Get(q, "criteria"), key, words))
<1> DEFINE crit == Get(q, "criteria")
           t == words \o TextOf(Get(crit, key))
           d == Described(q, key, field, words)
<1>1. CASE Says(crit, key)
  <2>1. d = <<Text(field, t)>>
    BY <1>1 DEF Described, Says
  <2>2. Said(crit, key, words) = {t}
    BY <1>1 DEF Said
  <2>3. Text(field, t).text = t /\ Text(field, t) \in M
    BY DEF Text
  <2> DEFINE x == Text(field, t)
  <2> HIDE DEF t, d, x
  <2>4. Len(<<x>>) = 1 /\ DOMAIN <<x>> = 1..1 /\ <<x>>[1] = x /\ <<x>> \in Seq({x})
    OBVIOUS
  <2>5. {<<x>>[k].text : k \in 1..1} = {t}
    BY <2>3, <2>4 DEF x
  <2>6. TextsAre(<<x>>, {t})
    BY <2>4, <2>5 DEF TextsAre
  <2>7. <<x>> \in Seq(M)
    BY <2>3 DEF x
  <2> QED BY <2>1, <2>2, <2>6, <2>7 DEF d, x
<1>2. CASE ~Says(crit, key)
  <2>1. d = <<>>
    BY <1>2 DEF Described, Says
  <2>2. Said(crit, key, words) = {}
    BY <1>2 DEF Said
  <2>3. Len(<<>>) = 0 /\ DOMAIN <<>> = 1..0 /\ <<>> \in Seq(M) /\ 1..0 = {}
    OBVIOUS
  <2>4. {<<>>[k].text : k \in 1..0} = {}
    BY <2>3
  <2>5. TextsAre(<<>>, {})
    BY <2>3, <2>4 DEF TextsAre
  <2> QED BY <2>1, <2>2, <2>3, <2>5
<1> QED BY <1>1, <1>2

\* It fits with either word before it.
LEMMA SaidFits ==
  ASSUME NEW r, NEW crit, SentIn(r, crit), NEW key, FieldFine(crit, key), NEW word \in {"Yes. ", "No. "}
  PROVE  /\ \A t \in Said(crit, key, <<word>>) : t \in Seq(Characters)
         /\ (\A t \in Said(crit, key, <<word>>) : Fits(t)) <=>
              (HasKey(crit, key) /\ ~Blank(Get(crit, key)) => Fits(<<"Yes. ">> \o TextOf(Get(crit, key))))
<1> DEFINE v == Get(crit, key)
<1>1. CASE ~Says(crit, key)
  BY <1>1 DEF Said, Says
<1>2. CASE Says(crit, key)
  <2>1. SentIn(r, v)
    BY <1>2, FieldSent DEF Says
  <2>2. v.kind # "null"
    BY <1>2 DEF Says, Blank
  <2>3. v.kind = "str" \/ Container(v)
    BY <1>2, <2>2 DEF FieldFine, Typed, Structured, Says
  <2>4. TextOf(v) \in Seq(STRING)
    <3> HIDE DEF v
    <3> QED BY <2>1, <2>3, TextOfIs
  <2> DEFINE t == TextOf(v)
  <2>5. t \in Seq(Characters)
    BY <2>4, MoreTexts
  <2>6. /\ word \in Spoken /\ "Yes. " \in Spoken /\ word # " "
        /\ "Yes. " \in Characters /\ "Yes. " \notin White \union Surrogates
        /\ word \in Characters /\ word \notin White \union Surrogates
    BY DEF Spoken, Characters, White, Surrogates
  <2> DEFINE yes == "Yes. "
  <2>7. Said(crit, key, <<word>>) = {<<word>> \o t}
    BY <1>2 DEF Said
  <2> HIDE DEF t, yes
  <2>8. Fits(<<word>> \o t) => Fits(<<yes>> \o t)
    BY <2>5, <2>6, WordBefore DEF yes
  <2>9. Fits(<<yes>> \o t) => Fits(<<word>> \o t)
    BY <2>5, <2>6, WordBefore DEF yes
  <2>10. <<word>> \o t \in Seq(Characters)
    <3>1. <<word>> \in Seq(Characters)
      BY <2>6, WordIs
    <3> DEFINE w == <<word>>
    <3> HIDE DEF w
    <3>2. w \o t \in Seq(Characters)
      BY <2>5, <3>1, ConcatProperties DEF w
    <3> QED BY <3>2 DEF w
  <2>11. HasKey(crit, key) /\ ~Blank(v)
    BY <1>2 DEF Says
  <2> QED BY <2>7, <2>8, <2>9, <2>10, <2>11 DEF t, yes
<1> QED BY <1>1, <1>2

\* A question of the wire model but for its model validator.
Shaped(tag, q) == q.kind = "dict" /\ HasKey(q, "type") /\ Get(q, "type") = Name(tag) /\ FieldsFine(tag, q)

\* to_native keeps the id and takes the kind of the type.
LEMMA KindIs ==
  ASSUME NEW tag, NEW q, Get(q, "type") = Name(tag), NEW qid
  PROVE  /\ ToNative(qid, q).id = qid
         /\ ToNative(qid, q).kind = IF tag = "noul" THEN "boolean" ELSE tag
<1>1. Get(q, "type").text[1] = tag
  <2>1. Name(tag).text[1] = tag
    BY NameIs
  <2> QED BY <2>1
<1> QED BY <1>1 DEF ToNative

\* The texts of its criteria.
NativeTexts(N) == /\ Len(N.texts) \in Nat /\ DOMAIN N.texts = 1..Len(N.texts)
                  /\ \A k \in 1..Len(N.texts) : N.texts[k].text \in Seq(Characters)

\* The texts of a noul fit exactly if its criteria are good,
LEMMA NoulTexts ==
  ASSUME NEW r, NEW q, SentIn(r, q), Get(q, "type") = Name("noul"), CriteriaFine("noul", q), NEW qid
  PROVE  /\ NativeTexts(ToNative(qid, q))
         /\ FiniteCriteria(q) /\ (\A k \in 1..Len(ToNative(qid, q).texts) : Fits(ToNative(qid, q).texts[k].text))
              <=> GoodNoul(q)
<1> DEFINE crit == Get(q, "criteria")
           ts == ToNative(qid, q).texts
           d1 == Described(q, "true", "true_description", <<"Yes. ">>)
           d2 == Described(q, "false", "false_description", <<"No. ">>)
           s1 == Said(crit, "true", <<"Yes. ">>)
           s2 == Said(crit, "false", <<"No. ">>)
<1>1. Get(q, "type").text[1] = "noul"
  <2>1. Name("noul").text[1] = "noul"
    BY NameIs
  <2> QED BY <2>1
<1>2. ts = d1 \o d2
  BY <1>1 DEF ToNative
<1>3. CASE ~HasKey(q, "criteria")
  <2>1. d1 = <<>> /\ d2 = <<>>
    BY <1>3 DEF Described
  <2>2. ts = <<>> /\ Len(ts) = 0
    <3>1. <<>> \in Seq({}) /\ Len(<<>>) = 0
      OBVIOUS
    <3>2. <<>> \o <<>> = <<>>
      BY <3>1, ConcatEmptySeq
    <3> QED BY <1>2, <2>1, <3>1, <3>2
  <2>3. DOMAIN <<>> = 1..0 /\ 1..0 = {} /\ 0 \in Nat
    OBVIOUS
  <2>4. NativeTexts(ToNative(qid, q))
    BY <2>2, <2>3 DEF NativeTexts
  <2> QED BY <1>3, <2>2, <2>3, <2>4 DEF GoodNoul, FiniteCriteria
<1>4. CASE HasKey(q, "criteria")
  <2>1. SentIn(r, crit)
    BY <1>4, FieldSent
  <2>2. TextsAre(ts, s1 \union s2)
    <3> DEFINE a == Text("true_description", <<"Yes. ">> \o TextOf(Get(crit, "true")))
               b == Text("false_description", <<"No. ">> \o TextOf(Get(crit, "false")))
               X == {a, b}
    <3>1. d1 \in Seq(X) /\ TextsAre(d1, s1)
      BY <1>4, DescribedIs
    <3>2. d2 \in Seq(X) /\ TextsAre(d2, s2)
      BY <1>4, DescribedIs
    <3> HIDE DEF X, d1, d2, s1, s2
    <3>3. TextsAre(d1 \o d2, s1 \union s2)
      BY <3>1, <3>2, ConcatTexts
    <3> QED BY <1>2, <3>3
  <2> HIDE DEF ts, s1, s2
  <2>3. Len(ts) \in Nat /\ DOMAIN ts = 1..Len(ts) /\ {ts[k].text : k \in 1..Len(ts)} = s1 \union s2
    BY <2>2 DEF TextsAre
  <2>4. (\A k \in 1..Len(ts) : Fits(ts[k].text)) <=> (\A t \in s1 : Fits(t)) /\ (\A t \in s2 : Fits(t))
    BY <2>3
  <2>5. CASE crit.kind = "null"
    <3>1. crit.items = <<>> /\ DOMAIN crit.items = 1..Len(crit.items) /\ Len(crit.items) = 0
      <4> HIDE DEF crit
      <4> QED BY <2>1, <2>5, StringIs, ItemsSent DEF SentIn
    <3>2. 1..0 = {}
      OBVIOUS
    <3>3. ~HasKey(crit, "true") /\ ~HasKey(crit, "false")
      <4> HIDE DEF crit
      <4> QED BY <3>1, <3>2 DEF HasKey
    <3>4. s1 = {} /\ s2 = {}
      BY <3>3 DEF s1, s2, Said, Says
    <3>5. FiniteCriteria(q) /\ GoodNoul(q)
      BY <2>5, <3>1, <3>2 DEF FiniteCriteria, GoodNoul
    <3>6. NativeTexts(ToNative(qid, q))
      BY <2>3, <3>4 DEF NativeTexts, ts
    <3> QED BY <2>4, <3>4, <3>5, <3>6 DEF ts
  <2>6. CASE crit.kind # "null"
    <3>1. crit.kind = "dict" /\ NoulFine(crit)
      BY <1>4, <2>6 DEF CriteriaFine
    <3>2. FieldFine(crit, "true") /\ FieldFine(crit, "false") /\ KeysIn(crit, {"true", "false"})
      BY <3>1 DEF NoulFine
    <3> DEFINE d(key) == Get(crit, key)
               fits(key) == HasKey(crit, key) /\ ~Blank(d(key)) => Fits(<<"Yes. ">> \o TextOf(d(key)))
               good(key) == HasKey(crit, key) => GoodDescription(d(key), <<"Yes. ">>)
               finite(key) == HasKey(crit, key) => ~HasNonFinite(d(key))
    <3>3. /\ \A t \in s1 \union s2 : t \in Seq(Characters)
          /\ (\A t \in s1 : Fits(t)) <=> fits("true")
          /\ (\A t \in s2 : Fits(t)) <=> fits("false")
      <4>1. (\A t \in s1 : t \in Seq(Characters)) /\ ((\A t \in s1 : Fits(t)) <=> fits("true"))
        <5> HIDE DEF crit
        <5> QED BY <2>1, <3>2, SaidFits DEF s1
      <4>2. (\A t \in s2 : t \in Seq(Characters)) /\ ((\A t \in s2 : Fits(t)) <=> fits("false"))
        <5> HIDE DEF crit
        <5> QED BY <2>1, <3>2, SaidFits DEF s2
      <4> QED BY <4>1, <4>2
    <3>4. ASSUME NEW key \in {"true", "false"} PROVE fits(key) /\ finite(key) <=> good(key)
      <4>1. CASE HasKey(crit, key)
        <5>1. SentIn(r, d(key)) /\ Typed(d(key), TRUE)
          BY <2>1, <3>2, <4>1, FieldSent DEF FieldFine
        <5> DEFINE before == <<"Yes. ">>
                   v == d(key)
        <5> HIDE DEF before, v
        <5>2. DescriptionPasses(v, before) <=> GoodDescription(v, before)
          BY <5>1, DescriptionsAgree DEF v
        <5>3. DescriptionPasses(v, before) <=> ~HasNonFinite(v) /\ (~Blank(v) => Fits(before \o TextOf(v)))
          BY <5>1 DEF DescriptionPasses, v
        <5> QED BY <4>1, <5>2, <5>3 DEF before, v
      <4>2. CASE ~HasKey(crit, key)
        BY <4>2
      <4> QED BY <4>1, <4>2
    <3>5. ASSUME NEW k \in 1..Len(crit.items)
          PROVE  \E key \in {"true", "false"} : /\ HasKey(crit, key)
                                                /\ crit.items[k].key = <<key>> /\ crit.items[k].value = d(key)
      <4>1. Keys(crit) \subseteq {<<n>> : n \in {"true", "false"}}
        BY <3>2 DEF KeysIn
      <4>2. DOMAIN crit.items = 1..Len(crit.items)
        <5> HIDE DEF crit
        <5> QED BY <2>1, ItemsSent
      <4> HIDE DEF crit
      <4>3. crit.items[k].key \in Keys(crit)
        BY <4>2 DEF Keys, ToSet
      <4>4. PICK key \in {"true", "false"} : crit.items[k].key = <<key>>
        BY <4>1, <4>3
      <4>5. HasKey(crit, key)
        BY <4>2, <4>4 DEF HasKey
      <4>6. crit.items[k].value = Get(crit, key)
        BY <2>1, <3>1, <4>4, FieldIs DEF SentIn
      <4> QED BY <4>4, <4>5, <4>6
    <3>6. ASSUME NEW key \in {"true", "false"}, HasKey(crit, key)
          PROVE  \E k \in 1..Len(crit.items) : crit.items[k].value = d(key)
      <4> HIDE DEF crit
      <4> QED BY <2>1, <3>6, FieldIs DEF SentIn
    <3>7. FiniteCriteria(q) <=> finite("true") /\ finite("false")
      <4>1. FiniteCriteria(q) <=> \A k \in 1..Len(crit.items) : ~HasNonFinite(crit.items[k].value)
        BY <1>4 DEF FiniteCriteria
      <4> HIDE DEF crit
      <4> QED BY <3>5, <3>6, <4>1
    <3>8. GoodNoul(q) <=> good("true") /\ good("false")
      <4>1. DOMAIN crit.items = 1..Len(crit.items)
        <5> HIDE DEF crit
        <5> QED BY <2>1, ItemsSent
      <4>2. GoodNoul(q) <=> \A k \in 1..Len(crit.items) : GoodDescription(crit.items[k].value, <<"Yes. ">>)
        <5>1. GoodNoul(q) <=> \A m \in ToSet(crit.items) : GoodDescription(m.value, <<"Yes. ">>)
          BY <1>4, <2>6, <3>2 DEF GoodNoul
        <5> HIDE DEF crit
        <5> QED BY <4>1, <5>1 DEF ToSet
      <4> DEFINE yes == <<"Yes. ">>
      <4> HIDE DEF crit, yes
      <4> QED BY <3>5, <3>6, <4>2 DEF yes
    <3>9. NativeTexts(ToNative(qid, q))
      <4>1. \A k \in 1..Len(ts) : ts[k].text \in Seq(Characters)
        BY <2>3, <3>3
      <4> QED BY <2>3, <4>1 DEF NativeTexts, ts
    <3> HIDE DEF fits, good, finite
    <3>10. FiniteCriteria(q) /\ (\A k \in 1..Len(ts) : Fits(ts[k].text)) <=> GoodNoul(q)
      BY <2>4, <3>3, <3>4, <3>7, <3>8
    <3> QED BY <3>9, <3>10 DEF ts
  <2> QED BY <2>5, <2>6
<1> QED BY <1>3, <1>4

\* The text of an option.
OptionText(m) == IF Blank(m.value) THEN m.key ELSE m.key \o <<":", " ">> \o TextOf(m.value)

\* An option's text: its name, and what describes it.
LEMMA OptionTextIs ==
  ASSUME NEW r, NEW v, SentIn(r, v), NEW k \in 1..Len(v.items), Typed(v.items[k].value, TRUE)
  PROVE  OptionText(v.items[k]) \in Seq(Characters)
<1> DEFINE m == v.items[k]
           t == TextOf(m.value)
<1>1. m.key \in Seq(STRING) /\ SentIn(r, m.value)
  BY ItemsSent
<1>2. m.key \in Seq(Characters)
  BY <1>1, MoreTexts
<1>3. CASE Blank(m.value)
  BY <1>2, <1>3 DEF OptionText
<1>4. CASE ~Blank(m.value)
  <2>1. m.value.kind = "str" \/ Container(m.value)
    BY <1>4 DEF Typed, Structured, Blank
  <2>2. t \in Seq(STRING)
    <3> HIDE DEF m
    <3> QED BY <1>1, <2>1, TextOfIs
  <2>3. t \in Seq(Characters)
    BY <2>2, MoreTexts
  <2> DEFINE colon == <<":", " ">>
             key == m.key
  <2>4. colon \in Seq(Characters)
    <3>1. ":" \in Characters /\ " " \in Characters
      BY DEF Characters, Spoken
    <3> DEFINE a == ":"
               b == " "
    <3> HIDE DEF a, b
    <3>2. a \in Characters /\ b \in Characters
      BY <3>1 DEF a, b
    <3>3. <<a, b>> \in Seq(Characters)
      BY <3>2
    <3> QED BY <3>3 DEF a, b
  <2>5. OptionText(m) = (key \o colon) \o t
    BY <1>4 DEF OptionText
  <2> HIDE DEF m, t, colon, key
  <2>6. key \in Seq(Characters)
    BY <1>2 DEF key
  <2>7. key \o colon \in Seq(Characters)
    BY <2>4, <2>6, ConcatProperties
  <2>8. (key \o colon) \o t \in Seq(Characters)
    BY <2>3, <2>7, ConcatProperties
  <2> QED BY <2>5, <2>8 DEF m
<1> QED BY <1>3, <1>4

\* The texts to_native makes of every item.
MadeOf(N, v, f, field) == N.texts = [k \in DOMAIN v.items |-> Text(field, f[k])]

\* A text is made of each item.
LEMMA ItemTexts ==
  ASSUME NEW r, NEW v, SentIn(r, v), NEW f \in [1..Len(v.items) -> Seq(Characters)], NEW field, NEW N,
         MadeOf(N, v, f, field)
  PROVE  /\ NativeTexts(N) /\ Len(N.texts) = Len(v.items)
         /\ \A k \in 1..Len(v.items) : N.texts[k].text = f[k] /\ N.texts[k].field = field
<1> DEFINE n == Len(v.items)
           M == {Text(field, f[k]) : k \in 1..n}
           g == [k \in 1..n |-> Text(field, f[k])]
<1>1. n \in Nat /\ DOMAIN v.items = 1..n
  BY ItemsSent
<1>2. N.texts = g /\ g \in [1..n -> M]
  BY <1>1 DEF MadeOf
<1>3. \A k \in 1..n : g[k].text = f[k] /\ g[k].field = field
  BY DEF Text
<1> HIDE DEF g, M, n
<1>4. Len(g) = n /\ DOMAIN g = 1..n
  BY <1>1, <1>2, MadeSeq
<1>5. \A k \in 1..n : f[k] \in Seq(Characters)
  BY DEF n
<1>6. NativeTexts(N)
  BY <1>1, <1>2, <1>3, <1>4, <1>5 DEF NativeTexts
<1> QED BY <1>2, <1>3, <1>4, <1>6 DEF n

\* those of a choice, and its options' names,
LEMMA ChoiceTexts ==
  ASSUME NEW r, NEW q, SentIn(r, q), Get(q, "type") = Name("choice"), CriteriaFine("choice", q), NEW qid
  PROVE  /\ NativeTexts(ToNative(qid, q))
         /\ Len(ToNative(qid, q).texts) = Len(Get(q, "criteria").items)
         /\ FiniteCriteria(q) /\ ~Problem("choice", Get(q, "criteria"))
              /\ (\A k \in 1..Len(ToNative(qid, q).texts) : Fits(ToNative(qid, q).texts[k].text))
              <=> GoodChoice(Get(q, "criteria"))
<1> DEFINE crit == Get(q, "criteria")
           N == ToNative(qid, q)
           n == Len(crit.items)
           f == [k \in 1..n |-> OptionText(crit.items[k])]
<1>1. Get(q, "type").text[1] = "choice"
  <2>1. Name("choice").text[1] = "choice"
    BY NameIs
  <2> QED BY <2>1
<1>2. HasKey(q, "criteria") /\ crit.kind = "dict" /\ ItemsFine(crit, TRUE) /\ SentIn(r, crit)
  BY FieldSent DEF CriteriaFine
<1>3. n \in Nat /\ DOMAIN crit.items = 1..n
  <2> HIDE DEF crit
  <2> QED BY <1>2, ItemsSent
<1>4. N.texts = [k \in DOMAIN crit.items |-> Text("options", OptionText(crit.items[k]))]
  BY <1>1 DEF ToNative, OptionText
<1>5. f \in [1..n -> Seq(Characters)]
  <2>1. \A k \in 1..n : OptionText(crit.items[k]) \in Seq(Characters)
    <3> HIDE DEF crit
    <3> QED BY <1>2, OptionTextIs DEF ItemsFine
  <2> QED BY <2>1
<1>6. N.texts = [k \in DOMAIN crit.items |-> Text("options", f[k])]
  BY <1>3, <1>4
<1> HIDE DEF N, crit, f
<1>7. NativeTexts(N) /\ Len(N.texts) = n /\ \A k \in 1..n : N.texts[k].text = f[k]
  <2> DEFINE field == "options"
  <2> HIDE DEF field
  <2>1. MadeOf(N, crit, f, field)
    BY <1>6 DEF field, MadeOf
  <2>2. NativeTexts(N) /\ Len(N.texts) = Len(crit.items) /\ \A k \in 1..Len(crit.items) : N.texts[k].text = f[k]
    BY <1>2, <1>5, <2>1, ItemTexts
  <2> QED BY <2>2
<1>8. \A k \in 1..n : f[k] = OptionText(crit.items[k])
  BY DEF f
<1>9. \A k \in 1..n : SentIn(r, crit.items[k].value) /\ Typed(crit.items[k].value, TRUE)
  BY <1>2, ItemsSent DEF ItemsFine
<1>10. ASSUME NEW k \in 1..n
       PROVE  ~HasNonFinite(crit.items[k].value) /\ Fits(OptionText(crit.items[k])) <=>
                /\ GoodDescription(crit.items[k].value, crit.items[k].key \o <<":", " ">>)
                /\ Blank(crit.items[k].value) => Fits(crit.items[k].key)
  <2> DEFINE v == crit.items[k].value
             key == crit.items[k].key
             before == key \o <<":", " ">>
             option == OptionText(crit.items[k])
  <2>1. option = IF Blank(v) THEN key ELSE before \o TextOf(v)
    BY DEF OptionText
  <2>2. SentIn(r, v) /\ Typed(v, TRUE)
    BY <1>9
  <2> HIDE DEF v, key, before, option
  <2>3. DescriptionPasses(v, before) <=> GoodDescription(v, before)
    BY <2>2, DescriptionsAgree
  <2>4. DescriptionPasses(v, before) <=> ~HasNonFinite(v) /\ (~Blank(v) => Fits(before \o TextOf(v)))
    BY <2>2 DEF DescriptionPasses
  <2>5. ~HasNonFinite(v) /\ Fits(option) <=> GoodDescription(v, before) /\ (Blank(v) => Fits(key))
    BY <2>1, <2>3, <2>4
  <2> QED BY <2>5 DEF v, key, before, option
<1>11. FiniteCriteria(q) <=> \A k \in 1..n : ~HasNonFinite(crit.items[k].value)
  BY <1>2 DEF FiniteCriteria, crit
<1>12. ~Problem("choice", crit) <=> n \in 2..MAX_CHOICE_OPTIONS /\ \A k \in 1..n : Strip(crit.items[k].key) # <<>>
  <2>1. Problem("choice", crit) <=> (\E k \in 1..n : Strip(crit.items[k].key) = <<>>) \/ n < 2 \/ n > MAX_CHOICE_OPTIONS
    BY <1>3 DEF Problem
  <2>2. n \in 2..MAX_CHOICE_OPTIONS <=> ~(n < 2) /\ ~(n > MAX_CHOICE_OPTIONS)
    <3>1. MAX_CHOICE_OPTIONS \in Nat
      BY WireAssumption
    <3> HIDE DEF n
    <3> QED BY <1>3, <3>1
  <2> QED BY <2>1, <2>2
<1>13. GoodChoice(crit) <=>
         /\ n \in 2..MAX_CHOICE_OPTIONS
         /\ \A k \in 1..n : /\ Strip(crit.items[k].key) # <<>>
                            /\ GoodDescription(crit.items[k].value, crit.items[k].key \o <<":", " ">>)
                            /\ Blank(crit.items[k].value) => Fits(crit.items[k].key)
  <2>1. ToSet(crit.items) = {crit.items[k] : k \in 1..n}
    BY <1>3 DEF ToSet
  <2>2. GoodChoice(crit) <=>
          /\ n \in 2..MAX_CHOICE_OPTIONS
          /\ \A m \in ToSet(crit.items) :
               /\ Strip(m.key) # <<>>
               /\ GoodDescription(m.value, m.key \o <<":", " ">>)
               /\ Blank(m.value) => Fits(m.key)
    BY <1>2 DEF GoodChoice
  <2> HIDE DEF n
  <2> QED BY <2>1, <2>2
<1>14. (\A k \in 1..Len(N.texts) : Fits(N.texts[k].text)) <=> \A k \in 1..n : Fits(OptionText(crit.items[k]))
  BY <1>7, <1>8
<1> HIDE DEF n
<1>15. FiniteCriteria(q) /\ ~Problem("choice", crit) /\ (\A k \in 1..Len(N.texts) : Fits(N.texts[k].text))
         <=> GoodChoice(crit)
  BY <1>10, <1>11, <1>12, <1>13, <1>14
<1> QED BY <1>7, <1>15 DEF N, crit, n

\* The levels of a score, which differ.
LEMMA ScoreTexts ==
  ASSUME NEW r, NEW q, SentIn(r, q), Get(q, "type") = Name("score"), CriteriaFine("score", q), NEW qid
  PROVE  /\ NativeTexts(ToNative(qid, q))
         /\ Len(ToNative(qid, q).texts) = Len(Get(q, "criteria").items)
         /\ FiniteCriteria(q) /\ ~Problem("score", Get(q, "criteria")) /\ ~Repeated(ToNative(qid, q))
              /\ (\A k \in 1..Len(ToNative(qid, q).texts) : Fits(ToNative(qid, q).texts[k].text))
              <=> GoodScore(Get(q, "criteria"))
<1> DEFINE crit == Get(q, "criteria")
           N == ToNative(qid, q)
           n == Len(crit.items)
           t(k) == TextOf(crit.items[k].value)
           f == [k \in 1..n |-> t(k)]
<1>1. Get(q, "type").text[1] = "score"
  <2>1. Name("score").text[1] = "score"
    BY NameIs
  <2> QED BY <2>1
<1>2. HasKey(q, "criteria") /\ crit.kind = "list" /\ ItemsFine(crit, FALSE) /\ SentIn(r, crit)
  BY FieldSent DEF CriteriaFine
<1>3. n \in Nat /\ DOMAIN crit.items = 1..n
  <2> HIDE DEF crit
  <2> QED BY <1>2, ItemsSent
<1>4. N.texts = [k \in DOMAIN crit.items |-> Text("levels", t(k))]
  BY <1>1 DEF ToNative
<1>5. \A k \in 1..n : SentIn(r, crit.items[k].value) /\ Structured(crit.items[k].value)
  <2> HIDE DEF crit
  <2> QED BY <1>2, ItemsSent DEF ItemsFine, Typed
<1>6. \A k \in 1..n : t(k) \in Seq(STRING) /\ Strip(t(k)) = t(k)
  <2> SUFFICES ASSUME NEW k \in 1..n PROVE t(k) \in Seq(STRING) /\ Strip(t(k)) = t(k)
    OBVIOUS
  <2> DEFINE v == crit.items[k].value
  <2>1. SentIn(r, v) /\ (v.kind = "str" \/ Container(v))
    BY <1>5 DEF Structured
  <2> HIDE DEF v
  <2>2. TextOf(v) \in Seq(STRING) /\ Strip(TextOf(v)) = TextOf(v)
    BY <2>1, TextOfIs
  <2> QED BY <2>2 DEF v
<1>7. f \in [1..n -> Seq(Characters)]
  <2>1. \A k \in 1..n : t(k) \in Seq(Characters)
    BY <1>6, MoreTexts
  <2> QED BY <2>1
<1>8. N.texts = [k \in DOMAIN crit.items |-> Text("levels", f[k])]
  BY <1>3, <1>4
<1>9. \A k \in 1..n : f[k] = t(k)
  OBVIOUS
<1> HIDE DEF N, crit, f
<1>10. NativeTexts(N) /\ Len(N.texts) = n /\ \A k \in 1..n : N.texts[k].text = f[k]
  <2> DEFINE field == "levels"
  <2> HIDE DEF field
  <2>1. MadeOf(N, crit, f, field)
    BY <1>8 DEF field, MadeOf
  <2>2. NativeTexts(N) /\ Len(N.texts) = Len(crit.items) /\ \A k \in 1..Len(crit.items) : N.texts[k].text = f[k]
    BY <1>2, <1>7, <2>1, ItemTexts
  <2> QED BY <2>2
<1>11. \A k \in 1..n : N.texts[k].text = t(k)
  BY <1>9, <1>10
<1>12. Repeated(N) <=> \E j, k \in 1..n : j # k /\ t(j) = t(k)
  <2>1. Repeated(N) <=> \E j, k \in 1..n : j # k /\ Strip(N.texts[j].text) = Strip(N.texts[k].text)
    BY <1>10 DEF Repeated
  <2> HIDE DEF t, n
  <2> QED BY <1>6, <1>11, <2>1
<1>13. FiniteCriteria(q) <=> \A k \in 1..n : ~HasNonFinite(crit.items[k].value)
  BY <1>2 DEF FiniteCriteria, crit
<1>14. ~Problem("score", crit) <=> n \in MIN_SCORE_LEVELS..MAX_SCORE_LEVELS
  <2>1. Problem("score", crit) <=> n < MIN_SCORE_LEVELS \/ n > MAX_SCORE_LEVELS
    BY DEF Problem
  <2>2. MIN_SCORE_LEVELS \in Int /\ MAX_SCORE_LEVELS \in Int
    BY WireAssumption
  <2> HIDE DEF n
  <2> QED BY <1>3, <2>1, <2>2
<1>15. GoodScore(crit) <=>
         /\ n \in MIN_SCORE_LEVELS..MAX_SCORE_LEVELS
         /\ \A j, k \in 1..n : /\ ~HasNonFinite(crit.items[k].value) /\ Fits(t(k))
                               /\ j # k => t(j) # t(k)
  <2>1. GoodScore(crit) <=>
         /\ n \in MIN_SCORE_LEVELS..MAX_SCORE_LEVELS
         /\ \A j, k \in 1..n : /\ Readable(crit.items[k].value) /\ Fits(t(k))
                               /\ j # k => t(j) # t(k)
    BY <1>2, <1>3 DEF GoodScore
  <2>2. \A k \in 1..n : Readable(crit.items[k].value) <=> ~HasNonFinite(crit.items[k].value)
    BY <1>5 DEF Readable
  <2> HIDE DEF t, n
  <2> QED BY <2>1, <2>2
<1>16. (\A k \in 1..Len(N.texts) : Fits(N.texts[k].text)) <=> \A k \in 1..n : Fits(t(k))
  BY <1>10, <1>11
<1> HIDE DEF n, t
<1>17. FiniteCriteria(q) /\ ~Problem("score", crit) /\ ~Repeated(N) /\ (\A k \in 1..Len(N.texts) : Fits(N.texts[k].text))
         <=> GoodScore(crit)
  BY <1>12, <1>13, <1>14, <1>15, <1>16
<1> QED BY <1>10, <1>17 DEF N, crit, n

-----------------------------------------------------------------------------
(* A question passes if it is good *)

\* The schema's criteria, by type.
GoodCriteria(tag, q) ==
  /\ tag = "noul" => GoodNoul(q)
  /\ tag = "choice" => HasKey(q, "criteria") /\ GoodChoice(Get(q, "criteria"))
  /\ tag = "score" => HasKey(q, "criteria") /\ GoodScore(Get(q, "criteria"))

\* GoodQuestion, by the type it has.
LEMMA GoodQuestionIs ==
  ASSUME NEW q
  PROVE  GoodQuestion(q) <=>
           /\ KeysIn(q, QuestionFields) /\ HasKey(q, "type")
           /\ HasKey(q, "instructions") => GoodInstructions(Get(q, "instructions"))
           /\ \E tag \in Tags : Get(q, "type") = Name(tag) /\ GoodCriteria(tag, q)
<1> DEFINE type == Get(q, "type")
           fine == /\ KeysIn(q, QuestionFields) /\ HasKey(q, "type")
                   /\ HasKey(q, "instructions") => GoodInstructions(Get(q, "instructions"))
           rest == CASE type = Name("noul") -> GoodNoul(q)
                     [] type = Name("choice") -> HasKey(q, "criteria") /\ GoodChoice(Get(q, "criteria"))
                     [] type = Name("score") -> HasKey(q, "criteria") /\ GoodScore(Get(q, "criteria"))
                     [] OTHER -> FALSE
           some == \E tag \in Tags : type = Name(tag) /\ GoodCriteria(tag, q)
<1>1. GoodQuestion(q) <=> fine /\ rest
  BY DEF GoodQuestion, GoodNoul, QuestionFields
<1>2. /\ Name("noul") # Name("choice") /\ Name("noul") # Name("score") /\ Name("choice") # Name("score")
  BY NameIs
<1>3. Tags = {"noul", "choice", "score"}
  BY DEF Tags
<1>4. CASE type = Name("noul")
  <2>1. rest <=> GoodNoul(q)
    BY <1>2, <1>4
  <2>2. some <=> GoodNoul(q)
    BY <1>2, <1>3, <1>4 DEF GoodCriteria
  <2> QED BY <1>1, <2>1, <2>2
<1>5. CASE type = Name("choice")
  <2>1. rest <=> HasKey(q, "criteria") /\ GoodChoice(Get(q, "criteria"))
    BY <1>2, <1>5
  <2>2. some <=> HasKey(q, "criteria") /\ GoodChoice(Get(q, "criteria"))
    BY <1>2, <1>3, <1>5 DEF GoodCriteria
  <2> QED BY <1>1, <2>1, <2>2
<1>6. CASE type = Name("score")
  <2>1. rest <=> HasKey(q, "criteria") /\ GoodScore(Get(q, "criteria"))
    BY <1>2, <1>6
  <2>2. some <=> HasKey(q, "criteria") /\ GoodScore(Get(q, "criteria"))
    BY <1>2, <1>3, <1>6 DEF GoodCriteria
  <2> QED BY <1>1, <2>1, <2>2
<1>7. CASE type # Name("noul") /\ type # Name("choice") /\ type # Name("score")
  <2>1. ~rest
    BY <1>7
  <2>2. ~some
    BY <1>3, <1>7
  <2> QED BY <1>1, <2>1, <2>2
<1> QED BY <1>4, <1>5, <1>6, <1>7

\* Good criteria pass check_wire.
LEMMA GoodIsFine ==
  ASSUME NEW r, NEW q, SentIn(r, q), NEW tag \in Tags, GoodCriteria(tag, q)
  PROVE  CriteriaFine(tag, q)
<1> DEFINE crit == Get(q, "criteria")
<1>1. \A v, before : GoodDescription(v, before) => Typed(v, TRUE)
  BY DEF GoodDescription, Typed, Readable
<1>2. ASSUME HasKey(q, "criteria")
      PROVE  /\ DOMAIN crit.items = 1..Len(crit.items) /\ SentIn(r, crit)
             /\ \A k \in 1..Len(crit.items) : crit.items[k] \in ToSet(crit.items)
             /\ \A key : HasKey(crit, key) => \E m \in ToSet(crit.items) : m.value = Get(crit, key)
  <2>1. SentIn(r, crit)
    BY <1>2, FieldSent
  <2> HIDE DEF crit
  <2>2. DOMAIN crit.items = 1..Len(crit.items)
    BY <2>1, ItemsSent
  <2>3. \A k \in 1..Len(crit.items) : crit.items[k] \in ToSet(crit.items)
    BY <2>2 DEF ToSet
  <2>4. ASSUME NEW key, HasKey(crit, key) PROVE \E m \in ToSet(crit.items) : m.value = Get(crit, key)
    <3>1. PICK k \in 1..Len(crit.items) : crit.items[k].value = Get(crit, key)
      BY <2>1, <2>4, FieldIs DEF SentIn
    <3> QED BY <2>3, <3>1
  <2> QED BY <2>1, <2>2, <2>3, <2>4
<1>3. CASE tag = "noul"
  <2>1. GoodNoul(q)
    BY <1>3 DEF GoodCriteria
  <2>2. ASSUME HasKey(q, "criteria"), crit.kind # "null" PROVE crit.kind = "dict" /\ NoulFine(crit)
    <3>1. KeysIn(crit, {"true", "false"}) /\ \A m \in ToSet(crit.items) : GoodDescription(m.value, <<"Yes. ">>)
      BY <2>1, <2>2 DEF GoodNoul
    <3>2. crit.kind = "dict"
      BY <3>1 DEF KeysIn
    <3> HIDE DEF crit
    <3>3. \A key : HasKey(crit, key) => Typed(Get(crit, key), TRUE)
      BY <1>1, <1>2, <2>2, <3>1
    <3> QED BY <3>1, <3>2, <3>3 DEF NoulFine, FieldFine
  <2> QED BY <1>3, <2>2 DEF CriteriaFine
<1>4. CASE tag = "choice"
  <2>1. HasKey(q, "criteria") /\ crit.kind = "dict"
    BY <1>4 DEF GoodCriteria, GoodChoice
  <2>2. \A m \in ToSet(crit.items) : Typed(m.value, TRUE)
    <3>1. \A m \in ToSet(crit.items) : GoodDescription(m.value, m.key \o <<":", " ">>)
      BY <1>4 DEF GoodCriteria, GoodChoice
    <3> QED BY <1>1, <3>1
  <2>3. ItemsFine(crit, TRUE)
    BY <1>2, <2>1, <2>2 DEF ItemsFine
  <2> QED BY <1>4, <2>1, <2>3 DEF CriteriaFine
<1>5. CASE tag = "score"
  <2>1. HasKey(q, "criteria") /\ crit.kind = "list"
    BY <1>5 DEF GoodCriteria, GoodScore
  <2>2. \A k \in DOMAIN crit.items : Structured(crit.items[k].value)
    BY <1>5 DEF GoodCriteria, GoodScore, Readable
  <2>3. ItemsFine(crit, FALSE)
    BY <1>2, <2>1, <2>2 DEF ItemsFine, Typed
  <2> QED BY <1>5, <2>1, <2>3 DEF CriteriaFine
<1> QED BY <1>3, <1>4, <1>5 DEF Tags

\* What the checks let through of a question.
QuestionPasses(qid, q) == QuestionFine(q) /\ ~NanIn(q) /\ CheckTexts(ToNative(qid, q)) = <<>>

\* Of a question check_wire lets through, to_native and check_native find nothing
\* exactly if it is good.
LEMMA ShapedAgrees ==
  ASSUME NEW r, NEW q, SentIn(r, q), NEW tag \in Tags, Shaped(tag, q), NEW qid
  PROVE  /\ Native(ToNative(qid, q))
         /\ tag # "noul" => Len(ToNative(qid, q).texts) = Len(Get(q, "criteria").items)
         /\ QuestionPasses(qid, q) <=> GoodQuestion(q)
<1> DEFINE N == ToNative(qid, q)
           crit == Get(q, "criteria")
           instr == HasKey(q, "instructions") => GoodInstructions(Get(q, "instructions"))
           fits == \A k \in 1..Len(N.texts) : Fits(N.texts[k].text)
<1>1. /\ q.kind = "dict" /\ HasKey(q, "type") /\ Get(q, "type") = Name(tag)
      /\ FieldFine(q, "instructions") /\ CriteriaFine(tag, q) /\ KeysIn(q, QuestionFields)
  BY DEF Shaped, FieldsFine
<1>2. \A s \in Tags : Get(q, "type") = Name(s) => s = tag
  BY <1>1, NameIs
<1>3. N.instructions \in Seq(Characters) /\ (FiniteInstructions(q) /\ Fits(N.instructions) <=> instr)
  BY <1>1, InstructionsAre, InstructionsPassed
<1>4. N.kind = IF tag = "noul" THEN "boolean" ELSE tag
  BY <1>1, KindIs
<1>5. ~NanIn(q) <=> FiniteInstructions(q) /\ FiniteCriteria(q)
  BY <1>1, NanIs
<1>6. QuestionFine(q) <=> tag = "noul" \/ ~Problem(tag, crit)
  <2>1. QuestionFine(q) <=> \E s \in Tags : /\ Get(q, "type") = Name(s) /\ FieldsFine(s, q)
                                            /\ s = "noul" \/ ~Problem(s, crit)
    BY <1>1 DEF QuestionFine
  <2>2. Get(q, "type") = Name(tag) /\ FieldsFine(tag, q)
    BY DEF Shaped
  <2>3. (tag = "noul" \/ ~Problem(tag, crit)) => QuestionFine(q)
    BY <2>1, <2>2
  <2>4. QuestionFine(q) => (tag = "noul" \/ ~Problem(tag, crit))
    <3> SUFFICES ASSUME QuestionFine(q) PROVE tag = "noul" \/ ~Problem(tag, crit)
      OBVIOUS
    <3>1. PICK s \in Tags : Get(q, "type") = Name(s) /\ (s = "noul" \/ ~Problem(s, crit))
      BY <2>1
    <3>2. s = tag
      BY <1>2, <3>1
    <3> QED BY <3>1, <3>2
  <2> QED BY <2>3, <2>4
<1>7. GoodQuestion(q) <=> instr /\ GoodCriteria(tag, q)
  <2>1. GoodQuestion(q) <=> instr /\ \E s \in Tags : Get(q, "type") = Name(s) /\ GoodCriteria(s, q)
    BY <1>1, GoodQuestionIs
  <2>2. (\E s \in Tags : Get(q, "type") = Name(s) /\ GoodCriteria(s, q)) <=> GoodCriteria(tag, q)
    <3>1. GoodCriteria(tag, q) => \E s \in Tags : Get(q, "type") = Name(s) /\ GoodCriteria(s, q)
      BY <1>1
    <3>2. ASSUME NEW s \in Tags, Get(q, "type") = Name(s), GoodCriteria(s, q) PROVE GoodCriteria(tag, q)
      <4>1. s = tag
        BY <1>2, <3>2
      <4> QED BY <3>2, <4>1
    <3> QED BY <3>1, <3>2
  <2> HIDE DEF instr
  <2> QED BY <2>1, <2>2
<1>8. NativeTexts(N) /\ (tag # "noul" => Len(N.texts) = Len(crit.items))
      /\ (FiniteCriteria(q) /\ (tag = "noul" \/ ~Problem(tag, crit)) /\ fits /\ ~(tag = "score" /\ Repeated(N))
            <=> GoodCriteria(tag, q))
  <2>1. CASE tag = "noul"
    <3>1. NativeTexts(N) /\ (FiniteCriteria(q) /\ fits <=> GoodNoul(q))
      BY <1>1, <2>1, NoulTexts
    <3>2. GoodCriteria(tag, q) <=> GoodNoul(q)
      BY <2>1 DEF GoodCriteria
    <3> QED BY <2>1, <3>1, <3>2
  <2>2. CASE tag = "choice"
    <3>1. NativeTexts(N) /\ Len(N.texts) = Len(crit.items)
          /\ (FiniteCriteria(q) /\ ~Problem("choice", crit) /\ fits <=> GoodChoice(crit))
      BY <1>1, <2>2, ChoiceTexts
    <3>2. GoodCriteria(tag, q) <=> GoodChoice(crit)
      BY <1>1, <2>2 DEF GoodCriteria, CriteriaFine
    <3> QED BY <2>2, <3>1, <3>2
  <2>3. CASE tag = "score"
    <3>1. NativeTexts(N) /\ Len(N.texts) = Len(crit.items)
          /\ (FiniteCriteria(q) /\ ~Problem("score", crit) /\ ~Repeated(N) /\ fits <=> GoodScore(crit))
      BY <1>1, <2>3, ScoreTexts
    <3>2. GoodCriteria(tag, q) <=> GoodScore(crit)
      BY <1>1, <2>3 DEF GoodCriteria, CriteriaFine
    <3> QED BY <2>3, <3>1, <3>2
  <2> QED BY <2>1, <2>2, <2>3 DEF Tags
<1>9. Native(N)
  BY <1>3, <1>8 DEF Native, NativeTexts
<1>10. CheckTexts(N) = <<>> <=> Fits(N.instructions) /\ fits /\ ~(tag = "score" /\ Repeated(N))
  <2>1. CheckTexts(N) = <<>> <=> TextsFit(N) /\ ~(N.kind = "score" /\ Repeated(N))
    BY <1>9, CheckTextsIs
  <2>2. N.kind = "score" <=> tag = "score"
    BY <1>4
  <2> QED BY <2>1, <2>2 DEF TextsFit
<1> HIDE DEF fits, instr, N
<1>11. QuestionPasses(qid, q) <=> GoodQuestion(q)
  <2>1. QuestionPasses(qid, q) <=> QuestionFine(q) /\ ~NanIn(q) /\ CheckTexts(N) = <<>>
    BY DEF QuestionPasses, N
  <2> QED BY <1>3, <1>5, <1>6, <1>7, <1>8, <1>10, <2>1
<1> QED BY <1>8, <1>9, <1>11 DEF N

\* A question passes all the checks exactly if it is good.
LEMMA QuestionAgrees ==
  ASSUME NEW r, NEW q, SentIn(r, q), NEW qid
  PROVE  QuestionPasses(qid, q) <=> GoodQuestion(q)
<1>1. ASSUME GoodQuestion(q) PROVE \E tag \in Tags : Shaped(tag, q)
  <2>1. /\ KeysIn(q, QuestionFields) /\ HasKey(q, "type")
        /\ HasKey(q, "instructions") => GoodInstructions(Get(q, "instructions"))
    BY <1>1, GoodQuestionIs
  <2>2. PICK tag \in Tags : Get(q, "type") = Name(tag) /\ GoodCriteria(tag, q)
    BY <1>1, GoodQuestionIs
  <2>3. CriteriaFine(tag, q)
    BY <2>2, GoodIsFine
  <2>4. FieldFine(q, "instructions")
    BY <2>1, InstructionsPassed
  <2> QED BY <2>1, <2>2, <2>3, <2>4 DEF Shaped, FieldsFine, KeysIn
<1>2. ASSUME QuestionPasses(qid, q) PROVE \E tag \in Tags : Shaped(tag, q)
  BY <1>2 DEF QuestionPasses, QuestionFine, Shaped
<1>3. ASSUME NEW tag \in Tags, Shaped(tag, q) PROVE QuestionPasses(qid, q) <=> GoodQuestion(q)
  BY <1>3, ShapedAgrees
<1> QED BY <1>1, <1>2, <1>3

\* What a good question is asked by.
Asks(N) == /\ Native(N) /\ TextsFit(N)
           /\ N.kind \in {"boolean", "choice", "score"}
           /\ N.kind # "boolean" => Len(N.texts) >= 2

\* A good question is one that asks.
LEMMA GoodAsks ==
  ASSUME NEW r, NEW q, SentIn(r, q), GoodQuestion(q), NEW qid
  PROVE  Asks(ToNative(qid, q))
<1> DEFINE N == ToNative(qid, q)
<1>1. QuestionPasses(qid, q)
  BY QuestionAgrees
<1>2. PICK tag \in Tags : Shaped(tag, q)
  BY <1>1 DEF QuestionPasses, QuestionFine, Shaped
<1>3. Native(N) /\ (tag # "noul" => Len(N.texts) = Len(Get(q, "criteria").items))
  BY <1>2, ShapedAgrees
<1>4. Get(q, "type") = Name(tag)
  BY <1>2 DEF Shaped
<1>5. N.kind = IF tag = "noul" THEN "boolean" ELSE tag
  BY <1>4, KindIs
<1> HIDE DEF N
<1>6. TextsFit(N)
  BY <1>1, <1>3, CheckTextsIs DEF QuestionPasses, N
<1>7. tag \in {"noul", "choice", "score"}
  BY DEF Tags
<1>8. tag # "noul" => Len(N.texts) >= 2
  <2>1. PICK s \in Tags : Get(q, "type") = Name(s) /\ GoodCriteria(s, q)
    BY GoodQuestionIs
  <2>2. s = tag
    BY <1>4, <2>1, NameIs
  <2>3. ASSUME tag = "choice" PROVE Len(Get(q, "criteria").items) \in 2..MAX_CHOICE_OPTIONS
    BY <2>1, <2>2, <2>3 DEF GoodCriteria, GoodChoice
  <2>4. ASSUME tag = "score" PROVE Len(Get(q, "criteria").items) \in MIN_SCORE_LEVELS..MAX_SCORE_LEVELS
    BY <2>1, <2>2, <2>4 DEF GoodCriteria, GoodScore
  <2>5. MAX_CHOICE_OPTIONS \in Nat /\ MIN_SCORE_LEVELS \in Nat /\ MIN_SCORE_LEVELS >= 2 /\ MAX_SCORE_LEVELS \in Nat
    <3>1. MIN_SCORE_LEVELS \in Nat \ {0, 1}
      BY WireAssumption
    <3>2. MIN_SCORE_LEVELS >= 2
      BY <3>1
    <3> QED BY <3>1, <3>2, WireAssumption
  <2>6. \A x : x \in 2..MAX_CHOICE_OPTIONS \/ x \in MIN_SCORE_LEVELS..MAX_SCORE_LEVELS => x >= 2
    BY <2>5
  <2> QED BY <1>3, <1>7, <2>3, <2>4, <2>6
<1>9. Asks(N)
  BY <1>3, <1>5, <1>6, <1>7, <1>8 DEF Asks
<1> QED BY <1>9 DEF N

-----------------------------------------------------------------------------
(* The state and the rest of a request *)

\* What check_native refuses a state for.
StateWrong(v) == \/ ~Truthy(v)
                 \/ v.kind = "str" /\ Strip(v.text) = <<>>
                 \/ HasNonFinite(v)
                 \/ Lone(Dumps(v, StateDump))
                 \/ Len(Dumps(v, StateDump)) > MAX_STATE_BYTES

\* The state passes both checks exactly if it is good.
LEMMA StatesAgree ==
  ASSUME NEW r, NEW v, SentIn(r, v)
  PROVE  Structured(v) /\ ~StateWrong(v) <=> GoodState(v)
<1> DEFINE n == Len(Dumps(v, StateDump))
<1>1. n \in Nat /\ MAX_STATE_BYTES \in Nat
  BY DumpsAre, LenProperties, WireAssumption
<1>2. ~(n > MAX_STATE_BYTES) <=> n <= MAX_STATE_BYTES
  <2> HIDE DEF n
  <2> QED BY <1>1
<1>3. Lone(Dumps(v, StateDump)) <=> HasLone(v)
  BY DumpsAre
<1> HIDE DEF n
<1>4. CASE v.kind = "str"
  <2>1. Truthy(v) <=> v.text # <<>>
    BY <1>4 DEF Truthy
  <2>2. Strip(v.text) # <<>> => v.text # <<>>
    BY DEF Strip
  <2> QED BY <1>2, <1>3, <1>4, <2>1, <2>2 DEF StateWrong, GoodState, n
<1>5. CASE Container(v)
  <2>1. v.kind # "str" /\ (Truthy(v) <=> v.items # <<>>)
    BY <1>5 DEF Truthy, Container
  <2> QED BY <1>2, <1>3, <2>1 DEF StateWrong, GoodState, n
<1>6. CASE v.kind # "str" /\ ~Container(v)
  BY <1>6 DEF GoodState, Structured
<1> QED BY <1>4, <1>5, <1>6

\* A request that holds nothing but the three fields holds three if it holds each.
LEMMA ThreeKeys ==
  ASSUME NEW v, KeysIn(v, RequestFields)
  PROVE  Cardinality(Keys(v)) = 3 <=> \A n \in RequestFields : <<n>> \in Keys(v)
<1> DEFINE a == <<"state">>
           b == <<"model">>
           d == <<"questions">>
           K == Keys(v)
           T == {a, b, d}
<1>1. a # b /\ a # d /\ b # d
  <2>1. a[1] = "state" /\ b[1] = "model" /\ d[1] = "questions"
    OBVIOUS
  <2> HIDE DEF a, b, d
  <2> QED BY <2>1
<1>2. {<<n>> : n \in RequestFields} = T
  BY DEF RequestFields
<1>3. K \subseteq T
  BY <1>2 DEF KeysIn
<1>4. (\A n \in RequestFields : <<n>> \in K) <=> a \in K /\ b \in K /\ d \in K
  BY DEF RequestFields
<1> HIDE DEF a, b, d, K
<1>5. IsFiniteSet(T) /\ Cardinality(T) = 3
  <2> DEFINE A == {a}
             B == A \cup {b}
             D == B \cup {d}
  <2>1. IsFiniteSet(A) /\ Cardinality(A) = 1
    BY FS_Singleton
  <2>2. b \notin A /\ d \notin B /\ D = T
    BY <1>1
  <2>3. IsFiniteSet(B) /\ Cardinality(B) = 2
    <3> HIDE DEF A
    <3> QED BY <2>1, <2>2, FS_AddElement
  <2>4. IsFiniteSet(D) /\ Cardinality(D) = 3
    <3> HIDE DEF A, B
    <3> QED BY <2>2, <2>3, FS_AddElement
  <2> QED BY <2>2, <2>4
<1>6. Cardinality(K) = Cardinality(T) => K = T
  BY <1>3, <1>5, FS_Subset
<1>7. Cardinality(K) = 3 <=> a \in K /\ b \in K /\ d \in K
  <2>1. a \in K /\ b \in K /\ d \in K => K = T
    BY <1>3
  <2> QED BY <1>5, <1>6, <2>1
<1> QED BY <1>4, <1>7 DEF K

\* The value of a request that was sent, and its questions, are of JSON.
LEMMA ItselfSent == ASSUME NEW r \in Sent PROVE IsJson(r.value) /\ SentIn(r, r.value)
BY SentAssumption, WithinIs DEF SentIn

\* The items of a request's questions.
Items(r) == Get(r.value, "questions").items
\* The ids of the questions, and every question passing.
GoodIds(r) == \A k \in 1..Len(Items(r)) : Strip(Items(r)[k].key) # <<>> /\ ~(Len(Items(r)[k].key) > MAX_ID)
Every(r) == \A k \in 1..Len(Items(r)) : QuestionPasses(Items(r)[k].key, Items(r)[k].value)

\* The questions of a request that was sent.
LEMMA ItemsOfSent ==
  ASSUME NEW r \in Sent, HasKey(r.value, "questions")
  PROVE  /\ Len(Items(r)) \in Nat /\ DOMAIN Items(r) = 1..Len(Items(r))
         /\ \A k \in 1..Len(Items(r)) : Items(r)[k].key \in Seq(STRING) /\ SentIn(r, Items(r)[k].value)
         /\ \A k \in 1..Len(Items(r)) : Items(r)[k] \in ToSet(Items(r))
         /\ \A m \in ToSet(Items(r)) : \E k \in 1..Len(Items(r)) : m = Items(r)[k]
         /\ DOMAIN Questions(r) = 1..Len(Items(r)) /\ Len(Questions(r)) = Len(Items(r))
         /\ \A k \in 1..Len(Items(r)) : Questions(r)[k] = ToNative(Items(r)[k].key, Items(r)[k].value)
<1> DEFINE qs == Get(r.value, "questions")
           n == Len(Items(r))
<1>1. SentIn(r, qs)
  BY ItselfSent, FieldSent
<1>2. n \in Nat /\ DOMAIN Items(r) = 1..n
      /\ \A k \in 1..n : Items(r)[k].key \in Seq(STRING) /\ SentIn(r, Items(r)[k].value)
  <2> HIDE DEF qs
  <2>1. Items(r) = qs.items
    BY DEF Items, qs
  <2> QED BY <1>1, <2>1, ItemsSent
<1>3. /\ \A k \in 1..n : Items(r)[k] \in ToSet(Items(r))
      /\ \A m \in ToSet(Items(r)) : \E k \in 1..n : m = Items(r)[k]
  BY <1>2 DEF ToSet
<1>4. Questions(r) = [k \in 1..n |-> ToNative(Items(r)[k].key, Items(r)[k].value)]
  BY <1>2 DEF Questions, Items
<1> HIDE DEF n
<1>5. /\ DOMAIN Questions(r) = 1..n
      /\ \A k \in 1..n : Questions(r)[k] = ToNative(Items(r)[k].key, Items(r)[k].value)
  BY <1>4
<1>6. Len(Questions(r)) = n
  BY <1>2, <1>5
<1> QED BY <1>2, <1>3, <1>5, <1>6 DEF n

\* Errors of no place in the request.
Unwired(errs) == \A k \in DOMAIN errs : ~errs[k].wire

\* Errors that are not of the wire model point nowhere, one or many.
LEMMA AppErrIsUnwired ==
  ASSUME NEW t, NEW l, NEW quotes
  PROVE  Unwired(<<AppErr(t, l, quotes)>>) /\ <<AppErr(t, l, quotes)>> # <<>>
<1> DEFINE e == AppErr(t, l, quotes)
<1>1. ~e.wire
  BY DEF AppErr
<1> HIDE DEF e
<1>2. DOMAIN <<e>> = {1} /\ <<e>>[1] = e
  OBVIOUS
<1>3. Unwired(<<e>>) /\ <<e>> # <<>>
  BY <1>1, <1>2 DEF Unwired
<1> QED BY <1>3 DEF e

\* The errors after check_wire show no value of the body.
LEMMA AppErrsAreUnwired ==
  ASSUME NEW L, NEW errs \in Seq(AppErrs(L))
  PROVE  Unwired(errs)
<1>1. DOMAIN errs = 1..Len(errs)
  BY LenProperties
<1>2. \A e \in AppErrs(L) : ~e.wire
  BY DEF AppErrs, AppErr
<1>3. \A k \in 1..Len(errs) : errs[k] \in AppErrs(L)
  BY ElementOfSeq
<1> QED BY <1>1, <1>2, <1>3 DEF Unwired

\* Errors with few paths are errors with more.
LEMMA AppErrsGrow ==
  ASSUME NEW L, NEW M, L \subseteq M
  PROVE  \A errs \in Seq(AppErrs(L)) : errs \in Seq(AppErrs(M))
<1>1. AppErrs(L) \subseteq AppErrs(M)
  BY DEF AppErrs
<1> DEFINE A == AppErrs(L)
           B == AppErrs(M)
<1> HIDE DEF A, B
<1>2. \A errs \in Seq(A) : errs \in Seq(B)
  <2>1. A \subseteq B
    BY <1>1 DEF A, B
  <2> QED BY <2>1
<1> QED BY <1>2 DEF A, B

\* What the loop over the questions' texts says.
LEMMA TextsOfAll ==
  ASSUME NEW n \in Nat, NEW qs, DOMAIN qs = 1..n, \A k \in 1..n : Native(qs[k])
  PROVE  /\ Unwired(FlattenSeq([k \in DOMAIN qs |-> CheckTexts(qs[k])]))
         /\ FlattenSeq([k \in DOMAIN qs |-> CheckTexts(qs[k])]) = <<>> <=> \A k \in 1..n : CheckTexts(qs[k]) = <<>>
<1> DEFINE L == UNION {NativeLocs(qs[k]) : k \in 1..n}
           each == [k \in DOMAIN qs |-> CheckTexts(qs[k])]
           X == AppErrs(L)
<1>1. \A k \in 1..n : CheckTexts(qs[k]) \in Seq(X)
  <2> SUFFICES ASSUME NEW k \in 1..n PROVE CheckTexts(qs[k]) \in Seq(X)
    OBVIOUS
  <2>1. CheckTexts(qs[k]) \in Seq(AppErrs(NativeLocs(qs[k])))
    BY CheckTextsIs
  <2>2. NativeLocs(qs[k]) \subseteq L
    OBVIOUS
  <2> HIDE DEF L
  <2> QED BY <2>1, <2>2, AppErrsGrow
<1> HIDE DEF L
<1>2. each \in Seq(Seq(X)) /\ Len(each) = n
  <2>1. each \in [1..n -> Seq(X)]
    BY <1>1
  <2> HIDE DEF each, X
  <2> QED BY <2>1, MadeSeq
<1>3. \A k \in 1..n : each[k] = CheckTexts(qs[k])
  OBVIOUS
<1> HIDE DEF each, X
<1>4. FlattenSeq(each) \in Seq(X) /\ (FlattenSeq(each) = <<>> <=> \A k \in 1..n : each[k] = <<>>)
  BY <1>2, FlattenEmpty
<1>5. Unwired(FlattenSeq(each))
  BY <1>4, AppErrsAreUnwired DEF X
<1> QED BY <1>3, <1>4, <1>5 DEF each

\* check_native finds nothing exactly if the texts, the number of questions, the
\* ids and the state are as they should be.
LEMMA NativeChecks ==
  ASSUME NEW state, NEW n \in Nat, NEW qs, DOMAIN qs = 1..n, Len(qs) = n, \A k \in 1..n : Native(qs[k])
  PROVE  /\ Unwired(CheckNative(state, qs))
         /\ CheckNative(state, qs) = <<>> <=>
              /\ \A k \in 1..n : CheckTexts(qs[k]) = <<>>
              /\ n <= MAX_QUESTIONS /\ ~StateWrong(state)
              /\ \A k \in 1..n : Strip(qs[k].id) # <<>> /\ ~(Len(qs[k].id) > MAX_ID)
<1> DEFINE texts == FlattenSeq([k \in DOMAIN qs |-> CheckTexts(qs[k])])
           fits == \A k \in 1..n : CheckTexts(qs[k]) = <<>>
           ids == \A k \in 1..n : Strip(qs[k].id) # <<>> /\ ~(Len(qs[k].id) > MAX_ID)
           many == <<AppErr("too_long", Append(Root, Name("questions")), <<>>)>>
           wrong == <<AppErr("value_error", Root, <<>>)>>
<1>1. Unwired(texts) /\ (texts = <<>> <=> fits)
  BY TextsOfAll
<1>2. Unwired(many) /\ many # <<>> /\ Unwired(wrong) /\ wrong # <<>>
  BY AppErrIsUnwired
<1>3. CheckNative(state, qs) = IF texts # <<>> THEN texts
                               ELSE IF n > MAX_QUESTIONS THEN many
                               ELSE IF StateWrong(state) \/ ~ids THEN wrong ELSE <<>>
  BY DEF CheckNative, StateWrong
<1>4. n <= MAX_QUESTIONS <=> ~(n > MAX_QUESTIONS)
  BY WireAssumption
<1>5. Unwired(<<>>)
  BY DEF Unwired
<1> HIDE DEF texts, fits, ids, many, wrong
<1>6. /\ Unwired(CheckNative(state, qs))
      /\ CheckNative(state, qs) = <<>> <=> fits /\ n <= MAX_QUESTIONS /\ ~StateWrong(state) /\ ids
  BY <1>1, <1>2, <1>3, <1>4, <1>5
<1> QED BY <1>6 DEF fits, ids

\* What to_native makes of a request check_wire let through.
LEMMA NativeIs ==
  ASSUME NEW r \in Sent, WireFine(r.value)
  PROVE  /\ Unwired(NativeErrors(r))
         /\ NativeErrors(r) = <<>> <=> /\ Every(r)
                                       /\ Len(Items(r)) <= MAX_QUESTIONS
                                       /\ ~StateWrong(Get(r.value, "state"))
                                       /\ GoodIds(r)
<1> DEFINE n == Len(Items(r))
           qs == Questions(r)
           state == Get(r.value, "state")
           nan == \E m \in ToSet(Items(r)) : NanIn(m.value)
           wrong == <<AppErr("value_error", Root, <<>>)>>
           errs == NativeErrors(r)
<1>1. HasKey(r.value, "questions")
      /\ \A k \in 1..n : QuestionFine(Items(r)[k].value)
  BY DEF WireFine, QuestionsFine, Items
<1>2. /\ n \in Nat /\ DOMAIN qs = 1..n /\ Len(qs) = n
      /\ \A k \in 1..n : SentIn(r, Items(r)[k].value) /\ Items(r)[k] \in ToSet(Items(r))
      /\ \A m \in ToSet(Items(r)) : \E k \in 1..n : m = Items(r)[k]
      /\ \A k \in 1..n : qs[k] = ToNative(Items(r)[k].key, Items(r)[k].value)
  BY <1>1, ItemsOfSent
<1>3. ASSUME NEW k \in 1..n
      PROVE  Native(qs[k]) /\ qs[k].id = Items(r)[k].key
  <2> DEFINE q == Items(r)[k].value
             id == Items(r)[k].key
  <2>1. SentIn(r, q) /\ QuestionFine(q) /\ qs[k] = ToNative(id, q)
    BY <1>1, <1>2
  <2> HIDE DEF q, id
  <2>2. PICK tag \in Tags : Shaped(tag, q)
    BY <2>1 DEF QuestionFine, Shaped
  <2>3. Native(ToNative(id, q))
    BY <2>1, <2>2, ShapedAgrees
  <2>4. ToNative(id, q).id = id
    BY DEF ToNative
  <2> QED BY <2>1, <2>3, <2>4 DEF id
<1>4. errs = IF nan THEN wrong ELSE CheckNative(state, qs)
  BY DEF NativeErrors, Items
<1>5. Unwired(wrong) /\ wrong # <<>>
  BY AppErrIsUnwired
<1>6. nan <=> \E k \in 1..n : NanIn(Items(r)[k].value)
  BY <1>2
<1> HIDE DEF qs, state, nan, wrong, errs, n
<1>7. /\ Unwired(CheckNative(state, qs))
      /\ CheckNative(state, qs) = <<>> <=>
              /\ \A k \in 1..n : CheckTexts(qs[k]) = <<>>
              /\ n <= MAX_QUESTIONS /\ ~StateWrong(state)
              /\ \A k \in 1..n : Strip(qs[k].id) # <<>> /\ ~(Len(qs[k].id) > MAX_ID)
  <2>1. n \in Nat /\ DOMAIN qs = 1..n /\ Len(qs) = n
    BY <1>2
  <2>2. \A k \in 1..n : Native(qs[k])
    BY <1>3
  <2> QED BY <2>1, <2>2, NativeChecks
<1>8. Every(r) <=> ~nan /\ \A k \in 1..n : CheckTexts(qs[k]) = <<>>
  BY <1>1, <1>2, <1>6 DEF Every, QuestionPasses, n
<1>9. GoodIds(r) <=> \A k \in 1..n : Strip(qs[k].id) # <<>> /\ ~(Len(qs[k].id) > MAX_ID)
  BY <1>3 DEF GoodIds, n
<1>10. Unwired(errs) /\ (errs = <<>> <=> Every(r) /\ n <= MAX_QUESTIONS /\ ~StateWrong(state) /\ GoodIds(r))
  BY <1>4, <1>5, <1>7, <1>8, <1>9
<1> QED BY <1>10 DEF errs, n, state

\* What the checks let through.
Passes(r) == WireFine(r.value) /\ NameErrors(r.value) = <<>> /\ NativeErrors(r) = <<>>

\* The check of the name.
LEMMA NameErrorsAre ==
  ASSUME NEW body
  PROVE  /\ Unwired(NameErrors(body))
         /\ NameErrors(body) = <<>> <=> Known(Get(body, "model").text)
<1> DEFINE name == Get(body, "model").text
           e == <<AppErr("value_error", Append(Root, Name("model")), name)>>
<1>1. Unwired(e) /\ e # <<>>
  BY AppErrIsUnwired
<1>2. NameErrors(body) = IF Known(name) THEN <<>> ELSE e
  BY DEF NameErrors
<1>3. Unwired(<<>>)
  BY DEF Unwired
<1> HIDE DEF e
<1> QED BY <1>1, <1>2, <1>3

\* The questions of a good request
GoodQuestions(r) ==
  /\ Get(r.value, "questions").kind = "dict"
  /\ Len(Items(r)) \in 1..MAX_QUESTIONS
  /\ \A k \in 1..Len(Items(r)) : GoodQuestion(Items(r)[k].value)
  /\ GoodIds(r)

\* GoodRequest, by its three fields.
LEMMA GoodRequestIs ==
  ASSUME NEW r \in Sent
  PROVE  GoodRequest(r.value) <=>
           /\ KeysIn(r.value, RequestFields) /\ \A n \in RequestFields : HasKey(r.value, n)
           /\ GoodState(Get(r.value, "state"))
           /\ ModelFine(r.value) /\ Known(Get(r.value, "model").text)
           /\ GoodQuestions(r)
<1> DEFINE v == r.value
           model == Get(v, "model")
           qs == Get(v, "questions")
           keys == KeysIn(v, RequestFields) /\ \A n \in RequestFields : HasKey(v, n)
           named == model.kind = "str" /\ model.text # <<>> /\ ~Lone(model.text) /\ Known(model.text)
           asked == /\ qs.kind = "dict" /\ Len(qs.items) \in 1..MAX_QUESTIONS
                    /\ \A m \in ToSet(qs.items) : /\ Strip(m.key) # <<>> /\ Len(m.key) <= MAX_ID
                                                  /\ GoodQuestion(m.value)
<1>1. GoodRequest(v) <=> KeysIn(v, RequestFields) /\ Cardinality(Keys(v)) = 3 /\ GoodState(Get(v, "state")) /\ named /\ asked
  BY DEF GoodRequest, RequestFields
<1>2. KeysIn(v, RequestFields) /\ Cardinality(Keys(v)) = 3 <=> keys
  <2>1. \A n \in RequestFields : HasKey(v, n) <=> <<n>> \in Keys(v)
    BY ItselfSent, FieldIs DEF SentIn
  <2> QED BY <2>1, ThreeKeys
<1>3. ASSUME keys PROVE asked <=> GoodQuestions(r)
  <2>1. "questions" \in RequestFields
    BY DEF RequestFields
  <2>2. /\ \A k \in 1..Len(Items(r)) : Items(r)[k].key \in Seq(STRING) /\ Items(r)[k] \in ToSet(Items(r))
        /\ \A m \in ToSet(Items(r)) : \E k \in 1..Len(Items(r)) : m = Items(r)[k]
    BY <1>3, <2>1, ItemsOfSent
  <2>3. \A k \in 1..Len(Items(r)) : Len(Items(r)[k].key) <= MAX_ID <=> ~(Len(Items(r)[k].key) > MAX_ID)
    <3>1. MAX_ID \in Nat
      BY WireAssumption
    <3>2. \A k \in 1..Len(Items(r)) : Len(Items(r)[k].key) \in Nat
      BY <2>2, LenProperties
    <3> QED BY <3>1, <3>2
  <2>4. asked <=> /\ qs.kind = "dict" /\ Len(Items(r)) \in 1..MAX_QUESTIONS
                  /\ \A m \in ToSet(Items(r)) : /\ Strip(m.key) # <<>> /\ Len(m.key) <= MAX_ID
                                                /\ GoodQuestion(m.value)
    BY DEF Items
  <2>5. (\A m \in ToSet(Items(r)) : Strip(m.key) # <<>> /\ Len(m.key) <= MAX_ID /\ GoodQuestion(m.value))
          <=> GoodIds(r) /\ \A k \in 1..Len(Items(r)) : GoodQuestion(Items(r)[k].value)
    BY <2>2, <2>3, Zenon DEF GoodIds
  <2> QED BY <2>4, <2>5 DEF GoodQuestions
<1>4. keys => (named <=> ModelFine(v) /\ Known(model.text))
  BY DEF ModelFine, RequestFields
<1> HIDE DEF keys, named, asked
<1>5. GoodRequest(v) <=> keys /\ GoodState(Get(v, "state")) /\ ModelFine(v) /\ Known(model.text) /\ GoodQuestions(r)
  BY <1>1, <1>2, <1>3, <1>4
<1> QED BY <1>5 DEF keys

\* check_wire, the name and check_native together let through exactly the good
\* requests.
LEMMA RequestAgrees ==
  ASSUME NEW r \in Sent
  PROVE  Passes(r) <=> GoodRequest(r.value)
<1> DEFINE v == r.value
           n == Len(Items(r))
           state == Get(v, "state")
           keys == KeysIn(v, RequestFields) /\ \A key \in RequestFields : HasKey(v, key)
<1>1. KeysIn(v, RequestFields) => v.kind = "dict"
  BY DEF KeysIn
<1>2. WireFine(v) => keys
  BY DEF WireFine, StateFine, ModelFine, QuestionsFine, RequestFields
<1>3. ASSUME keys PROVE Passes(r) <=> GoodRequest(v)
  <2>1. HasKey(v, "state") /\ HasKey(v, "model") /\ HasKey(v, "questions")
    BY <1>3 DEF RequestFields
  <2>2. /\ n \in Nat
        /\ \A k \in 1..n : SentIn(r, Items(r)[k].value)
    BY <2>1, ItemsOfSent
  <2>3. SentIn(r, state) /\ SentIn(r, Get(v, "questions"))
    BY <2>1, ItselfSent, FieldSent
  <2>4. Structured(state) /\ ~StateWrong(state) <=> GoodState(state)
    <3> HIDE DEF state
    <3> QED BY <2>3, StatesAgree
  <2>5. Items(r) = <<>> <=> n = 0
    <3>1. SentIn(r, Get(v, "questions"))
      BY <2>3
    <3> DEFINE qs == Get(v, "questions")
    <3> HIDE DEF qs
    <3>2. qs.items = <<>> <=> Len(qs.items) = 0
      BY <3>1, ItemsSent DEF qs
    <3> QED BY <3>2 DEF Items, qs
  <2>6. \A k \in 1..n : QuestionPasses(Items(r)[k].key, Items(r)[k].value) <=> GoodQuestion(Items(r)[k].value)
    BY <2>2, QuestionAgrees
  <2>7. Every(r) <=> \A k \in 1..n : GoodQuestion(Items(r)[k].value)
    BY <2>6 DEF Every
  <2>8. Every(r) => \A k \in 1..n : QuestionFine(Items(r)[k].value)
    BY DEF Every, QuestionPasses
  <2>9. n \in 1..MAX_QUESTIONS <=> n # 0 /\ n <= MAX_QUESTIONS
    BY <2>2, WireAssumption
  <2>10. WireFine(v) <=> /\ Structured(state) /\ ModelFine(v)
                         /\ Get(v, "questions").kind = "dict" /\ n # 0
                         /\ \A k \in 1..n : QuestionFine(Items(r)[k].value)
    BY <1>1, <1>3, <2>1, <2>5 DEF WireFine, StateFine, QuestionsFine, Items
  <2>11. WireFine(v) => (NativeErrors(r) = <<>> <=> /\ Every(r) /\ n <= MAX_QUESTIONS
                                                    /\ ~StateWrong(state) /\ GoodIds(r))
    BY NativeIs
  <2>12. NameErrors(v) = <<>> <=> Known(Get(v, "model").text)
    BY NameErrorsAre
  <2>13. GoodRequest(v) <=> /\ GoodState(state) /\ ModelFine(v) /\ Known(Get(v, "model").text)
                            /\ GoodQuestions(r)
    BY <1>3, GoodRequestIs
  <2>14. GoodQuestions(r) <=> /\ Get(v, "questions").kind = "dict" /\ n \in 1..MAX_QUESTIONS
                              /\ Every(r) /\ GoodIds(r)
    BY <2>7 DEF GoodQuestions
  <2> QED BY <2>4, <2>8, <2>9, <2>10, <2>11, <2>12, <2>13, <2>14 DEF Passes
<1>4. GoodRequest(v) => keys
  BY GoodRequestIs
<1> HIDE DEF keys
<1> QED BY <1>2, <1>3, <1>4 DEF Passes

-----------------------------------------------------------------------------
(* What is asked of the model can be encoded *)

\* Characters that UTF-8 has.
Clean == Characters \ Surrogates

\* A text without a surrogate is one of those, and back; so are the words of
\* templates, and what is joined of such texts.
LEMMA CleanIs ==
  /\ \A text \in Seq(Characters) : ~Lone(text) => text \in Seq(Clean)
  /\ \A text \in Seq(Clean) : ~Lone(text)
<1>1. ASSUME NEW text \in Seq(Characters), ~Lone(text) PROVE text \in Seq(Clean)
  <2>1. DOMAIN text = 1..Len(text) /\ Len(text) \in Nat
    BY LenProperties
  <2>2. \A k \in 1..Len(text) : text[k] \in Clean
    <3>1. \A k \in 1..Len(text) : text[k] \in Characters
      BY ElementOfSeq
    <3> QED BY <1>1, <2>1, <3>1 DEF Lone, Clean
  <2>3. text = [k \in 1..Len(text) |-> text[k]]
    BY <1>1, <2>1
  <2>4. text \in [1..Len(text) -> Clean]
    BY <2>2, <2>3
  <2> DEFINE n == Len(text)
  <2> HIDE DEF n
  <2>5. n \in Nat /\ text \in [1..n -> Clean]
    BY <2>1, <2>4 DEF n
  <2> QED BY <2>5, MadeSeq
<1>2. ASSUME NEW text \in Seq(Clean) PROVE ~Lone(text)
  <2>1. DOMAIN text = 1..Len(text) /\ Len(text) \in Nat
    BY LenProperties
  <2>2. \A k \in 1..Len(text) : text[k] \in Clean
    BY ElementOfSeq
  <2> QED BY <2>1, <2>2 DEF Lone, Clean
<1> QED BY <1>1, <1>2

\* A word of the prompts can be written in UTF-8.
LEMMA CleanWord == ASSUME NEW w \in Spoken PROVE <<w>> \in Seq(Clean)
BY WordIs, CleanIs

\* Two texts that can be written make one that can.
LEMMA CleanJoin ==
  ASSUME NEW x \in Seq(Clean), NEW y \in Seq(Clean)
  PROVE  x \o y \in Seq(Clean)
BY ConcatProperties

\* So do candidates with marks between them.
LEMMA CleanJoined ==
  ASSUME NEW texts, NEW n \in Nat, DOMAIN texts = 1..n, \A k \in 1..n : texts[k].text \in Seq(Clean),
         NEW between \in Seq(Clean)
  PROVE  Joined(texts, between) \in Seq(Clean)
<1> DEFINE each == [k \in DOMAIN texts |-> between \o texts[k].text]
           S == Seq(Clean)
<1>1. \A k \in 1..n : between \o texts[k].text \in S
  BY CleanJoin
<1>2. each \in [1..n -> S]
  BY <1>1
<1> HIDE DEF each
<1>3. each \in Seq(S)
  <2> HIDE DEF S
  <2> QED BY <1>2, MadeSeq
<1>4. FlattenSeq(each) \in Seq(Clean)
  BY <1>3, FlattenEmpty
<1> QED BY <1>4 DEF Joined, each

\* The candidates' indices
About(N) == FirstCandidate(N)..(FirstCandidate(N) + Candidates(N) - 1)

\* A question that asks has candidates and phrasings, and its candidates are
\* among its texts.
LEMMA CandidatesAre ==
  ASSUME NEW N, Asks(N)
  PROVE  /\ Candidates(N) \in Nat /\ Candidates(N) # 0 /\ FirstCandidate(N) \in {1, 2}
         /\ Len(Phrasings(N)) \in Nat /\ Len(Phrasings(N)) # 0
         /\ N.kind # "boolean" => /\ About(N) \subseteq 1..Len(N.texts)
                                  /\ \A f \in 1..Len(Phrasings(N)) : Phrasings(N)[f] \in STRING \ Surrogates
<1> DEFINE n == Len(N.texts)
<1>1. n \in Nat /\ N.kind \in {"boolean", "choice", "score"} /\ (N.kind # "boolean" => n >= 2)
  BY DEF Asks, Native
<1> HIDE DEF n
<1>2. CASE N.kind = "boolean"
  <2>1. Candidates(N) = 1 /\ FirstCandidate(N) = 1
    BY <1>2 DEF Candidates, FirstCandidate
  <2>2. Len(Phrasings(N)) = 1
    <3>1. Phrasings(N) = <<"">>
      BY <1>2 DEF Phrasings
    <3>2. \A p : Len(<<p>>) = 1
      OBVIOUS
    <3> QED BY <3>1, <3>2, Zenon
  <2> QED BY <1>2, <2>1, <2>2
<1>3. CASE N.kind = "choice"
  <2>1. Candidates(N) = n /\ FirstCandidate(N) = 1 /\ Phrasings(N) = ChoicePhrasings
    BY <1>3 DEF Candidates, FirstCandidate, Phrasings, n
  <2>2. About(N) \subseteq 1..n
    BY <1>1, <2>1 DEF About
  <2> DEFINE S == STRING \ Surrogates
  <2>3. ChoicePhrasings \in Seq(S) /\ ChoicePhrasings # <<>>
    BY LimitsAssumption
  <2> HIDE DEF S
  <2>4. Len(ChoicePhrasings) \in Nat /\ Len(ChoicePhrasings) # 0
        /\ \A f \in 1..Len(ChoicePhrasings) : ChoicePhrasings[f] \in S
    BY <2>3, EmptySeq, ElementOfSeq
  <2> QED BY <1>1, <1>3, <2>1, <2>2, <2>4 DEF S, n
<1>4. CASE N.kind = "score"
  <2>1. Candidates(N) = n - 1 /\ FirstCandidate(N) = 2 /\ Phrasings(N) = ScorePhrasings
    BY <1>4 DEF Candidates, FirstCandidate, Phrasings, n
  <2>2. About(N) \subseteq 1..n /\ n - 1 \in Nat /\ n - 1 # 0
    BY <1>1, <1>4, <2>1 DEF About
  <2> DEFINE S == STRING \ Surrogates
  <2>3. ScorePhrasings \in Seq(S) /\ ScorePhrasings # <<>>
    BY LimitsAssumption
  <2> HIDE DEF S
  <2>4. Len(ScorePhrasings) \in Nat /\ Len(ScorePhrasings) # 0
        /\ \A f \in 1..Len(ScorePhrasings) : ScorePhrasings[f] \in S
    BY <2>3, EmptySeq, ElementOfSeq
  <2> QED BY <1>1, <1>4, <2>1, <2>2, <2>4 DEF S, n
<1> QED BY <1>1, <1>2, <1>3, <1>4

\* A good question's texts, the state and a prompt made of such texts can be
\* encoded.
LEMMA CleanTexts ==
  ASSUME NEW N, Asks(N)
  PROVE  /\ N.instructions \in Seq(Clean)
         /\ Len(N.texts) \in Nat /\ DOMAIN N.texts = 1..Len(N.texts)
         /\ \A k \in 1..Len(N.texts) : N.texts[k].text \in Seq(Clean)
<1>1. Native(N) /\ TextsFit(N)
  BY DEF Asks
<1>2. N.instructions \in Seq(Clean)
  BY <1>1, CleanIs DEF Native, TextsFit, Fits
<1>3. \A k \in 1..Len(N.texts) : N.texts[k].text \in Seq(Clean)
  BY <1>1, CleanIs DEF Native, TextsFit, Fits
<1> QED BY <1>1, <1>2, <1>3 DEF Native

\* What a question asks about a candidate, in a phrasing.
LEMMA CleanInstructions ==
  ASSUME NEW N, Asks(N), NEW f \in 1..Len(Phrasings(N)), NEW i \in About(N)
  PROVE  Instructions(N, Phrasings(N)[f], i) \in Seq(Clean)
<1>1. CASE N.kind = "boolean"
  BY <1>1, CleanTexts DEF Instructions
<1>2. CASE N.kind # "boolean"
  <2> DEFINE w == IF N.kind = "choice" THEN "- " ELSE " < "
             p == Phrasings(N)[f]
             a == N.instructions
             b == Joined(N.texts, <<w>>)
             d == <<p>>
             e == N.texts[i].text
  <2>1. w \in Spoken
    BY DEF Spoken
  <2>2. <<w>> \in Seq(Clean)
    <3> HIDE DEF w
    <3> QED BY <2>1, CleanWord
  <2>3. a \in Seq(Clean) /\ e \in Seq(Clean)
    BY <1>2, CleanTexts, CandidatesAre
  <2>4. b \in Seq(Clean)
    <3> DEFINE n == Len(N.texts)
               between == <<w>>
               ts == N.texts
    <3>1. n \in Nat /\ DOMAIN ts = 1..n /\ \A k \in 1..n : ts[k].text \in Seq(Clean)
      BY CleanTexts
    <3>2. between \in Seq(Clean)
      BY <2>2
    <3> HIDE DEF n, between, ts
    <3>3. Joined(ts, between) \in Seq(Clean)
      BY <3>1, <3>2, CleanJoined
    <3> QED BY <3>3 DEF between, ts
  <2>5. d \in Seq(Clean)
    <3>1. p \in STRING \ Surrogates
      BY <1>2, CandidatesAre
    <3>2. p \in Clean
      BY <3>1 DEF Clean, Characters
    <3> HIDE DEF p
    <3> QED BY <3>2
  <2>6. Instructions(N, p, i) = a \o b \o d \o e
    BY <1>2 DEF Instructions
  <2> HIDE DEF a, b, d, e
  <2>7. a \o b \in Seq(Clean)
    BY <2>3, <2>4, CleanJoin
  <2>8. a \o b \o d \in Seq(Clean)
    BY <2>5, <2>7, CleanJoin
  <2>9. a \o b \o d \o e \in Seq(Clean)
    BY <2>3, <2>8, CleanJoin
  <2> QED BY <2>6, <2>9
<1> QED BY <1>1, <1>2

\* A good state is written as a text that can be encoded.
LEMMA CleanState ==
  ASSUME NEW r, NEW v, SentIn(r, v), GoodState(v)
  PROVE  RenderState(v) \in Seq(Clean)
<1>1. v.text \in Seq(STRING) /\ v.text \in Seq(Characters)
  BY StringIs, MoreTexts DEF SentIn
<1>2. ~HasLone(v)
  BY DEF GoodState
<1>3. CASE v.kind = "str" /\ "</evidence>" \notin ToSet(v.text)
  <2>1. ~Lone(v.text)
    BY <1>2, <1>3, WithinIs DEF HasLone
  <2>2. ~Lone(Strip(v.text)) /\ Strip(v.text) \in Seq(Characters)
    BY <1>1, <2>1, StripEncodes, StripIs
  <2>3. RenderState(v) = Strip(v.text)
    BY <1>3 DEF RenderState
  <2> QED BY <2>2, <2>3, CleanIs
<1>4. CASE ~(v.kind = "str" /\ "</evidence>" \notin ToSet(v.text))
  <2> DEFINE t == Dumps(v, PromptDump)
  <2>1. t \in Seq(STRING) /\ (Lone(t) <=> HasLone(v))
    BY DumpsAre
  <2>2. RenderState(v) = t
    BY <1>4 DEF RenderState
  <2> HIDE DEF t
  <2>3. t \in Seq(Characters) /\ ~Lone(t)
    BY <1>2, <2>1, MoreTexts
  <2> QED BY <2>2, <2>3, CleanIs
<1> QED BY <1>3, <1>4

\* A prompt made of such texts can be encoded.
LEMMA CleanPrompt ==
  ASSUME NEW x \in Seq(Clean), NEW y \in Seq(Clean)
  PROVE  BinaryPrompt(x, y) \in Seq(Clean)
<1> DEFINE q == <<"Question: ">>
           a == <<"Answer:">>
<1>1. q \in Seq(Clean) /\ a \in Seq(Clean)
  <2>1. "Question: " \in Spoken /\ "Answer:" \in Spoken
    BY DEF Spoken
  <2> QED BY <2>1, CleanWord
<1>2. BinaryPrompt(x, y) = x \o q \o y \o a
  BY DEF BinaryPrompt
<1> HIDE DEF q, a
<1>3. x \o q \in Seq(Clean)
  BY <1>1, CleanJoin
<1>4. x \o q \o y \in Seq(Clean)
  BY <1>3, CleanJoin
<1>5. x \o q \o y \o a \in Seq(Clean)
  BY <1>1, <1>4, CleanJoin
<1> QED BY <1>2, <1>5

-----------------------------------------------------------------------------
(* Where each prompt is *)

\* Quotient and remainder, and back.
LEMMA Division ==
  ASSUME NEW n \in Nat, n # 0, NEW a \in Nat
  PROVE  a \div n \in Nat /\ a % n \in 0..(n - 1) /\ a = (a \div n) * n + (a % n)
OBVIOUS

\* Quotient and remainder of a multiple and a rest.
LEMMA Quotient ==
  ASSUME NEW n \in Nat, n # 0, NEW x \in Nat, NEW d \in 0..(n - 1)
  PROVE  (x * n + d) \div n = x /\ (x * n + d) % n = d
OBVIOUS

\* Rows of n places: a place is within m rows exactly if its row is.
LEMMA Products ==
  ASSUME NEW n \in Nat, n # 0, NEW m \in Nat, NEW x \in Nat, NEW d \in 0..(n - 1)
  PROVE  x * n + d < m * n <=> x < m
OBVIOUS

\* The places, of m times n, that ask about the i-th of n candidates: every n-th.
Nth(m, n, i) == {j \in 1..(m * n) : (j - 1) % n = i - 1}
\* The same, after the prompts of other questions, and as steps of n.
NthAfter(off, m, n, i) == {off + j : j \in Nth(m, n, i)}
Strides(m, n, i) == {(f - 1) * n + i : f \in 1..m}

\* The places of one candidate are every n-th.
LEMMA EveryNth ==
  ASSUME NEW n \in Nat, n # 0, NEW m \in Nat, NEW i \in 1..n
  PROVE  Nth(m, n, i) = Strides(m, n, i)
<1>1. m * n \in Nat
  OBVIOUS
<1>2. ASSUME NEW j \in 1..(m * n), (j - 1) % n = i - 1
      PROVE  \E f \in 1..m : j = (f - 1) * n + i
  <2> DEFINE x == (j - 1) \div n
             d == i - 1
  <2>1. j - 1 \in Nat /\ j - 1 < m * n
    BY <1>1, <1>2
  <2>2. x \in Nat /\ j - 1 = x * n + d /\ d \in 0..(n - 1)
    BY <1>2, <2>1, Division
  <2> HIDE DEF x
  <2>3. x < m
    BY <2>1, <2>2, Products
  <2>4. x + 1 \in 1..m /\ (x + 1) - 1 = x
    BY <2>2, <2>3
  <2>5. j = x * n + i
    <3>1. x * n \in Nat
      BY <2>2
    <3> QED BY <1>1, <1>2, <2>2, <3>1
  <2> QED BY <2>4, <2>5
<1>3. ASSUME NEW f \in 1..m, NEW j, j = (f - 1) * n + i
      PROVE  j \in 1..(m * n) /\ (j - 1) % n = i - 1
  <2> DEFINE x == f - 1
             d == i - 1
  <2>1. x \in Nat /\ x < m /\ d \in 0..(n - 1)
    OBVIOUS
  <2>2. x * n \in Nat /\ x * n + d < m * n /\ (x * n + d) % n = d
    BY <2>1, Products, Quotient
  <2>3. j = x * n + i
    BY <1>3
  <2> HIDE DEF x
  <2>4. j - 1 = x * n + d /\ j \in 1..(m * n)
    BY <1>1, <2>1, <2>2, <2>3
  <2> QED BY <2>2, <2>4
<1> DEFINE J == {(f - 1) * n + i : f \in 1..m}
<1>4. ASSUME NEW j \in Nth(m, n, i) PROVE j \in J
  <2>1. j \in 1..(m * n) /\ (j - 1) % n = i - 1
    BY <1>4 DEF Nth
  <2> QED BY <1>2, <2>1
<1>5. ASSUME NEW j \in J PROVE j \in Nth(m, n, i)
  <2>1. PICK f \in 1..m : j = (f - 1) * n + i
    BY <1>5
  <2>2. j \in 1..(m * n) /\ (j - 1) % n = i - 1
    BY <1>3, <2>1
  <2> QED BY <2>2 DEF Nth
<1> HIDE DEF J
<1>6. Nth(m, n, i) = J
  BY <1>4, <1>5
<1> QED BY <1>6 DEF J, Strides

\* A prompt as it is asked, and as it is sent.
Askings == [question : Nat, about : Nat, text : Seq(Clean)]

\* A question's prompts: as many as candidates and phrasings, and the j-th asks
\* about the ((j - 1) % n)-th candidate.
LEMMA PromptsOfAre ==
  ASSUME NEW N, Asks(N), NEW k \in Nat
  PROVE  /\ PromptsOf(N, k) \in Seq(Askings)
         /\ Len(PromptsOf(N, k)) = Len(Phrasings(N)) * Candidates(N)
         /\ \A j \in 1..Len(PromptsOf(N, k)) :
              /\ PromptsOf(N, k)[j].question = k
              /\ PromptsOf(N, k)[j].about = FirstCandidate(N) + ((j - 1) % Candidates(N))
<1> DEFINE m == Len(Phrasings(N))
           n == Candidates(N)
           first == FirstCandidate(N)
           asks(j) == Instructions(N, Phrasings(N)[(j - 1) \div n + 1], first + ((j - 1) % n))
           ps == PromptsOf(N, k)
<1>1. n \in Nat /\ n # 0 /\ m \in Nat /\ first \in {1, 2}
  BY CandidatesAre
<1>2. m * n \in Nat
  BY <1>1
<1>3. ps = [j \in 1..(m * n) |-> [question |-> k, about |-> first + ((j - 1) % n), text |-> asks(j)]]
  BY DEF PromptsOf, Phrase, Asked
<1>4. ASSUME NEW j \in 1..(m * n) PROVE asks(j) \in Seq(Clean) /\ first + ((j - 1) % n) \in Nat
  <2> DEFINE f == (j - 1) \div n + 1
             d == (j - 1) % n
             i == first + d
  <2>1. j - 1 \in Nat /\ j - 1 < m * n
    BY <1>2
  <2>2. f - 1 \in Nat /\ f \in Nat /\ d \in 0..(n - 1) /\ j - 1 = (f - 1) * n + d
    <3> DEFINE x == (j - 1) \div n
    <3>1. x \in Nat /\ d \in 0..(n - 1) /\ j - 1 = x * n + d
      BY <1>1, <2>1, Division
    <3> HIDE DEF x, d
    <3>2. (x + 1) - 1 = x /\ x + 1 \in Nat
      BY <3>1
    <3>3. f = x + 1
      BY DEF x
    <3> QED BY <3>1, <3>2, <3>3
  <2> HIDE DEF f, d
  <2>3. f - 1 < m
    BY <1>1, <2>1, <2>2, Products
  <2>4. f \in 1..m /\ i \in first..(first + n - 1) /\ i \in Nat
    BY <1>1, <2>2, <2>3
  <2>5. asks(j) = Instructions(N, Phrasings(N)[f], i)
    BY DEF f, d
  <2>6. i \in About(N)
    BY <2>4 DEF About
  <2> HIDE DEF i
  <2>7. Instructions(N, Phrasings(N)[f], i) \in Seq(Clean)
    BY <2>4, <2>6, CleanInstructions
  <2> QED BY <2>4, <2>5, <2>7 DEF i, d
<1> DEFINE C == Seq(Clean)
<1> HIDE DEF m, n, first, asks, ps, C
<1>5. \A j \in 1..(m * n) :
        [question |-> k, about |-> first + ((j - 1) % n), text |-> asks(j)] \in [question : Nat, about : Nat, text : C]
  BY <1>4 DEF C
<1>6. ps \in [1..(m * n) -> Askings]
  BY <1>3, <1>5 DEF Askings, C
<1>7. ps \in Seq(Askings) /\ Len(ps) = m * n
  BY <1>2, <1>6, MadeSeq
<1>8. \A j \in 1..(m * n) : ps[j].question = k /\ ps[j].about = first + ((j - 1) % n)
  BY <1>3
<1> QED BY <1>7, <1>8 DEF m, n, first, ps

\* The questions of a good request, and the prompts of each.
Blocks(r) == [k \in DOMAIN Questions(r) |-> PromptsOf(Questions(r)[k], k)]
\* How many prompts each question has; a good request.
Sizes(r) == Lens(Blocks(r))
Good(r) == r \in Sent /\ GoodRequest(r.value)

\* A good request's questions ask, and its state can be encoded.
LEMMA QuestionsAsk ==
  ASSUME NEW r, Good(r)
  PROVE  /\ Len(Items(r)) \in Nat /\ Len(Items(r)) # 0
         /\ DOMAIN Questions(r) = 1..Len(Items(r))
         /\ \A k \in 1..Len(Items(r)) : Asks(Questions(r)[k])
         /\ StateText(r) \in Seq(Clean)
<1> DEFINE n == Len(Items(r))
           state == Get(r.value, "state")
<1>1. /\ r \in Sent /\ \A key \in RequestFields : HasKey(r.value, key)
      /\ GoodState(state) /\ GoodQuestions(r)
  BY GoodRequestIs DEF Good
<1>2. HasKey(r.value, "questions") /\ HasKey(r.value, "state")
  BY <1>1 DEF RequestFields
<1>3. /\ n \in Nat /\ DOMAIN Questions(r) = 1..n
      /\ \A k \in 1..n : SentIn(r, Items(r)[k].value)
      /\ \A k \in 1..n : Questions(r)[k] = ToNative(Items(r)[k].key, Items(r)[k].value)
  BY <1>1, <1>2, ItemsOfSent
<1>4. n # 0
  BY <1>1, WireAssumption DEF GoodQuestions
<1>5. \A k \in 1..n : Asks(Questions(r)[k])
  <2>1. \A k \in 1..n : GoodQuestion(Items(r)[k].value)
    BY <1>1 DEF GoodQuestions
  <2> HIDE DEF n
  <2> QED BY <1>3, <2>1, GoodAsks
<1>6. StateText(r) \in Seq(Clean)
  <2>1. SentIn(r, state)
    BY <1>1, <1>2, ItselfSent, FieldSent
  <2> HIDE DEF state
  <2>2. RenderState(state) \in Seq(Clean)
    BY <1>1, <2>1, CleanState
  <2> QED BY <2>2 DEF StateText, state
<1> QED BY <1>3, <1>4, <1>5, <1>6

\* The prompts of each question.
LEMMA BlocksAre ==
  ASSUME NEW r, Good(r)
  PROVE  /\ Blocks(r) \in Seq(Seq(Askings)) /\ Len(Blocks(r)) = Len(Items(r)) /\ DOMAIN Blocks(r) = 1..Len(Items(r))
         /\ Sizes(r) \in [1..Len(Items(r)) -> Nat]
         /\ \A k \in 1..Len(Items(r)) :
              /\ Blocks(r)[k] = PromptsOf(Questions(r)[k], k)
              /\ Sizes(r)[k] = Len(Phrasings(Questions(r)[k])) * Candidates(Questions(r)[k])
              /\ Len(Blocks(r)[k]) = Sizes(r)[k]
<1> DEFINE n == Len(Items(r))
           S == Seq(Askings)
<1>1. n \in Nat /\ DOMAIN Questions(r) = 1..n /\ \A k \in 1..n : Asks(Questions(r)[k]) /\ k \in Nat
  BY QuestionsAsk
<1>2. Blocks(r) = [k \in 1..n |-> PromptsOf(Questions(r)[k], k)]
  BY <1>1 DEF Blocks
<1>3. \A k \in 1..n : /\ PromptsOf(Questions(r)[k], k) \in S
                      /\ Len(PromptsOf(Questions(r)[k], k)) = Len(Phrasings(Questions(r)[k])) * Candidates(Questions(r)[k])
  BY <1>1, PromptsOfAre
<1> HIDE DEF n, S
<1>4. Blocks(r) \in [1..n -> S]
  BY <1>2, <1>3
<1>5. Blocks(r) \in Seq(S) /\ Len(Blocks(r)) = n /\ DOMAIN Blocks(r) = 1..n
  BY <1>1, <1>4, MadeSeq
<1>6. /\ Sizes(r) \in [1..n -> Nat]
      /\ \A k \in 1..n : Sizes(r)[k] = Len(Blocks(r)[k])
  BY <1>5, LensIs DEF S, Sizes
<1>7. \A k \in 1..n : Blocks(r)[k] = PromptsOf(Questions(r)[k], k)
  BY <1>2
<1> QED BY <1>3, <1>5, <1>6, <1>7 DEF n, S

\* Where the prompts of a question are among those of the request.
LEMMA PromptsAre ==
  ASSUME NEW r, Good(r)
  PROVE  /\ Len(Prompts(r)) = SumTo(Sizes(r), Len(Items(r))) /\ Len(Prompts(r)) \in Nat
         /\ DOMAIN Prompts(r) = 1..Len(Prompts(r))
         /\ \A p \in DOMAIN Prompts(r) : Prompts(r)[p].text \in Seq(Clean)
         /\ \A k \in 1..Len(Items(r)) : \A j \in 1..Sizes(r)[k] :
              /\ SumTo(Sizes(r), k - 1) + j \in DOMAIN Prompts(r)
              /\ Prompts(r)[SumTo(Sizes(r), k - 1) + j].question = k
              /\ Prompts(r)[SumTo(Sizes(r), k - 1) + j].about =
                   FirstCandidate(Questions(r)[k]) + ((j - 1) % Candidates(Questions(r)[k]))
<1> DEFINE n == Len(Items(r))
           s == Sizes(r)
           ss == Blocks(r)
           asked == FlattenSeq(ss)
           whole(p) == [p EXCEPT !.text = BinaryPrompt(StateText(r), @)]
<1>1. /\ n \in Nat /\ ss \in Seq(Seq(Askings)) /\ Len(ss) = n /\ DOMAIN ss = 1..n /\ s \in [1..n -> Nat]
      /\ \A k \in 1..n : Len(ss[k]) = s[k]
  BY QuestionsAsk, BlocksAre
<1>2. asked \in Seq(Askings) /\ Flat(ss, asked)
  <2> HIDE DEF ss
  <2> QED BY <1>1, FlattenIs
<1>3. /\ Len(asked) = SumTo(s, n)
      /\ \A k \in 1..n : \A j \in 1..s[k] :
           SumTo(s, k - 1) + j \in 1..Len(asked) /\ asked[SumTo(s, k - 1) + j] = ss[k][j]
  BY <1>1, <1>2 DEF Flat, Sizes
<1>4. Prompts(r) = [p \in DOMAIN asked |-> whole(asked[p])]
  BY DEF Prompts, Blocks
<1>5. DOMAIN asked = 1..Len(asked) /\ Len(asked) \in Nat /\ \A p \in 1..Len(asked) : asked[p] \in Askings
  <2> HIDE DEF asked
  <2> QED BY <1>2, LenProperties, ElementOfSeq
<1>6. \A k \in 1..n : \A j \in 1..s[k] :
        /\ ss[k][j].question = k
        /\ ss[k][j].about = FirstCandidate(Questions(r)[k]) + ((j - 1) % Candidates(Questions(r)[k]))
  <2> SUFFICES ASSUME NEW k \in 1..n, NEW j \in 1..s[k]
               PROVE  /\ ss[k][j].question = k
                      /\ ss[k][j].about = FirstCandidate(Questions(r)[k]) + ((j - 1) % Candidates(Questions(r)[k]))
    OBVIOUS
  <2>1. Asks(Questions(r)[k]) /\ k \in Nat
    BY QuestionsAsk
  <2>2. ss[k] = PromptsOf(Questions(r)[k], k) /\ j \in 1..Len(ss[k])
    BY <1>1, BlocksAre
  <2> HIDE DEF ss
  <2> QED BY <2>1, <2>2, PromptsOfAre
<1>7. ASSUME NEW x \in Askings
      PROVE  whole(x).question = x.question /\ whole(x).about = x.about /\ whole(x).text \in Seq(Clean)
  <2> DEFINE y == BinaryPrompt(StateText(r), x.text)
  <2>1. y \in Seq(Clean)
    BY QuestionsAsk, CleanPrompt DEF Askings
  <2>2. whole(x) = [x EXCEPT !.text = y]
    OBVIOUS
  <2> HIDE DEF y
  <2>3. x = [question |-> x.question, about |-> x.about, text |-> x.text]
    BY DEF Askings
  <2> DEFINE q == x.question
             a == x.about
             t == x.text
  <2> HIDE DEF q, a, t
  <2>4. x = [question |-> q, about |-> a, text |-> t]
    BY <2>3 DEF q, a, t
  <2>5. [x EXCEPT !.text = y] = [question |-> q, about |-> a, text |-> y]
    BY <2>4
  <2>6. whole(x) = [question |-> q, about |-> a, text |-> y]
    BY <2>2, <2>5
  <2> QED BY <2>1, <2>6 DEF q, a
<1> HIDE DEF whole, asked, n, s, ss
<1>8. DOMAIN Prompts(r) = 1..Len(asked) /\ Len(Prompts(r)) = Len(asked)
      /\ \A p \in 1..Len(asked) : Prompts(r)[p] = whole(asked[p])
  <2>1. Prompts(r) = [p \in 1..Len(asked) |-> whole(asked[p])]
    BY <1>4, <1>5
  <2> DEFINE l == Len(asked)
  <2> HIDE DEF l
  <2>2. DOMAIN Prompts(r) = 1..l /\ \A p \in 1..l : Prompts(r)[p] = whole(asked[p])
    BY <2>1 DEF l
  <2>3. Len(Prompts(r)) = l
    BY <1>5, <2>2 DEF l
  <2> QED BY <2>2, <2>3 DEF l
<1>9. \A p \in 1..Len(asked) : Prompts(r)[p].text \in Seq(Clean)
  BY <1>5, <1>7, <1>8
<1>10. ASSUME NEW k \in 1..n, NEW j \in 1..s[k]
       PROVE  /\ SumTo(s, k - 1) + j \in DOMAIN Prompts(r)
              /\ Prompts(r)[SumTo(s, k - 1) + j].question = k
              /\ Prompts(r)[SumTo(s, k - 1) + j].about =
                   FirstCandidate(Questions(r)[k]) + ((j - 1) % Candidates(Questions(r)[k]))
  <2> DEFINE p == SumTo(s, k - 1) + j
  <2>1. p \in 1..Len(asked) /\ asked[p] = ss[k][j]
    BY <1>3
  <2> HIDE DEF p
  <2>2. Prompts(r)[p] = whole(asked[p]) /\ asked[p] \in Askings
    BY <1>5, <1>8, <2>1
  <2>3. Prompts(r)[p].question = asked[p].question /\ Prompts(r)[p].about = asked[p].about
    BY <1>7, <2>2
  <2>4. /\ p \in DOMAIN Prompts(r)
        /\ Prompts(r)[p].question = k
        /\ Prompts(r)[p].about = FirstCandidate(Questions(r)[k]) + ((j - 1) % Candidates(Questions(r)[k]))
    BY <1>6, <1>8, <2>1, <2>3
  <2> QED BY <2>4 DEF p
<1> QED BY <1>3, <1>5, <1>8, <1>9, <1>10 DEF n, s

\* Every prompt is one of a question's.
LEMMA PromptIsOf ==
  ASSUME NEW r, Good(r), NEW p \in DOMAIN Prompts(r)
  PROVE  \E k \in 1..Len(Items(r)) : \E j \in 1..Sizes(r)[k] : p = SumTo(Sizes(r), k - 1) + j
<1> DEFINE n == Len(Items(r))
           s == Sizes(r)
<1>1. n \in Nat /\ s \in [1..n -> Nat] /\ p \in 1..SumTo(s, n)
  BY QuestionsAsk, BlocksAre, PromptsAre
<1> HIDE DEF n, s
<1>2. PICK k \in 1..n : p - SumTo(s, k - 1) \in 1..s[k]
  BY <1>1, PlaceInSum
<1>3. SumTo(s, k - 1) \in Nat /\ SumTo(s, n) \in Nat
  <2>1. k - 1 \in 0..n /\ n \in 0..n
    BY <1>1
  <2> QED BY <1>1, <2>1, Sums
<1>4. p = SumTo(s, k - 1) + (p - SumTo(s, k - 1))
  BY <1>1, <1>3
<1> QED BY <1>2, <1>4 DEF n, s

-----------------------------------------------------------------------------
(* What is taken of the answers *)

\* The places of the prompts that follow the first off.
RunFrom(off, m) == [j \in 1..m |-> off + j]

\* A run of places grows at its end.
LEMMA RunGrows ==
  ASSUME NEW off \in Nat, NEW m \in Nat
  PROVE  /\ RunFrom(off, 0) = <<>>
         /\ Append(RunFrom(off, m), off + m + 1) = RunFrom(off, m + 1)
         /\ Len(RunFrom(off, m)) = m /\ \A j \in 1..m : RunFrom(off, m)[j] = off + j
<1>1. ASSUME NEW l \in Nat
      PROVE  RunFrom(off, l) \in Seq(Nat) /\ Len(RunFrom(off, l)) = l /\ \A j \in 1..l : RunFrom(off, l)[j] = off + j
  <2> DEFINE f == RunFrom(off, l)
  <2>1. f \in [1..l -> Nat] /\ \A j \in 1..l : f[j] = off + j
    BY DEF RunFrom
  <2> HIDE DEF f
  <2>2. f \in Seq(Nat) /\ Len(f) = l
    BY <2>1, MadeSeq
  <2> QED BY <2>1, <2>2 DEF f
<1>2. RunFrom(off, 0) = <<>>
  <2>1. RunFrom(off, 0) \in Seq(Nat) /\ Len(RunFrom(off, 0)) = 0
    BY <1>1
  <2> QED BY <2>1, EmptySeq
<1>3. Append(RunFrom(off, m), off + m + 1) = RunFrom(off, m + 1)
  <2> DEFINE a == Append(RunFrom(off, m), off + m + 1)
             b == RunFrom(off, m + 1)
             x == RunFrom(off, m)
             e == off + m + 1
  <2>1. x \in Seq(Nat) /\ Len(x) = m /\ \A j \in 1..m : x[j] = off + j
    BY <1>1
  <2>2. b \in Seq(Nat) /\ Len(b) = m + 1 /\ \A j \in 1..(m + 1) : b[j] = off + j
    BY <1>1
  <2>3. e \in Nat
    OBVIOUS
  <2> HIDE DEF x, b
  <2>4. a \in Seq(Nat) /\ Len(a) = m + 1 /\ (\A j \in 1..m : a[j] = x[j]) /\ a[m + 1] = e
    <3> HIDE DEF e
    <3> DEFINE z == Append(x, e)
    <3>1. /\ z \in Seq(Nat) /\ Len(z) = Len(x) + 1
          /\ (\A j \in 1..Len(x) : z[j] = x[j]) /\ z[Len(x) + 1] = e
      BY <2>1, <2>3, AppendProperties
    <3>2. a = z
      BY DEF x, e
    <3> HIDE DEF z, a
    <3> QED BY <2>1, <3>1, <3>2
  <2> HIDE DEF a
  <2>5. \A j \in 1..(m + 1) : j \in 1..m \/ j = m + 1
    OBVIOUS
  <2>6. \A j \in 1..Len(a) : a[j] = b[j]
    BY <2>1, <2>2, <2>4, <2>5
  <2>7. a = b
    BY <2>2, <2>4, <2>6, SeqEqual
  <2> QED BY <2>7 DEF a, b
<1> QED BY <1>1, <1>2, <1>3

\* How many of the first p lie among the m after off.
Cut(off, m, p) == IF p <= off THEN 0 ELSE IF p <= off + m THEN p - off ELSE m

\* How many of a run are among the first p places.
LEMMA CutIs ==
  ASSUME NEW off \in Nat, NEW m \in Nat, NEW p \in Nat
  PROVE  /\ Cut(off, m, p) \in Nat /\ Cut(off, m, 0) = 0
         /\ p # 0 => /\ p \in (off + 1)..(off + m) => /\ Cut(off, m, p) = Cut(off, m, p - 1) + 1
                                                      /\ p = off + Cut(off, m, p - 1) + 1
                     /\ p \notin (off + 1)..(off + m) => Cut(off, m, p) = Cut(off, m, p - 1)
         /\ p >= off + m => Cut(off, m, p) = m
BY DEF Cut

\* The prompts of a question are found in order if they are a run.
LEMMA AnsweredIs ==
  ASSUME NEW prompts, Len(prompts) \in Nat, NEW k, NEW off \in Nat, NEW m \in Nat, off + m <= Len(prompts),
         \A p \in 1..Len(prompts) : prompts[p].question = k <=> p \in (off + 1)..(off + m)
  PROVE  Answered(prompts, k) = RunFrom(off, m)
<1> DEFINE l == Len(prompts)
           run(p) == RunFrom(off, Cut(off, m, p))
           Is(g) == g = [p \in 0..l |-> IF p = 0 THEN <<>>
                                        ELSE IF prompts[p].question = k THEN Append(g[p - 1], p) ELSE g[p - 1]]
           f == [p \in 0..l |-> run(p)]
<1>1. l \in Nat
  OBVIOUS
<1>2. run(0) = <<>>
  BY RunGrows, CutIs
<1>3. ASSUME NEW p \in 1..l
      PROVE  run(p) = IF prompts[p].question = k THEN Append(run(p - 1), p) ELSE run(p - 1)
  <2> DEFINE c == Cut(off, m, p - 1)
  <2>1. p \in Nat /\ p - 1 \in Nat /\ p # 0
    BY <1>1
  <2>2. c \in Nat
    BY <2>1, CutIs
  <2>3. CASE p \in (off + 1)..(off + m)
    <3>1. Cut(off, m, p) = c + 1 /\ p = off + c + 1
      BY <2>1, <2>3, CutIs
    <3>2. Append(RunFrom(off, c), off + c + 1) = RunFrom(off, c + 1)
      BY <2>2, RunGrows
    <3>3. prompts[p].question = k
      BY <2>3
    <3> QED BY <3>1, <3>2, <3>3
  <2>4. CASE p \notin (off + 1)..(off + m)
    <3>1. Cut(off, m, p) = c
      BY <2>1, <2>4, CutIs
    <3>2. prompts[p].question # k
      BY <2>4
    <3> QED BY <3>1, <3>2
  <2> QED BY <2>3, <2>4
<1>4. Answered(prompts, k) = (CHOOSE g : Is(g))[l]
  BY DEF Answered
<1> HIDE DEF run, l
<1>5. Is(f)
  <2>1. ASSUME NEW p \in 0..l
        PROVE  f[p] = IF p = 0 THEN <<>> ELSE IF prompts[p].question = k THEN Append(f[p - 1], p) ELSE f[p - 1]
    <3>1. CASE p = 0
      BY <1>2, <3>1
    <3>2. CASE p # 0
      <4>1. p \in 1..l /\ p - 1 \in 0..l
        BY <1>1, <3>2
      <4>2. f[p] = run(p) /\ f[p - 1] = run(p - 1)
        BY <4>1
      <4> HIDE DEF f
      <4> QED BY <1>3, <3>2, <4>1, <4>2
    <3> QED BY <3>1, <3>2
  <2>2. f = [p \in 0..l |-> f[p]]
    OBVIOUS
  <2> HIDE DEF f
  <2> QED BY <2>1, <2>2
<1>6. PICK g : Is(g) /\ Answered(prompts, k) = g[l]
  <2>1. Is(CHOOSE g : Is(g))
    <3> HIDE DEF Is
    <3> QED BY <1>5
  <2> HIDE DEF Is
  <2> QED BY <1>4, <2>1
<1> DEFINE T == {p \in Nat : p <= l => g[p] = run(p)}
<1>7. \A p \in 0..l : g[p] = IF p = 0 THEN <<>> ELSE IF prompts[p].question = k THEN Append(g[p - 1], p) ELSE g[p - 1]
  BY <1>6
<1> HIDE DEF Is
<1>8. 0 \in T
  <2>1. 0 \in 0..l
    BY <1>1
  <2>2. g[0] = <<>>
    BY <1>7, <2>1
  <2> QED BY <1>2, <2>2
<1>9. ASSUME NEW p \in Nat, p \in T PROVE p + 1 \in T
  <2> SUFFICES ASSUME p + 1 <= l PROVE g[p + 1] = run(p + 1)
    OBVIOUS
  <2>1. p + 1 \in 1..l /\ p + 1 \in 0..l /\ p + 1 # 0 /\ (p + 1) - 1 = p /\ g[p] = run(p)
    BY <1>1, <1>9
  <2> QED BY <1>3, <1>7, <2>1
<1> HIDE DEF T
<1>10. \A p \in Nat : p \in T
  BY <1>8, <1>9, Induct
<1>11. g[l] = run(l)
  BY <1>1, <1>10 DEF T
<1>12. Cut(off, m, l) = m
  BY <1>1, CutIs DEF l
<1> QED BY <1>6, <1>11, <1>12 DEF run

\* The prompts of question k are those after the ones before it.
LEMMA BlockIs ==
  ASSUME NEW r, Good(r), NEW k \in 1..Len(Items(r))
  PROVE  /\ SumTo(Sizes(r), k - 1) \in Nat /\ Sizes(r)[k] \in Nat
         /\ SumTo(Sizes(r), k - 1) + Sizes(r)[k] <= Len(Prompts(r))
         /\ \A p \in 1..Len(Prompts(r)) : Prompts(r)[p].question = k <=>
              p \in (SumTo(Sizes(r), k - 1) + 1)..(SumTo(Sizes(r), k - 1) + Sizes(r)[k])
<1> DEFINE n == Len(Items(r))
           s == Sizes(r)
           off == SumTo(s, k - 1)
           m == s[k]
           prompts == Prompts(r)
<1>1. n \in Nat /\ s \in [1..n -> Nat] /\ Len(prompts) = SumTo(s, n) /\ DOMAIN prompts = 1..Len(prompts)
  BY QuestionsAsk, BlocksAre, PromptsAre
<1>2. \A b \in 1..n : \A j \in 1..s[b] : /\ SumTo(s, b - 1) + j \in DOMAIN prompts
                                         /\ prompts[SumTo(s, b - 1) + j].question = b
  BY PromptsAre
<1>3. \A p \in 1..Len(prompts) : \E b \in 1..n : \E j \in 1..s[b] : p = SumTo(s, b - 1) + j
  <2> SUFFICES ASSUME NEW p \in 1..Len(prompts)
               PROVE  \E b \in 1..n : \E j \in 1..s[b] : p = SumTo(s, b - 1) + j
    OBVIOUS
  <2>1. p \in DOMAIN Prompts(r)
    BY <1>1
  <2> QED BY <2>1, PromptIsOf
<1> HIDE DEF n, s, prompts
<1>4. off \in Nat /\ m \in Nat /\ Len(prompts) \in Nat
  <2>1. k - 1 \in 0..n /\ n \in 0..n /\ k \in 1..n
    BY <1>1 DEF n
  <2> QED BY <1>1, <2>1, Sums
<1>5. k \in 1..n
  BY DEF n
<1>6. off + m <= Len(prompts)
  <2>1. k \in 0..n /\ n \in 0..n /\ k <= n
    BY <1>1, <1>5
  <2>2. SumTo(s, k) = off + m
    BY <1>1, <1>5, Sums
  <2>3. SumTo(s, k) <= SumTo(s, n)
    <3> HIDE DEF off, m
    <3> QED BY <1>1, <2>1, SumsGrow
  <2> QED BY <1>1, <2>2, <2>3
<1>7. ASSUME NEW p \in 1..Len(prompts), prompts[p].question = k PROVE p \in (off + 1)..(off + m)
  <2>1. PICK b \in 1..n : \E j \in 1..s[b] : p = SumTo(s, b - 1) + j
    BY <1>3
  <2>2. PICK j \in 1..s[b] : p = SumTo(s, b - 1) + j
    BY <2>1
  <2>3. b = k
    BY <1>2, <1>7, <2>2
  <2> QED BY <1>4, <2>2, <2>3
<1>8. ASSUME NEW p \in 1..Len(prompts), p \in (off + 1)..(off + m) PROVE prompts[p].question = k
  <2>1. p - off \in 1..m /\ p = off + (p - off)
    BY <1>4, <1>8
  <2> QED BY <1>2, <1>5, <2>1
<1> QED BY <1>4, <1>6, <1>7, <1>8 DEF s, prompts

\* What the candidates' means are taken over, of a run of n candidates in m phrasings.
LEMMA MeansAre ==
  ASSUME NEW N, Candidates(N) \in Nat, Candidates(N) # 0, NEW m \in Nat, NEW off \in Nat
  PROVE  /\ DOMAIN Means(N, RunFrom(off, m * Candidates(N))) = 1..Candidates(N)
         /\ \A i \in 1..Candidates(N) :
              Means(N, RunFrom(off, m * Candidates(N)))[i] =
                NthAfter(off, m, Candidates(N), i)
<1> DEFINE n == Candidates(N)
           ps == RunFrom(off, m * n)
<1>1. n \in Nat /\ n # 0 /\ m * n \in Nat
  OBVIOUS
<1>2. Len(ps) = m * n /\ \A j \in 1..(m * n) : ps[j] = off + j
  BY <1>1, RunGrows
<1>3. (m * n) \div n = m
  <2>1. 0 \in 0..(n - 1) /\ m * n + 0 = m * n
    BY <1>1
  <2>2. (m * n + 0) \div n = m
    BY <1>1, <2>1, Quotient
  <2> QED BY <2>1, <2>2
<1>4. Means(N, ps) = [i \in 1..n |-> {ps[(f - 1) * n + i] : f \in 1..(Len(ps) \div n)}]
  BY DEF Means
<1>5. Len(ps) \div n = m
  BY <1>2, <1>3
<1> HIDE DEF n, ps
<1>6. DOMAIN Means(N, ps) = 1..n
      /\ \A i \in 1..n : Means(N, ps)[i] = {ps[(f - 1) * n + i] : f \in 1..m}
  BY <1>4, <1>5
<1>7. ASSUME NEW i \in 1..n
      PROVE  {ps[(f - 1) * n + i] : f \in 1..m} = {off + j : j \in Nth(m, n, i)}
  <2> DEFINE J == Nth(m, n, i)
             here(f) == (f - 1) * n + i
  <2>1. J = {here(f) : f \in 1..m}
    <3> HIDE DEF J, here
    <3>1. n \in Nat /\ n # 0 /\ m \in Nat
      BY <1>1
    <3>2. Nth(m, n, i) = Strides(m, n, i)
      BY <3>1, EveryNth
    <3> QED BY <3>2 DEF J, here, Strides
  <2>2. \A j \in J : ps[j] = off + j
    BY <1>2 DEF Nth
  <2> HIDE DEF J, here
  <2>3. {ps[here(f)] : f \in 1..m} = {ps[j] : j \in J}
    BY <2>1
  <2>4. {ps[here(f)] : f \in 1..m} = {off + j : j \in J}
    BY <2>2, <2>3
  <2> QED BY <2>4 DEF J, here
<1> QED BY <1>6, <1>7 DEF n, ps, NthAfter

\* What a candidate's mean is taken over are the prompts that asked about it.
LEMMA AnswersAre ==
  ASSUME NEW r, Good(r), NEW k \in DOMAIN Questions(r), NEW i \in DOMAIN Answers(r)[k]
  PROVE  Answers(r)[k][i] = {p \in DOMAIN Prompts(r) : /\ Prompts(r)[p].question = k
                                                       /\ Prompts(r)[p].about = FirstCandidate(Questions(r)[k]) + i - 1}
<1> DEFINE N == Questions(r)[k]
           n == Candidates(N)
           m == Len(Phrasings(N))
           first == FirstCandidate(N)
           off == SumTo(Sizes(r), k - 1)
           prompts == Prompts(r)
           J == Nth(m, n, i)
<1>1. k \in 1..Len(Items(r)) /\ Asks(N)
  BY QuestionsAsk
<1>2. n \in Nat /\ n # 0 /\ m \in Nat /\ first \in Nat
  <2> HIDE DEF N
  <2>1. FirstCandidate(N) \in {1, 2}
    BY <1>1, CandidatesAre
  <2> QED BY <1>1, <2>1, CandidatesAre
<1>3. Sizes(r)[k] = m * n
  BY <1>1, BlocksAre
<1>4. /\ off \in Nat /\ m * n \in Nat /\ off + m * n <= Len(prompts) /\ Len(prompts) \in Nat
      /\ \A p \in 1..Len(prompts) : prompts[p].question = k <=> p \in (off + 1)..(off + m * n)
      /\ DOMAIN prompts = 1..Len(prompts)
  BY <1>1, <1>3, BlockIs, PromptsAre
<1>5. Answered(prompts, k) = RunFrom(off, m * n)
  <2> DEFINE l == m * n
  <2> HIDE DEF l, off, prompts
  <2>1. Answered(prompts, k) = RunFrom(off, l)
    BY <1>4, AnsweredIs DEF l
  <2> QED BY <2>1 DEF l
<1>6. Answers(r)[k] = Means(N, RunFrom(off, m * n))
  BY <1>5 DEF Answers
<1>7. i \in 1..n /\ Answers(r)[k][i] = {off + j : j \in J}
  <2> HIDE DEF N, off
  <2>1. i \in DOMAIN Means(N, RunFrom(off, m * n))
    BY <1>6
  <2>2. i \in 1..n
    BY <1>2, <1>4, <2>1, MeansAre
  <2>3. Means(N, RunFrom(off, m * n))[i] = NthAfter(off, m, n, i)
    BY <1>2, <1>4, <2>2, MeansAre
  <2> QED BY <1>6, <2>2, <2>3 DEF NthAfter
<1>8. \A j \in 1..(m * n) : prompts[off + j].about = first + ((j - 1) % n)
  BY <1>1, <1>3, PromptsAre
<1> HIDE DEF N, n, m, first, off, prompts
<1>9. \A j \in 1..(m * n) : (j - 1) % n \in 0..(n - 1)
  <2> SUFFICES ASSUME NEW j \in 1..(m * n) PROVE (j - 1) % n \in 0..(n - 1)
    OBVIOUS
  <2>1. j - 1 \in Nat
    OBVIOUS
  <2> QED BY <1>2, <2>1, Division
<1>10. ASSUME NEW p \in {off + j : j \in J}
       PROVE  p \in DOMAIN prompts /\ prompts[p].question = k /\ prompts[p].about = first + i - 1
  <2>1. PICK j \in 1..(m * n) : (j - 1) % n = i - 1 /\ p = off + j
    BY <1>10 DEF Nth
  <2>2. p \in (off + 1)..(off + m * n) /\ p \in 1..Len(prompts)
    <3> DEFINE l == m * n
    <3> HIDE DEF l
    <3>1. l \in Nat /\ off + l <= Len(prompts) /\ j \in 1..l
      BY <1>4, <2>1 DEF l
    <3>2. p \in (off + 1)..(off + l) /\ p \in 1..Len(prompts)
      BY <1>4, <2>1, <3>1
    <3> QED BY <3>2 DEF l
  <2>3. prompts[p].about = first + (i - 1)
    BY <1>8, <2>1
  <2> QED BY <1>2, <1>4, <1>7, <2>2, <2>3
<1>11. ASSUME NEW p \in DOMAIN prompts, prompts[p].question = k, prompts[p].about = first + i - 1
       PROVE  p \in {off + j : j \in J}
  <2> DEFINE j == p - off
  <2>1. j \in 1..(m * n) /\ p = off + j
    <3> DEFINE l == m * n
    <3>1. p \in (off + 1)..(off + m * n)
      BY <1>4, <1>11
    <3>2. l \in Nat /\ p \in (off + 1)..(off + l)
      BY <1>4, <3>1
    <3> HIDE DEF l
    <3>3. j \in 1..l /\ p = off + j
      BY <1>4, <3>2
    <3> QED BY <3>3 DEF l
  <2> HIDE DEF j
  <2>2. first + ((j - 1) % n) = first + i - 1
    BY <1>8, <1>11, <2>1
  <2>3. (j - 1) % n = i - 1
    <3> DEFINE d == (j - 1) % n
    <3>1. d \in 0..(n - 1)
      BY <1>9, <2>1
    <3> HIDE DEF d
    <3>2. first + d = first + i - 1
      BY <2>2 DEF d
    <3>3. d = i - 1
      BY <1>2, <1>7, <3>1, <3>2
    <3> QED BY <3>3 DEF d
  <2> QED BY <2>1, <2>3 DEF Nth
<1>12. {off + j : j \in J} = {p \in DOMAIN prompts : prompts[p].question = k /\ prompts[p].about = first + i - 1}
  <2> DEFINE K == {off + j : j \in J}
  <2> HIDE DEF K
  <2>1. \A p \in K : p \in DOMAIN prompts /\ prompts[p].question = k /\ prompts[p].about = first + i - 1
    BY <1>10 DEF K
  <2>2. \A p \in DOMAIN prompts : prompts[p].question = k /\ prompts[p].about = first + i - 1 => p \in K
    BY <1>11 DEF K
  <2>3. K = {p \in DOMAIN prompts : prompts[p].question = k /\ prompts[p].about = first + i - 1}
    BY <2>1, <2>2
  <2> QED BY <2>3 DEF K
<1> QED BY <1>7, <1>12 DEF N, first, prompts

-----------------------------------------------------------------------------
(* What the lengths decide *)

\* A good request has a prompt.
LEMMA SomePrompts ==
  ASSUME NEW r, Good(r)
  PROVE  Len(Prompts(r)) >= 1
<1> DEFINE N == Questions(r)[1]
           m == Len(Phrasings(N))
           n == Candidates(N)
<1>1. 1 \in 1..Len(Items(r))
  <2>1. Len(Items(r)) \in Nat /\ Len(Items(r)) # 0
    BY QuestionsAsk
  <2> QED BY <2>1
<1>2. Asks(N)
  BY <1>1, QuestionsAsk
<1> HIDE DEF N
<1>3. m \in Nat /\ n \in Nat /\ m # 0 /\ n # 0
  BY <1>2, CandidatesAre
<1>4. Sizes(r)[1] = m * n
  BY <1>1, BlocksAre DEF N
<1> HIDE DEF m, n
<1>5. m * n \in Nat /\ m * n >= 1
  <2>1. 0 \in 0..(n - 1)
    BY <1>3
  <2>2. m * n \in Nat
    BY <1>3
  <2>3. 0 * n + 0 < m * n
    BY <1>3, <2>1, Products
  <2>4. 0 * n + 0 = 0
    BY <1>3
  <2> QED BY <2>2, <2>3, <2>4
<1>6. /\ SumTo(Sizes(r), 1 - 1) \in Nat
      /\ SumTo(Sizes(r), 1 - 1) + m * n <= Len(Prompts(r))
  BY <1>1, <1>4, BlockIs
<1>7. Len(Prompts(r)) \in Nat
  BY PromptsAre
<1> DEFINE l == m * n
           off == SumTo(Sizes(r), 1 - 1)
<1> HIDE DEF l, off
<1>8. l \in Nat /\ l >= 1 /\ off \in Nat /\ off + l <= Len(Prompts(r))
  BY <1>5, <1>6 DEF l, off
<1> QED BY <1>7, <1>8

\* Every prompt of a good request can be encoded, so no refusal comes of that.
LEMMA AllEncodable ==
  ASSUME NEW r, Good(r)
  PROVE  Unencodable(Prompts(r)) = {} /\ EncodingRefusal(r, Prompts(r)) = None
<1>1. \A p \in DOMAIN Prompts(r) : ~Lone(Prompts(r)[p].text)
  BY PromptsAre, CleanIs
<1>2. Unencodable(Prompts(r)) = {}
  BY <1>1 DEF Unencodable
<1> QED BY <1>2 DEF EncodingRefusal

\* What the lengths decide is what one loop over the prompts would: a state that
\* is too long makes the first prompt too long.
LEMMA LengthsDecide ==
  ASSUME NEW r, Good(r)
  PROVE  IF LengthRefusal(r, Prompts(r)) = None
         THEN LoopResult(r, Prompts(r)) = Success(r)
         ELSE LoopResult(r, Prompts(r)) = LengthRefusal(r, Prompts(r))
<1> DEFINE prompts == Prompts(r)
           l == Len(prompts)
           T == TooLongPrompts(prompts)
<1>1. l \in Nat /\ l >= 1 /\ DOMAIN prompts = 1..l
  BY PromptsAre, SomePrompts
<1>2. /\ Tokens(StateText(r)) \in Nat /\ ctx \in Nat
      /\ \A p \in 1..l : Tokens(prompts[p].text) \in Nat \ {0} /\ Tokens(prompts[p].text) >= Tokens(StateText(r))
  BY <1>1, TokensAssumption, LimitsAssumption DEF Good
<1>3. Unencodable(prompts) = {}
  BY AllEncodable
<1>4. LoopResult(r, prompts) = IF T = {} THEN Success(r) ELSE TooLong(r, prompts[Min(T)].question)
  <2>1. Unencodable(prompts) \union T = T
    BY <1>3
  <2> HIDE DEF T
  <2> QED BY <2>1 DEF LoopResult, T
<1>5. \A k : TooLong(r, k) # None
  BY DEF TooLong, None, Response
<1>6. T = {p \in 1..l : Tokens(prompts[p].text) = 0 \/ Tokens(prompts[p].text) > ctx}
  BY <1>1 DEF TooLongPrompts, Long
<1>7. CASE ~StateFits(r)
  <2>1. Tokens(StateText(r)) > ctx
    BY <1>2, <1>7 DEF StateFits
  <2>2. \A p \in 1..l : Tokens(prompts[p].text) > ctx
    BY <1>2, <2>1
  <2>3. T = 1..l /\ 1 \in T
    BY <1>1, <1>6, <2>2
  <2>4. Min(T) = 1
    <3>1. T \in SUBSET (1..l) /\ T # {}
      BY <2>3
    <3> HIDE DEF T, l
    <3>2. Min(T) \in T /\ Min(T) <= 1
      BY <1>1, <2>3, <3>1, Ends
    <3> QED BY <1>1, <2>3, <3>2
  <2>5. LengthRefusal(r, prompts) = TooLong(r, prompts[1].question)
    BY <1>7 DEF LengthRefusal
  <2>6. T # {}
    BY <2>3
  <2> HIDE DEF T, prompts
  <2> QED BY <1>4, <1>5, <2>4, <2>5, <2>6 DEF prompts
<1>8. CASE StateFits(r)
  <2>1. LengthRefusal(r, prompts) = IF T = {} THEN None ELSE TooLong(r, prompts[Min(T)].question)
    BY <1>8 DEF LengthRefusal
  <2> HIDE DEF T, prompts
  <2> QED BY <1>4, <1>5, <2>1 DEF prompts
<1> QED BY <1>7, <1>8

-----------------------------------------------------------------------------
(* What is answered *)

\* Errors of the wire model show what their paths lead to; rendering them keeps
\* that, other errors are none, and those of check_wire do.
Points(r, errs) == \A k \in DOMAIN errs : errs[k].wire => PointsAt(r.value, errs[k])

\* Rendering keeps each error at its fault, or replaces all by one about the body.
LEMMA RenderedPoints ==
  ASSUME NEW r, NEW errs, Points(r, errs)
  PROVE  Points(r, Rendered(errs))
<1> DEFINE e == AppErr("value_error", Root, <<>>)
<1>1. Points(r, <<e>>)
  <2>1. ~e.wire
    BY DEF AppErr
  <2> HIDE DEF e
  <2>2. DOMAIN <<e>> = {1} /\ <<e>>[1] = e
    OBVIOUS
  <2> QED BY <2>1, <2>2 DEF Points
<1>2. Rendered(errs) \in {<<e>>, errs}
  BY DEF Rendered
<1> HIDE DEF e
<1> QED BY <1>1, <1>2

\* Errors of no place in the request point nowhere wrong.
LEMMA UnwiredPoints == ASSUME NEW r, NEW errs, Unwired(errs) PROVE Points(r, errs)
BY DEF Unwired, Points

\* The errors of check_wire point at their faults, and there is one exactly if the body is
\* not fine.
LEMMA WiredPoints ==
  ASSUME NEW r \in Sent
  PROVE  /\ Points(r, CheckWireFrom(r.value, 0).errs)
         /\ CheckWireFrom(r.value, 0).errs = <<>> <=> WireFine(r.value)
<1> DEFINE errs == CheckWireFrom(r.value, 0).errs
           F == Faults(r.value)
<1>1. CheckWireFrom(r.value, 0) \in Checks(r.value) /\ (errs = <<>> <=> WireFine(r.value))
  BY SentAssumption, WireIs
<1>2. errs \in Seq(F)
  BY <1>1 DEF Checks
<1>3. \A e \in F : PointsAt(r.value, e)
  BY DEF Faults
<1> HIDE DEF errs, F
<1>4. DOMAIN errs = 1..Len(errs) /\ \A k \in 1..Len(errs) : errs[k] \in F
  BY <1>2, LenProperties, ElementOfSeq
<1>5. Points(r, errs)
  BY <1>3, <1>4 DEF Points
<1> QED BY <1>1, <1>5 DEF errs

\* A response that a request may be sent.
Whys == {"decode", "encoding", "bytes", "key", "wire", "name", "native", "context", "answers", "error"}
\* The responses a request may be answered with: pointing at faults, a refusal of
\* the checks only if it is not good, and what one loop over the prompts would
\* have done if it is.
Answering(r, res) ==
  /\ r \in Sent
  /\ res.why \in Whys /\ Points(r, res.errs)
  /\ res.why \in {"wire", "name", "native"} => ~GoodRequest(r.value)
  /\ res.why \in {"context", "answers"} => Good(r) /\ res = LoopResult(r, Prompts(r))
  /\ res.why = "answers" => res = Success(r)

\* Each kind of response is one of those.
LEMMA RefusalAnswers ==
  ASSUME NEW r \in Sent, NEW code, NEW why \in Whys \ {"wire", "name", "native", "context", "answers"}
  PROVE  Answering(r, Refusal(code, why)) /\ Refusal(code, why).why # "none"
<1> DEFINE res == Refusal(code, why)
<1>1. res.why = why /\ res.errs = <<>>
  BY DEF Refusal, Response
<1> HIDE DEF res
<1>2. Points(r, <<>>)
  BY DEF Points
<1>3. Answering(r, res) /\ res.why # "none"
  BY <1>1, <1>2 DEF Answering, Whys
<1> QED BY <1>3 DEF res

\* A request that is not good may be answered with the errors of a check.
LEMMA UnprocessableAnswers ==
  ASSUME NEW r \in Sent, ~GoodRequest(r.value), NEW why \in {"wire", "name", "native"},
         NEW errs, errs # <<>>, Points(r, errs)
  PROVE  Answering(r, Unprocessable(why, errs))
<1> DEFINE res == Unprocessable(why, errs)
<1>1. res.why = why /\ res.errs = Rendered(errs)
  BY DEF Unprocessable, Response
<1> HIDE DEF res
<1>2. Answering(r, res)
  BY <1>1, RenderedPoints DEF Answering, Whys
<1> QED BY <1>2 DEF res

\* A good request too long for the context may be answered so.
LEMMA TooLongAnswers ==
  ASSUME NEW r, Good(r), NEW k, TooLong(r, k) = LoopResult(r, Prompts(r))
  PROVE  Answering(r, TooLong(r, k))
<1> DEFINE res == TooLong(r, k)
           errs == <<AppErr("value_error", Root, Get(r.value, "questions").items[k].key)>>
<1>1. res.why = "context" /\ res.errs = Rendered(errs)
  BY DEF TooLong, Response
<1>2. Points(r, errs)
  <2>1. Unwired(errs)
    BY AppErrIsUnwired
  <2> HIDE DEF errs
  <2> QED BY <2>1, UnwiredPoints
<1> HIDE DEF res, errs
<1>3. Points(r, res.errs)
  BY <1>1, <1>2, RenderedPoints
<1>4. Answering(r, res)
  BY <1>1, <1>3 DEF Answering, Whys, Good, res
<1> QED BY <1>4 DEF res

\* A good request that fits is answered with its answers.
LEMMA SuccessAnswers ==
  ASSUME NEW r, Good(r), Success(r) = LoopResult(r, Prompts(r))
  PROVE  Answering(r, Success(r))
<1> DEFINE res == Success(r)
<1>1. res.why = "answers" /\ res.errs = <<>>
  BY DEF Success, Response
<1>2. Points(r, <<>>)
  BY DEF Points
<1> HIDE DEF res
<1>3. Answering(r, res)
  BY <1>1, <1>2 DEF Answering, Whys, Good, res
<1> QED BY <1>3 DEF res

-----------------------------------------------------------------------------
(* The handlers *)

\* Where a handler is, and which of these come after each check.
Stages == {"idle", "body", "key", "wire", "name", "native", "encode", "tokens", "score"}
PastWire == {"name", "native", "encode", "tokens", "score"}
PastName == PastWire \ {"name"}
PastNative == PastName \ {"native"}

\* What a handler at a place knows of its request, and the response it last sent.
Fine(st, r, res) ==
  /\ st # "idle" => r \in Sent /\ res = None
  /\ st \in PastWire => WireFine(r.value)
  /\ st \in PastName => NameErrors(r.value) = <<>>
  /\ st \in PastNative => GoodRequest(r.value)
  /\ st = "score" => LengthRefusal(r, Prompts(r)) = None
  /\ res = None \/ Answering(r, res)
\* A function of the handlers.
PerHandler(f) == f = [h \in Handlers |-> f[h]]
\* What every handler knows, wherever it is.
ServerInv ==
  /\ load \in Loads
  /\ PerHandler(stage) /\ PerHandler(request) /\ PerHandler(response)
  /\ \A h \in Handlers : stage[h] \in Stages /\ Fine(stage[h], request[h], response[h])

\* A handler goes on to st, with its request and its response.
Turns(h, st, r, res) == /\ stage' = [stage EXCEPT ![h] = st]
                        /\ request' = [request EXCEPT ![h] = r]
                        /\ response' = [response EXCEPT ![h] = res]

\* d is f but for h.
Changed(f, h, e, d) == d = [f EXCEPT ![h] = e]

\* Nothing but h is changed, and nothing if it is as it was.
LEMMA ChangedAt ==
  ASSUME NEW f, PerHandler(f), NEW h \in Handlers, NEW e, NEW d, Changed(f, h, e, d)
  PROVE  PerHandler(d) /\ d[h] = e /\ \A g \in Handlers : g # h => d[g] = f[g]
<1>1. f = [g \in Handlers |-> f[g]]
  BY DEF PerHandler
<1>2. d = [g \in Handlers |-> IF g = h THEN e ELSE f[g]]
  BY <1>1 DEF Changed
<1>3. d[h] = e /\ \A g \in Handlers : g # h => d[g] = f[g]
  BY <1>2
<1>4. d = [g \in Handlers |-> d[g]]
  BY <1>2
<1> QED BY <1>3, <1>4 DEF PerHandler

\* Giving a handler what it has changes nothing.
LEMMA SameAt ==
  ASSUME NEW f, PerHandler(f), NEW h \in Handlers, NEW e, f[h] = e
  PROVE  f = [f EXCEPT ![h] = e]
<1>1. f = [g \in Handlers |-> f[g]]
  BY DEF PerHandler
<1>2. [f EXCEPT ![h] = e] = [g \in Handlers |-> IF g = h THEN e ELSE f[g]]
  BY <1>1
<1>3. [g \in Handlers |-> IF g = h THEN e ELSE f[g]] = [g \in Handlers |-> f[g]]
  OBVIOUS
<1> QED BY <1>1, <1>2, <1>3

\* A handler that goes on knowing what it has to, keeps the invariant.
LEMMA MovesKeep ==
  ASSUME ServerInv, load' = load, NEW h \in Handlers, NEW st \in Stages, NEW r, NEW res,
         Turns(h, st, r, res), Fine(st, r, res)
  PROVE  ServerInv'
<1>1. PerHandler(stage) /\ PerHandler(request) /\ PerHandler(response) /\ load \in Loads
      /\ \A g \in Handlers : stage[g] \in Stages /\ Fine(stage[g], request[g], response[g])
  BY DEF ServerInv
<1>2. stage' = [stage EXCEPT ![h] = st] /\ request' = [request EXCEPT ![h] = r] /\ response' = [response EXCEPT ![h] = res]
  BY DEF Turns
<1>3. PerHandler(stage') /\ stage'[h] = st /\ \A g \in Handlers : g # h => stage'[g] = stage[g]
  <2>1. PerHandler(stage) /\ Changed(stage, h, st, stage')
    BY <1>1, <1>2 DEF Changed
  <2> QED BY <2>1, ChangedAt
<1>4. PerHandler(request') /\ request'[h] = r /\ \A g \in Handlers : g # h => request'[g] = request[g]
  <2>1. PerHandler(request) /\ Changed(request, h, r, request')
    BY <1>1, <1>2 DEF Changed
  <2> QED BY <2>1, ChangedAt
<1>5. PerHandler(response') /\ response'[h] = res /\ \A g \in Handlers : g # h => response'[g] = response[g]
  <2>1. PerHandler(response) /\ Changed(response, h, res, response')
    BY <1>1, <1>2 DEF Changed
  <2> QED BY <2>1, ChangedAt
<1>6. ASSUME NEW g \in Handlers PROVE stage'[g] \in Stages /\ Fine(stage'[g], request'[g], response'[g])
  <2>1. CASE g = h
    <3>1. stage'[g] = st /\ request'[g] = r /\ response'[g] = res
      BY <1>3, <1>4, <1>5, <2>1
    <3> QED BY <3>1
  <2>2. CASE g # h
    <3>1. stage'[g] = stage[g] /\ request'[g] = request[g] /\ response'[g] = response[g]
      BY <1>3, <1>4, <1>5, <2>2
    <3> QED BY <1>1, <3>1
  <2> QED BY <2>1, <2>2
<1>7. load' \in Loads
  BY <1>1
<1> QED BY <1>3, <1>4, <1>5, <1>6, <1>7 DEF ServerInv

\* So does a check, whether it goes on or answers,
LEMMA CheckKeeps ==
  ASSUME ServerInv, load' = load, request' = request, NEW h \in Handlers, NEW place \in Stages \ {"idle"},
         request[h] \in Sent, response[h] = None, NEW refusal, Check(h, refusal, place),
         refusal # None => Answering(request[h], refusal),
         refusal = None => Fine(place, request[h], None)
  PROVE  ServerInv'
<1>1. PerHandler(request) /\ PerHandler(response)
  BY DEF ServerInv
<1>2. request' = [request EXCEPT ![h] = request[h]]
  BY <1>1, SameAt
<1>3. CASE refusal = None
  <2>1. Advance(h, place)
    BY <1>3 DEF Check
  <2>2. response' = [response EXCEPT ![h] = None]
    BY <1>1, <2>1, SameAt DEF Advance
  <2>3. Turns(h, place, request[h], None)
    BY <1>2, <2>1, <2>2 DEF Turns, Advance
  <2> QED BY <1>3, <2>3, MovesKeep
<1>4. CASE refusal # None
  <2>1. Turns(h, "idle", request[h], refusal)
    BY <1>2, <1>4 DEF Check, Send, Turns
  <2>2. Fine("idle", request[h], refusal) /\ "idle" \in Stages
    BY <1>4 DEF Fine, Stages, PastWire, PastName, PastNative
  <2> QED BY <2>1, <2>2, MovesKeep
<1> QED BY <1>3, <1>4

\* and an answer.
LEMMA SendKeeps ==
  ASSUME ServerInv, load' = load, request' = request, NEW h \in Handlers, NEW res,
         Send(h, res), Answering(request[h], res)
  PROVE  ServerInv'
<1>1. request' = [request EXCEPT ![h] = request[h]]
  BY SameAt DEF ServerInv
<1>2. Turns(h, "idle", request[h], res)
  BY <1>1 DEF Send, Turns
<1>3. Fine("idle", request[h], res) /\ "idle" \in Stages
  BY DEF Fine, Stages, PastWire, PastName, PastNative
<1> QED BY <1>2, <1>3, MovesKeep

\* What a busy handler knows.
LEMMA HandlerIs ==
  ASSUME ServerInv, NEW h \in Handlers, stage[h] # "idle"
  PROVE  /\ request[h] \in Sent /\ response[h] = None
         /\ stage[h] \in PastWire => WireFine(request[h].value)
         /\ stage[h] \in PastName => NameErrors(request[h].value) = <<>>
         /\ stage[h] \in PastNative => Good(request[h])
         /\ stage[h] = "score" => LengthRefusal(request[h], Prompts(request[h])) = None
BY DEF ServerInv, Fine, Good

\* A check without errors refuses nothing.
LEMMA UnprocessableIs == ASSUME NEW why, NEW errs PROVE Unprocessable(why, errs) = None <=> errs = <<>>
BY DEF Unprocessable, None, Response

\* A refusal is not the absence of one.
LEMMA RefusalIs == ASSUME NEW why, NEW code \in {400, 401, 422, 500} PROVE Refusal(code, why) # None
BY DEF Refusal, None, Response

\* Reading the body keeps the invariant.
LEMMA ReadBodyKeeps == ASSUME ServerInv, NEW h \in Handlers, ReadBody(h) PROVE ServerInv'
<1>1. stage[h] = "body" /\ load' = load /\ request' = request
  BY DEF ReadBody, Doing
<1>2. request[h] \in Sent /\ response[h] = None
  BY <1>1, HandlerIs
<1>3. ASSUME NEW code \in {400, 422}, NEW why \in {"decode", "encoding", "bytes"}, Send(h, Refusal(code, why))
      PROVE  ServerInv'
  <2>1. Answering(request[h], Refusal(code, why))
    <3>1. why \in Whys \ {"wire", "name", "native", "context", "answers"}
      BY DEF Whys
    <3> QED BY <1>2, <3>1, RefusalAnswers
  <2> QED BY <1>1, <1>3, <2>1, SendKeeps
<1>4. ASSUME Advance(h, "key") PROVE ServerInv'
  <2>1. Fine("key", request[h], None) /\ "key" \in Stages \ {"idle"}
    BY <1>2 DEF Fine, Stages, PastWire, PastName, PastNative
  <2>2. Check(h, None, "key")
    BY <1>4 DEF Check
  <2> QED BY <1>1, <1>2, <2>1, <2>2, CheckKeeps
<1>5. \/ Send(h, Refusal(422, "decode")) \/ Send(h, Refusal(400, "encoding"))
      \/ Send(h, Refusal(422, "bytes")) \/ Advance(h, "key")
  <2> DEFINE body == request[h].body
             a == Send(h, Refusal(422, "decode"))
             b == Send(h, Refusal(400, "encoding"))
             c == Send(h, Refusal(422, "bytes"))
             d == Advance(h, "key")
  <2>1. (CASE body = "decode" -> a [] body = "encoding" -> b [] body = "bytes" -> c [] OTHER -> d)
    BY DEF ReadBody
  <2> HIDE DEF a, b, c, d, body
  <2>2. a \/ b \/ c \/ d
    BY <2>1
  <2> QED BY <2>2 DEF a, b, c, d
<1> QED BY <1>3, <1>4, <1>5

\* Checking the key keeps the invariant.
LEMMA AuthorizeKeeps == ASSUME ServerInv, NEW h \in Handlers, Authorize(h) PROVE ServerInv'
<1> DEFINE refusal == IF request[h].key THEN None ELSE Refusal(401, "key")
<1>1. stage[h] = "key" /\ load' = load /\ request' = request /\ Check(h, refusal, "wire")
  BY DEF Authorize, Doing
<1>2. request[h] \in Sent /\ response[h] = None
  BY <1>1, HandlerIs
<1>3. "wire" \in Stages \ {"idle"} /\ Fine("wire", request[h], None)
  BY <1>2 DEF Fine, Stages, PastWire, PastName, PastNative
<1>4. refusal # None => Answering(request[h], refusal)
  <2>1. "key" \in Whys \ {"wire", "name", "native", "context", "answers"}
    BY DEF Whys
  <2>2. Answering(request[h], Refusal(401, "key"))
    BY <1>2, <2>1, RefusalAnswers
  <2> QED BY <2>2
<1> HIDE DEF refusal
<1> QED BY <1>1, <1>2, <1>3, <1>4, CheckKeeps

\* check_wire keeps the invariant.
LEMMA CheckWireKeeps == ASSUME ServerInv, NEW h \in Handlers, CheckWire(h) PROVE ServerInv'
<1> DEFINE r == request[h]
           errs == CheckWireFrom(r.value, 0).errs
           refusal == Unprocessable("wire", errs)
<1>1. stage[h] = "wire" /\ load' = load /\ request' = request /\ Check(h, refusal, "name")
  BY DEF CheckWire, Doing, Judged
<1>2. r \in Sent /\ response[h] = None
  BY <1>1, HandlerIs
<1>3. Points(r, errs) /\ (errs = <<>> <=> WireFine(r.value)) /\ (GoodRequest(r.value) => WireFine(r.value))
  BY <1>2, WiredPoints, RequestAgrees DEF Passes
<1> HIDE DEF r, errs
<1>4. refusal # None => Answering(r, refusal)
  BY <1>2, <1>3, UnprocessableIs, UnprocessableAnswers
<1>5. refusal = None => Fine("name", r, None)
  <2>1. refusal = None => WireFine(r.value)
    BY <1>3, UnprocessableIs
  <2> HIDE DEF refusal
  <2> QED BY <1>2, <2>1 DEF Fine, PastName, PastNative
<1>6. "name" \in Stages \ {"idle"}
  BY DEF Stages
<1> HIDE DEF refusal
<1> QED BY <1>1, <1>2, <1>4, <1>5, <1>6, CheckKeeps DEF r

\* Checking the model's name keeps the invariant.
LEMMA CheckNameKeeps == ASSUME ServerInv, NEW h \in Handlers, CheckName(h) PROVE ServerInv'
<1> DEFINE r == request[h]
           errs == NameErrors(r.value)
           refusal == Unprocessable("name", errs)
<1>1. stage[h] = "name" /\ load' = load /\ request' = request /\ Check(h, refusal, "native")
  BY DEF CheckName, Doing
<1>2. r \in Sent /\ response[h] = None /\ WireFine(r.value)
  BY <1>1, HandlerIs DEF PastWire
<1>3. Points(r, errs) /\ (GoodRequest(r.value) => errs = <<>>)
  BY <1>2, NameErrorsAre, UnwiredPoints, RequestAgrees DEF Passes
<1>4. refusal = None => errs = <<>>
  BY UnprocessableIs
<1>5. refusal # None => Answering(r, refusal)
  <2> HIDE DEF r, errs
  <2> QED BY <1>2, <1>3, UnprocessableIs, UnprocessableAnswers
<1>6. refusal = None => Fine("native", r, None)
  <2> HIDE DEF refusal, r
  <2> QED BY <1>2, <1>4 DEF Fine, PastNative, PastName
<1>7. "native" \in Stages \ {"idle"}
  BY DEF Stages
<1> HIDE DEF refusal
<1> QED BY <1>1, <1>2, <1>5, <1>6, <1>7, CheckKeeps DEF r

\* to_native and check_native keep the invariant.
LEMMA TranslateKeeps == ASSUME ServerInv, NEW h \in Handlers, Translate(h) PROVE ServerInv'
<1> DEFINE r == request[h]
           errs == NativeErrors(r)
           refusal == Unprocessable("native", errs)
<1>1. stage[h] = "native" /\ load' = load /\ request' = request /\ Check(h, refusal, "encode")
  BY DEF Translate, Doing
<1>2. r \in Sent /\ response[h] = None /\ WireFine(r.value) /\ NameErrors(r.value) = <<>>
  BY <1>1, HandlerIs DEF PastWire, PastName
<1>3. Points(r, errs) /\ (GoodRequest(r.value) <=> errs = <<>>)
  <2>1. Unwired(errs)
    BY <1>2, NativeIs
  <2>2. GoodRequest(r.value) <=> errs = <<>>
    BY <1>2, RequestAgrees DEF Passes
  <2> HIDE DEF errs, r
  <2> QED BY <2>1, <2>2, UnwiredPoints
<1>4. refusal = None => errs = <<>>
  BY UnprocessableIs
<1>5. refusal # None => Answering(r, refusal)
  <2> HIDE DEF r, errs
  <2> QED BY <1>2, <1>3, UnprocessableIs, UnprocessableAnswers
<1>6. refusal = None => Fine("encode", r, None)
  <2> HIDE DEF refusal, r, errs
  <2> QED BY <1>2, <1>3, <1>4 DEF Fine
<1>7. "encode" \in Stages \ {"idle"}
  BY DEF Stages
<1> HIDE DEF refusal
<1> QED BY <1>1, <1>2, <1>5, <1>6, <1>7, CheckKeeps DEF r

\* Encoding the prompts keeps the invariant.
LEMMA EncodeKeeps == ASSUME ServerInv, NEW h \in Handlers, Encode(h) PROVE ServerInv'
<1> DEFINE r == request[h]
<1>1. stage[h] = "encode" /\ load' = load /\ request' = request /\ Check(h, EncodingRefusal(r, Prompts(r)), "tokens")
  BY DEF Encode, Doing
<1>2. r \in Sent /\ response[h] = None /\ WireFine(r.value) /\ NameErrors(r.value) = <<>> /\ Good(r)
  BY <1>1, HandlerIs DEF PastWire, PastName, PastNative
<1>3. Check(h, None, "tokens")
  BY <1>1, <1>2, AllEncodable
<1>4. Fine("tokens", r, None)
  <2> HIDE DEF r
  <2> QED BY <1>2 DEF Fine, Good
<1>5. "tokens" \in Stages \ {"idle"}
  BY DEF Stages
<1> QED BY <1>1, <1>2, <1>3, <1>4, <1>5, CheckKeeps

\* Tokenizing keeps the invariant.
LEMMA TokenizeKeeps == ASSUME ServerInv, NEW h \in Handlers, Tokenize(h) PROVE ServerInv'
<1> DEFINE r == request[h]
           refusal == LengthRefusal(r, Prompts(r))
<1>1. stage[h] = "tokens" /\ load' = load /\ request' = request /\ Check(h, refusal, "score")
  BY DEF Tokenize, Doing
<1>2. r \in Sent /\ response[h] = None /\ WireFine(r.value) /\ NameErrors(r.value) = <<>> /\ Good(r)
  BY <1>1, HandlerIs DEF PastWire, PastName, PastNative
<1>3. refusal # None => Answering(r, refusal)
  <2>1. refusal # None => refusal = LoopResult(r, Prompts(r))
    BY <1>2, LengthsDecide
  <2>2. refusal # None => \E k : refusal = TooLong(r, k)
    BY DEF LengthRefusal
  <2> HIDE DEF refusal, r
  <2>3. ASSUME NEW k, refusal = TooLong(r, k), refusal = LoopResult(r, Prompts(r)) PROVE Answering(r, refusal)
    BY <1>2, <2>3, TooLongAnswers
  <2> QED BY <2>1, <2>2, <2>3
<1>4. refusal = None => Fine("score", r, None)
  <2> HIDE DEF r
  <2> QED BY <1>2 DEF Fine, Good
<1>5. "score" \in Stages \ {"idle"}
  BY DEF Stages
<1> HIDE DEF refusal
<1> QED BY <1>1, <1>2, <1>3, <1>4, <1>5, CheckKeeps DEF r

\* Any request may be answered with an internal error.
LEMMA ErrorAnswers == ASSUME NEW r \in Sent PROVE Answering(r, InternalError)
<1>1. "error" \in Whys \ {"wire", "name", "native", "context", "answers"}
  BY DEF Whys
<1> QED BY <1>1, RefusalAnswers DEF InternalError

\* A tokenizer that throws keeps the invariant.
LEMMA TokenizeFailsKeeps == ASSUME ServerInv, NEW h \in Handlers, TokenizeFails(h) PROVE ServerInv'
<1>1. stage[h] = "tokens" /\ load' = load /\ request' = request /\ Send(h, InternalError)
  BY DEF TokenizeFails, Doing
<1>2. Answering(request[h], InternalError)
  BY <1>1, HandlerIs, ErrorAnswers
<1> QED BY <1>1, <1>2, SendKeeps

\* Answering keeps the invariant.
LEMMA RespondKeeps == ASSUME ServerInv, NEW h \in Handlers, Respond(h) PROVE ServerInv'
<1> DEFINE r == request[h]
           res == IF answer[h] = "error" THEN InternalError ELSE Success(r)
<1>1. stage[h] = "score" /\ load' = load /\ request' = request /\ Send(h, res)
  BY DEF Respond, Doing
<1>2. r \in Sent /\ Good(r) /\ LengthRefusal(r, Prompts(r)) = None
  BY <1>1, HandlerIs DEF PastWire, PastName, PastNative
<1>3. Answering(r, Success(r)) /\ Answering(r, InternalError)
  <2> HIDE DEF r
  <2>1. Success(r) = LoopResult(r, Prompts(r))
    BY <1>2, LengthsDecide
  <2> QED BY <1>2, <2>1, SuccessAnswers, ErrorAnswers
<1>4. Answering(r, res)
  BY <1>3
<1> HIDE DEF res
<1> QED BY <1>1, <1>4, SendKeeps

\* Taking the next request keeps the invariant.
LEMMA ReceiveKeeps == ASSUME ServerInv, NEW h \in Handlers, NEW r \in load[h], Receive(h, r) PROVE ServerInv'
<1>1. Turns(h, "body", r, None) /\ load' = load
  BY DEF Receive, Turns
<1>2. r \in Sent
  BY DEF ServerInv, Sent
<1>3. Fine("body", r, None) /\ "body" \in Stages
  BY <1>2 DEF Fine, Stages, PastWire, PastName, PastNative
<1> QED BY <1>1, <1>3, MovesKeep

\* The server begins with nothing answered.
LEMMA ServerInvInit == ServerInit => ServerInv
<1> SUFFICES ASSUME ServerInit PROVE ServerInv
  OBVIOUS
<1>1. /\ load \in Loads /\ stage = [h \in Handlers |-> "idle"]
      /\ request = [h \in Handlers |-> Request("value", Null, TRUE)] /\ response = [h \in Handlers |-> None]
  BY DEF ServerInit
<1>2. PerHandler(stage) /\ PerHandler(request) /\ PerHandler(response)
  BY <1>1 DEF PerHandler
<1>3. \A r : Fine("idle", r, None)
  BY DEF Fine, PastWire, PastName, PastNative
<1>4. \A h \in Handlers : stage[h] \in Stages /\ Fine(stage[h], request[h], response[h])
  BY <1>1, <1>3 DEF Stages
<1> QED BY <1>1, <1>2, <1>4 DEF ServerInv

\* Every step of the server keeps the invariant.
LEMMA ServerInvStep == ServerInv /\ [ServerNext]_serverVars => ServerInv'
<1> SUFFICES ASSUME ServerInv, [ServerNext]_serverVars PROVE ServerInv'
  OBVIOUS
<1>1. ASSUME NEW h \in Handlers, HandlerStep(h) PROVE ServerInv'
  BY <1>1, ReadBodyKeeps, AuthorizeKeeps, CheckWireKeeps, CheckNameKeeps, TranslateKeeps, EncodeKeeps,
     TokenizeKeeps, TokenizeFailsKeeps, RespondKeeps DEF HandlerStep
<1>2. ASSUME NEW h \in Handlers, NEW r \in load[h], Receive(h, r) PROVE ServerInv'
  BY <1>2, ReceiveKeeps
<1>3. ASSUME UNCHANGED <<load, stage, request, response>> PROVE ServerInv'
  BY <1>3 DEF ServerInv, PerHandler, Fine
<1>4. CASE ModelAnswers
  BY <1>3, <1>4 DEF ModelAnswers
<1>5. CASE UNCHANGED serverVars
  BY <1>3, <1>5 DEF serverVars
<1> QED BY <1>1, <1>2, <1>4, <1>5 DEF ServerNext

\* At every stage what a handler has kept is its request's: it is right as far as
\* it was checked, and what it is answered with is what a request like it may be.
THEOREM ServerInvHolds == ServerSpec => []ServerInv
BY ServerInvInit, ServerInvStep, PTL DEF ServerSpec

\* The last response of a handler is none, or one its request may be answered
\* with.
LEMMA ResponseIs ==
  ASSUME ServerInv, NEW h \in Handlers
  PROVE  response[h] = None \/ Answering(request[h], response[h])
BY DEF ServerInv, Fine

\* No response has no errors and no answers.
LEMMA NoneIs == None.why = "none" /\ None.errs = <<>> /\ None.answers = <<>>
BY DEF None, Response

\* The checks over all the prompts, the state first, report what one loop over
\* the
\* prompts would have stopped at (Api::systemone).
THEOREM FirstProblemFirstHolds == ServerSpec => []FirstProblemFirst
<1>1. ServerInv => FirstProblemFirst
  <2> SUFFICES ASSUME ServerInv, NEW h \in Handlers, response[h].why \in {"context", "answers"}
               PROVE  response[h] = LoopResult(request[h], Prompts(request[h]))
    BY DEF FirstProblemFirst
  <2>1. response[h] # None
    BY NoneIs
  <2> QED BY <2>1, ResponseIs DEF Answering
<1> QED BY <1>1, ServerInvHolds, PTL

\* Every candidate of every question is answered from the prompts that asked
\* about
\* it, one per phrasing, and from no other (the layout of choose and rate).
THEOREM AnswersWhereAskedHolds == ServerSpec => []AnswersWhereAsked
<1>1. ServerInv => AnswersWhereAsked
  <2> SUFFICES ASSUME ServerInv, NEW h \in Handlers, response[h].why = "answers",
                      NEW k \in DOMAIN Questions(request[h]), NEW i \in DOMAIN response[h].answers[k]
               PROVE  response[h].answers[k][i] =
                        {p \in DOMAIN Prompts(request[h]) :
                           /\ Prompts(request[h])[p].question = k
                           /\ Prompts(request[h])[p].about = FirstCandidate(Questions(request[h])[k]) + i - 1}
    BY DEF AnswersWhereAsked
  <2> DEFINE r == request[h]
  <2>1. response[h] # None
    BY NoneIs
  <2>2. Good(r) /\ response[h] = Success(r)
    BY <2>1, ResponseIs DEF Answering
  <2>3. response[h].answers = Answers(r)
    BY <2>2 DEF Success, Response
  <2>4. k \in DOMAIN Questions(r) /\ i \in DOMAIN Answers(r)[k]
    BY <2>3
  <2> HIDE DEF r
  <2>5. Answers(r)[k][i] = {p \in DOMAIN Prompts(r) : /\ Prompts(r)[p].question = k
                                                      /\ Prompts(r)[p].about = FirstCandidate(Questions(r)[k]) + i - 1}
    BY <2>2, <2>4, AnswersAre
  <2> QED BY <2>3, <2>5 DEF r
<1> QED BY <1>1, ServerInvHolds, PTL

\* A request is accepted exactly if it is what the schema asks for, whatever the
\* thread answered before, and what is accepted can be encoded.
THEOREM VerdictIsRequestsHolds == ServerSpec => []VerdictIsRequests
<1>1. ServerInv => VerdictIsRequests
  <2> SUFFICES ASSUME ServerInv, NEW h \in Handlers
               PROVE  /\ response[h].why # "surrogates"
                      /\ stage[h] = "encode" => GoodRequest(request[h].value)
                      /\ response[h].why \in {"wire", "name", "native"} => ~GoodRequest(request[h].value)
    BY DEF VerdictIsRequests
  <2>1. response[h] = None \/ Answering(request[h], response[h])
    BY ResponseIs
  <2>2. stage[h] = "encode" => GoodRequest(request[h].value)
    BY HandlerIs DEF PastNative, PastName, PastWire, Good
  <2>3. CASE response[h] = None
    BY <2>2, <2>3, NoneIs
  <2>4. CASE Answering(request[h], response[h])
    BY <2>2, <2>4 DEF Answering, Whys
  <2> QED BY <2>1, <2>3, <2>4
<1> QED BY <1>1, ServerInvHolds, PTL

\* The value an error of the wire model shows is one its path leads to, and what
\* is
\* said to be missing is missing there (too_deep, check_structured, check_wire).
THEOREM RefusalsPointAtFaultsHolds == ServerSpec => []RefusalsPointAtFaults
<1>1. ServerInv => RefusalsPointAtFaults
  <2> SUFFICES ASSUME ServerInv, NEW h \in Handlers PROVE Points(request[h], response[h].errs)
    BY DEF RefusalsPointAtFaults, Points
  <2>1. Points(request[h], <<>>)
    BY DEF Points
  <2> QED BY <2>1, ResponseIs, NoneIs DEF Answering
<1> QED BY <1>1, ServerInvHolds, PTL

=============================================================================
