-------------------------- MODULE CliSessionsProofs --------------------------
(***************************************************************************)
(* Type correctness, NoMixing and ConfigWasWritten of CliSessions, for any *)
(* number of processes, certificates, directories, aliases and collisions  *)
(* of session files.                                                       *)
(***************************************************************************)
EXTENDS CliSessions, FiniteSetTheorems, TLAPS

AnyProcess == Process \cup {Idle, Done}

\* A process has a certificate until it comes to config.toml, and cookies of that
\* certificate's business while it works with them.
GoodProcess(k) ==
    /\ k \in AnyProcess
    /\ k.at \in {"load", "verify", "clear", "connect", "save", "saving", "remember", "unlink"}
          => k.entry \in Certs
    /\ k.at \in {"verify", "save", "saving", "remember"} => k.jar = OwnerOf[k.entry]
    /\ k.at \in {"aliases", "open", "write"} => k.conf.text = "toml"
    /\ k.at = "selection" /\ k.cmd = "alias" => k.name \in Names
    /\ k.at \in {"load", "verify", "connect", "save", "saving", "remember"} => k.cmd # "alias"
    /\ k.at = "aliases" => k.name \in Names

\* A whole body names the business whose cookies it holds.
GoodFile(s, f) ==
    /\ f \in Files
    /\ f.is = "body" => f.cert \in Certs /\ SlotOf[f.cert] = s /\ f.owner = OwnerOf[f.cert]

GoodConfig(c) == c \in Configs /\ (c.text # "toml" => c = NoText(c.text))

GoodDisk(d) == d \in [Paths -> Certs] /\ \A q \in Paths : PathOf[d[q]] = q

\* The inductive invariant: it adds to TypeOK what every file and every process
\* must hold for the next one to read.
IInv ==
    /\ GoodDisk(disk)
    /\ GoodConfig(config)
    /\ file \in [Slots -> Files] /\ \A s \in Slots : GoodFile(s, file[s])
    /\ proc \in [Procs -> AnyProcess] /\ \A p \in Procs : GoodProcess(proc[p])
    /\ chosen \in SUBSET Certs
    /\ given \in SUBSET (Names \X Certs)
    /\ lines \in SUBSET (Names \X Certs)
    /\ over \in BOOLEAN

\* A certificate has a path, an owner and a file (domains of the constants).
LEMMA RangeType ==
    ASSUME NEW c \in Certs
    PROVE  PathOf[c] \in Paths /\ OwnerOf[c] \in Owners /\ SlotOf[c] \in Slots
  BY DomainAssumption DEF Paths, Owners, Slots, Range

\* A configuration file without a table says nothing (cert_discovery.py:174-180).
LEMMA NoTextType ==
    ASSUME NEW t \in {"blank", "toml", "garbled"}
    PROVE  NoText(t) \in Configs /\ (t # "toml" => GoodConfig(NoText(t))) /\ NoText(t).text = t
  BY DEF NoText, Configs, GoodConfig

\* The lines of a text name certificates (cert_discovery.py:191-206).
LEMMA LinesType ==
    ASSUME NEW c \in Configs
    PROVE  Lines(c) \in SUBSET (Names \X Certs)
  BY NamesAssumption DEF Configs, Lines

\* What stays behind of lines is a line, or the end of one.
LEMMA TailsType ==
    ASSUME NEW old, NEW C, old \subseteq Names \X C, NEW t \in Tails(old)
    PROVE  t \subseteq Names \X C
  <1> DEFINE cut == UNION {{<<m, l[2]>> : m \in Ends[l[1]]} : l \in old}
  <1>1. cut \subseteq Names \X C
    <2> SUFFICES ASSUME NEW l \in old, NEW m \in Ends[l[1]] PROVE <<m, l[2]>> \in Names \X C
      OBVIOUS
    <2>1. l[1] \in Names /\ l[2] \in C
      OBVIOUS
    <2>2. m \in Names
      BY <2>1, NamesAssumption
    <2> QED
      BY <2>1, <2>2
  <1>2. t \subseteq old \cup cut
    BY DEF Tails
  <1> HIDE DEF cut
  <1> QED
    BY <1>1, <1>2

\* One file is written.
LEMMA WriteFile ==
    ASSUME IInv, NEW s \in Slots, NEW f, GoodFile(s, f), file' = [file EXCEPT ![s] = f]
    PROVE  file' \in [Slots -> Files] /\ \A t \in Slots : GoodFile(t, file'[t])
  BY DEF IInv, GoodFile

\* One process goes on.
LEMMA SetProcess ==
    ASSUME IInv, NEW p \in Procs, NEW k, GoodProcess(k), Set(p, k)
    PROVE  proc' \in [Procs -> AnyProcess] /\ \A r \in Procs : GoodProcess(proc'[r])
  BY DEF IInv, GoodProcess, Set

\* A process that has ended, or not begun, holds nothing.
LEMMA Ended == GoodProcess(Done) /\ GoodProcess(Idle)
  BY DEF GoodProcess, AnyProcess, Idle, Done

\* No file and a half-written file are of no certificate (local_session.py:66-81).
LEMMA EmptyFiles ==
    ASSUME NEW s \in Slots
    PROVE  GoodFile(s, NoFile) /\ GoodFile(s, TornFile)
  BY DEF GoodFile, Files, NoFile, TornFile

\* save_session writes the owner of the certificate into its own file.
LEMMA BodyIsGood ==
    ASSUME NEW c \in Certs
    PROVE  GoodFile(SlotOf[c], Body(c, OwnerOf[c]))
  BY RangeType DEF GoodFile, Files, Body

\* A command that starts has no client yet (cli.py:281-298).
LEMMA FreshIsGood ==
    ASSUME NEW cmd \in {"login", "query", "write", "logout"}, NEW c \in Certs,
           NEW how \in {"company", "choose", "told", "silent"}
    PROVE  /\ GoodProcess(Fresh(cmd, c, how, First(cmd)))
           /\ \A flag \in BOOLEAN :
                 GoodProcess([Fresh(cmd, c, how, First(cmd)) EXCEPT !.flag = flag])
  <1>1. First(cmd) \in {"load", "clear", "connect"}
    BY DEF First
  <1>2. NoText("blank") \in Configs
    BY NoTextType
  <1> QED
    BY <1>1, <1>2 DEF Fresh, GoodProcess, AnyProcess, Process

\* What a name, the remembered choice or the menu resolves to is a certificate that was
\* discovered, or none (cert_discovery.py:259-316).
LEMMA Choice ==
    ASSUME IInv
    PROVE  /\ Usable \subseteq Certs
           /\ \A saved : Selected(saved) \in Certs \cup {NoCert}
           /\ Implicit \in Certs \cup {NoCert}
           /\ \A wish : Resolved(wish) \in Certs \cup {NoCert}
  <1>1. Discovered \subseteq Certs
    BY DEF IInv, GoodDisk, Discovered, Range
  <1>2. Usable \subseteq Certs
    BY <1>1 DEF Usable
  <1>3. \A saved : Selected(saved) \in Certs \cup {NoCert}
    <2> TAKE saved
    <2>1. CASE saved # NoCert
      BY <2>1, <1>2 DEF Selected
    <2>2. CASE saved = NoCert /\ Cardinality(Usable) = 1
      <3>1. Usable # {}
        BY <2>2, FS_EmptySet
      <3> QED
        BY <2>2, <3>1, <1>2 DEF Selected
    <2>3. CASE saved = NoCert /\ Cardinality(Usable) # 1
      BY <2>3 DEF Selected
    <2> QED
      BY <2>1, <2>2, <2>3
  <1>4. Implicit \in Certs \cup {NoCert}
    <2> DEFINE matches == Usable \cap Live
    <2>1. CASE Selected(config.default) # NoCert
      BY <2>1, <1>3 DEF Implicit
    <2>2. CASE Selected(config.default) = NoCert /\ Cardinality(matches) = 1
      <3>1. matches # {} /\ matches \subseteq Certs
        BY <2>2, <1>2, FS_EmptySet
      <3> QED
        BY <2>2, <3>1 DEF Implicit
    <2>3. CASE Selected(config.default) = NoCert /\ Cardinality(matches) # 1
      BY <2>3 DEF Implicit
    <2> QED
      BY <2>1, <2>2, <2>3
  <1>5. \A wish : Resolved(wish) \in Certs \cup {NoCert}
    BY <1>1 DEF Resolved
  <1> QED
    BY <1>2, <1>3, <1>4, <1>5

\* The invariant holds at the start: files and configuration of earlier commands.
LEMMA Initially == Init => IInv
  <1> SUFFICES ASSUME Init PROVE IInv
    OBVIOUS
  <1>1. GoodDisk(disk) /\ GoodConfig(config)
    BY EarlierAssumption DEF Init, GoodDisk, GoodConfig
  <1>2. file \in [Slots -> Files] /\ \A s \in Slots : GoodFile(s, file[s])
    <2>1. \A s \in Slots : GoodFile(s, file[s])
      <3> TAKE s \in Slots
      <3>1. CASE file[s] = NoFile
        BY <3>1, EmptyFiles
      <3>2. CASE file[s] # NoFile
        <4>1. PICK c \in Certs : file[s] = Body(c, OwnerOf[c])
          BY <3>2 DEF Init
        <4>2. SlotOf[c] = s
          BY <4>1, <3>2 DEF Init, Body
        <4> QED
          BY <4>1, <4>2, BodyIsGood
      <3> QED
        BY <3>1, <3>2
    <2> QED
      BY <2>1 DEF Init, GoodFile
  <1>3. proc \in [Procs -> AnyProcess] /\ \A p \in Procs : GoodProcess(proc[p])
    BY Ended DEF Init, AnyProcess
  <1>4. chosen \in SUBSET Certs /\ given \in SUBSET (Names \X Certs)
    BY <1>1 DEF Init, GoodConfig, Configs
  <1>5. lines \in SUBSET (Names \X Certs) /\ over \in BOOLEAN
    BY <1>1, LinesType DEF Init, GoodConfig
  <1> QED
    BY <1>1, <1>2, <1>3, <1>4, <1>5 DEF IInv

\* The variables that a step leaves alone stay good.
LEMMA Kept ==
    ASSUME IInv
    PROVE  /\ disk' = disk => GoodDisk(disk')
           /\ config' = config => GoodConfig(config')
           /\ file' = file => file' \in [Slots -> Files] /\ \A s \in Slots : GoodFile(s, file'[s])
           /\ proc' = proc => proc' \in [Procs -> AnyProcess] /\ \A p \in Procs : GoodProcess(proc'[p])
           /\ chosen' = chosen => chosen' \in SUBSET Certs
           /\ given' = given => given' \in SUBSET (Names \X Certs)
           /\ lines' = lines => lines' \in SUBSET (Names \X Certs)
           /\ over' = over => over' \in BOOLEAN
  BY DEF IInv

\* Choosing a certificate keeps the invariant (pick_certificate, cli.py:119-193).
LEMMA Starts ==
    ASSUME IInv, NEW p \in Procs,
           \/ StartNamed(p) \/ StartPath(p) \/ StartUnnamed(p) \/ StartAlias(p) \/ StartLogout(p)
    PROVE  IInv'
  <1> USE DEF history
  <1>1. CASE StartNamed(p)
    <2>1. PICK cmd \in {"login", "query", "write", "logout"}, wish \in Companies, flag \in BOOLEAN :
             Set(p, IF Resolved(wish) \in Usable
                    THEN [Fresh(cmd, Resolved(wish), "company", First(cmd)) EXCEPT !.flag = flag]
                    ELSE Done)
      BY <1>1 DEF StartNamed
    <2>2. GoodProcess(IF Resolved(wish) \in Usable
                      THEN [Fresh(cmd, Resolved(wish), "company", First(cmd)) EXCEPT !.flag = flag]
                      ELSE Done)
      BY Choice, FreshIsGood, Ended
    <2> QED
      BY <1>1, <2>1, <2>2, SetProcess, Kept DEF StartNamed, IInv
  <1>2. CASE StartPath(p)
    <2>1. PICK cmd \in {"login", "query", "write"}, q \in Paths :
             Set(p, Fresh(cmd, disk[q], "told", First(cmd)))
      BY <1>2 DEF StartPath
    <2>2. disk[q] \in Certs
      BY DEF IInv, GoodDisk
    <2> QED
      BY <1>2, <2>1, <2>2, FreshIsGood, SetProcess, Kept DEF StartPath, IInv
  <1>3. CASE StartUnnamed(p)
    <2>1. PICK cmd \in {"login", "query", "write"}, wish \in {"choose", "nothing"} :
             LET saved == IF wish = "choose" THEN NoCert ELSE config.default
                 c == IF cmd = "query" /\ wish = "nothing" THEN Implicit ELSE Selected(saved)
                 how == IF wish = "choose" THEN "choose" ELSE IF c = NoCert THEN "told" ELSE "silent"
             IN \E d \in IF c = NoCert THEN Usable ELSE {c} :
                   Set(p, Fresh(cmd, d, how, First(cmd)))
      BY <1>3 DEF StartUnnamed
    <2> DEFINE saved == IF wish = "choose" THEN NoCert ELSE config.default
               c == IF cmd = "query" /\ wish = "nothing" THEN Implicit ELSE Selected(saved)
               how == IF wish = "choose" THEN "choose" ELSE IF c = NoCert THEN "told" ELSE "silent"
    <2>2. PICK d \in IF c = NoCert THEN Usable ELSE {c} : Set(p, Fresh(cmd, d, how, First(cmd)))
      BY <2>1
    <2>3. d \in Certs
      <3>1. c \in Certs \cup {NoCert}
        BY Choice
      <3> HIDE DEF c
      <3> QED
        BY <2>2, <3>1, Choice
    <2>4. how \in {"company", "choose", "told", "silent"}
      OBVIOUS
    <2> HIDE DEF how
    <2>5. GoodProcess(Fresh(cmd, d, how, First(cmd)))
      BY <2>3, <2>4, FreshIsGood
    <2> QED
      BY <1>3, <2>2, <2>5, SetProcess, Kept DEF StartUnnamed, IInv
  <1>4. CASE StartAlias(p)
    <2>1. PICK n \in Names, c \in Certs \cup {NoCert} :
             Set(p, [Fresh("alias", c, "told", "selection") EXCEPT !.name = n])
      <3>1. PICK n \in Names :
              \/ \E wish \in Companies :
                    Set(p, [Fresh("alias", Resolved(wish), "told", "selection") EXCEPT !.name = n])
              \/ Set(p, [Fresh("alias", NoCert, "told", "selection") EXCEPT !.name = n])
        BY <1>4 DEF StartAlias
      <3> QED
        BY <3>1, Choice
    <2>2. GoodProcess([Fresh("alias", c, "told", "selection") EXCEPT !.name = n])
      BY NoTextType DEF Fresh, GoodProcess, AnyProcess, Process
    <2> QED
      BY <1>4, <2>1, <2>2, SetProcess, Kept DEF StartAlias, IInv
  <1>5. CASE StartLogout(p)
    <2> DEFINE there == {s \in Slots : file[s].is # "none"}
    <2>1. GoodProcess([Fresh("logout", NoCert, "told", "list") EXCEPT !.todo = there])
      BY NoTextType DEF Fresh, GoodProcess, AnyProcess, Process
    <2> QED
      BY <1>5, <2>1, SetProcess, Kept DEF StartLogout, IInv
  <1> QED
    BY <1>1, <1>2, <1>3, <1>4, <1>5

\* So does every step on the session files: loading, verifying, a login, the two steps of
\* saving, and logout.
LEMMA SessionSteps ==
    ASSUME IInv, NEW p \in Procs,
           \/ Load(p) \/ Verify(p) \/ Clear(p) \/ Connect(p) \/ Save(p) \/ Saving(p)
           \/ List(p) \/ Unlink(p)
    PROVE  IInv'
  <1> USE DEF history
  <1> DEFINE k == proc[p]
             s == SlotOf[k.entry]
  <1>0. GoodProcess(k)
    BY DEF IInv
  <1>a. k.at \in {"load", "verify", "clear", "connect", "save", "saving", "remember", "unlink",
                  "list"}
           => k \in Process
    BY <1>0 DEF GoodProcess, AnyProcess, Idle, Done
  <1>b. k.at \in {"load", "verify", "clear", "connect", "save", "saving", "unlink"}
           => k.entry \in Certs /\ s \in Slots
    BY <1>0, RangeType DEF GoodProcess
  <1>1. CASE Load(p)
    <2> DEFINE f == file[s]
               next == IF UsableBody(f, k.entry) THEN [k EXCEPT !.at = "verify", !.jar = f.owner]
                       ELSE [k EXCEPT !.at = "connect"]
    <2>1. k.at = "load" /\ Set(p, next)
      BY <1>1 DEF Load
    <2>2. f.is = "body" => f.owner = OwnerOf[f.cert] /\ f.owner \in Owners
      BY <2>1, <1>b, RangeType DEF IInv, GoodFile
    <2>3. GoodProcess(next)
      BY <2>1, <2>2, <1>0, <1>a, <1>b DEF GoodProcess, AnyProcess, Process, UsableBody
    <2> QED
      BY <1>1, <2>1, <2>3, SetProcess, Kept DEF Load, IInv
  <1>2. CASE Verify(p)
    <2>1. k.at = "verify"
      BY <1>2 DEF Verify
    <2>2. CASE Set(p, Done) /\ UNCHANGED file
      BY <1>2, <2>2, Ended, SetProcess, Kept DEF Verify, IInv
    <2>3. CASE /\ Set(p, [k EXCEPT !.at = "connect", !.jar = NoOwner])
               /\ file' = [file EXCEPT ![s] = NoFile]
      <3>1. GoodProcess([k EXCEPT !.at = "connect", !.jar = NoOwner])
        BY <2>1, <1>0, <1>a, <1>b DEF GoodProcess, AnyProcess, Process
      <3> QED
        BY <1>2, <2>1, <2>3, <3>1, <1>b, SetProcess, WriteFile, EmptyFiles, Kept DEF Verify, IInv
    <2> QED
      BY <1>2, <2>2, <2>3 DEF Verify
  <1>3. CASE Clear(p)
    BY <1>3, <1>b, Ended, SetProcess, WriteFile, EmptyFiles, Kept DEF Clear, IInv
  <1>4. CASE Connect(p)
    <2> DEFINE c == disk[PathOf[k.entry]]
    <2>1. k.at = "connect"
      BY <1>4 DEF Connect
    <2>2. CASE Set(p, Done)
      BY <1>4, <2>2, Ended, SetProcess, Kept DEF Connect, IInv
    <2>3. CASE Set(p, [k EXCEPT !.at = "save", !.jar = OwnerOf[c]])
      <3>1. c \in Certs /\ PathOf[c] = PathOf[k.entry]
        BY <2>1, <1>b, RangeType DEF IInv, GoodDisk
      <3>2. OwnerOf[c] = OwnerOf[k.entry] /\ OwnerOf[c] \in Owners
        BY <3>1, <2>1, <1>b, RangeType, RenewalAssumption
      <3>3. GoodProcess([k EXCEPT !.at = "save", !.jar = OwnerOf[c]])
        BY <2>1, <3>2, <1>0, <1>a, <1>b DEF GoodProcess, AnyProcess, Process
      <3> QED
        BY <1>4, <2>3, <3>3, SetProcess, Kept DEF Connect, IInv
    <2> QED
      BY <1>4, <2>2, <2>3 DEF Connect
  <1>5. CASE Save(p)
    <2>1. k.at = "save" /\ GoodProcess([k EXCEPT !.at = "saving"])
      BY <1>5, <1>0, <1>a, <1>b DEF Save, GoodProcess, AnyProcess, Process
    <2> QED
      BY <1>5, <2>1, <1>b, SetProcess, WriteFile, EmptyFiles, Kept DEF Save, IInv
  <1>6. CASE Saving(p)
    <2>1. k.at = "saving"
      BY <1>6 DEF Saving
    <2>2. Saved(k) = Body(k.entry, OwnerOf[k.entry])
      BY <2>1, <1>0 DEF GoodProcess, Saved
    <2>3. GoodProcess(IF k.cmd = "write" THEN Done ELSE [k EXCEPT !.at = "remember"])
      BY <2>1, <1>0, <1>a, <1>b, Ended DEF GoodProcess, AnyProcess, Process
    <2>4. CASE Set(p, Done) /\ UNCHANGED file
      BY <1>6, <2>4, Ended, SetProcess, Kept DEF Saving, IInv
    <2>5. CASE \E f \in {Saved(k), file[s], TornFile} :
                  /\ file' = [file EXCEPT ![s] = f]
                  /\ Set(p, IF k.cmd = "write" THEN Done ELSE [k EXCEPT !.at = "remember"])
      <3>1. PICK f \in {Saved(k), file[s], TornFile} :
                  /\ file' = [file EXCEPT ![s] = f]
                  /\ Set(p, IF k.cmd = "write" THEN Done ELSE [k EXCEPT !.at = "remember"])
        BY <2>5
      <3>2. GoodFile(s, file[s])
        BY <2>1, <1>b DEF IInv
      <3>3. GoodFile(s, f)
        BY <2>1, <2>2, <3>1, <3>2, <1>b, BodyIsGood, EmptyFiles
      <3> QED
        BY <1>6, <2>1, <2>3, <3>1, <3>3, <1>b, SetProcess, WriteFile, Kept DEF Saving, IInv
    <2> QED
      BY <1>6, <2>4, <2>5 DEF Saving
  <1>7. CASE List(p)
    <2>1. k.at = "list"
      BY <1>7 DEF List
    <2>2. CASE Set(p, Done)
      BY <1>7, <2>2, Ended, SetProcess, Kept DEF List, IInv
    <2>3. ASSUME NEW t \in k.todo,
                 Set(p, IF file[t].is = "none" THEN [k EXCEPT !.todo = @ \ {t}]
                        ELSE [k EXCEPT !.at = "unlink", !.entry = CHOOSE c \in Certs : SlotOf[c] = t])
          PROVE  IInv'
      <3>1. k \in Process /\ t \in Slots
        BY <2>1, <2>3, <1>a DEF Process
      <3>2. (CHOOSE c \in Certs : SlotOf[c] = t) \in Certs
        <4>1. \E c \in Certs : SlotOf[c] = t
          BY <3>1, DomainAssumption DEF Slots, Range
        <4> QED
          BY <4>1
      <3>3. GoodProcess([k EXCEPT !.todo = @ \ {t}])
        BY <2>1, <3>1 DEF GoodProcess, AnyProcess, Process
      <3>4. GoodProcess([k EXCEPT !.at = "unlink", !.entry = CHOOSE c \in Certs : SlotOf[c] = t])
        BY <2>1, <3>1, <3>2 DEF GoodProcess, AnyProcess, Process
      <3> QED
        BY <1>7, <2>3, <3>3, <3>4, SetProcess, Kept DEF List, IInv
    <2> QED
      BY <1>7, <2>2, <2>3 DEF List
  <1>8. CASE Unlink(p)
    <2>1. k.at = "unlink" /\ k \in Process
      BY <1>8, <1>a DEF Unlink
    <2>2. GoodProcess([k EXCEPT !.at = "list", !.todo = @ \ {s}, !.entry = NoCert])
      BY <2>1 DEF GoodProcess, AnyProcess, Process
    <2> QED
      BY <1>8, <2>1, <2>2, <1>b, Ended, SetProcess, WriteFile, EmptyFiles, Kept DEF Unlink, IInv
  <1> QED
    BY <1>1, <1>2, <1>3, <1>4, <1>5, <1>6, <1>7, <1>8

\* So does reading, changing and writing the configuration (cert_discovery.py:174-251).
LEMMA ConfigSteps ==
    ASSUME IInv, NEW p \in Procs,
           \/ Agree(p) \/ Disagree(p) \/ Selection(p) \/ Aliases(p) \/ Open(p) \/ Write(p)
    PROVE  IInv'
  <1> USE DEF history
  <1> DEFINE k == proc[p]
  <1>0. GoodProcess(k)
    BY DEF IInv
  <1>a. k.at \in {"remember", "selection", "aliases", "open", "write"} => k \in Process
    BY <1>0 DEF GoodProcess, AnyProcess, Idle, Done
  <1>b. config \in Configs /\ (config.text # "toml" => config = NoText(config.text))
    BY DEF IInv, GoodConfig
  <1>1. CASE Agree(p)
    <2>1. k.at = "remember" /\ k \in Process /\ k.entry \in Certs
      BY <1>1, <1>0, <1>a DEF Agree, GoodProcess
    <2>2. GoodProcess([k EXCEPT !.at = "selection"]) \/ k.cmd = "alias"
      BY <2>1 DEF GoodProcess, AnyProcess, Process
    <2>3. k.cmd # "alias"
      BY <2>1, <1>0 DEF GoodProcess
    <2>4. chosen' \in SUBSET Certs
      BY <1>1, <2>1 DEF Agree, IInv
    <2> QED
      BY <1>1, <2>2, <2>3, <2>4, SetProcess, Kept DEF Agree, IInv
  <1>2. CASE Disagree(p)
    BY <1>2, Ended, SetProcess, Kept DEF Disagree, IInv
  <1>3. CASE Selection(p)
    <2> DEFINE read == [config EXCEPT !.text = "toml"]
               next == IF k.cmd = "alias" THEN [k EXCEPT !.at = "aliases", !.conf = read]
                       ELSE [k EXCEPT !.at = "open", !.conf = [read EXCEPT !.default = k.entry]]
    <2>1. k.at = "selection" /\ k \in Process /\ Set(p, next)
      BY <1>3, <1>a DEF Selection
    <2>2. read \in Configs /\ read.text = "toml"
      BY <1>b DEF Configs
    <2>3. [read EXCEPT !.default = k.entry] \in Configs
      BY <2>1, <2>2 DEF Process, Configs
    <2>4. [read EXCEPT !.default = k.entry].text = "toml"
      BY <2>2, <2>3 DEF Configs
    <2> HIDE DEF read
    <2>5. GoodProcess(next)
      BY <2>1, <2>2, <2>3, <2>4, <1>0 DEF GoodProcess, AnyProcess, Process
    <2> QED
      BY <1>3, <2>1, <2>5, SetProcess, Kept DEF Selection, IInv
  <1>4. CASE Aliases(p)
    <2> DEFINE all == [config.aliases EXCEPT ![k.name] = k.entry]
               conf == [k.conf EXCEPT !.aliases = all]
    <2>1. k.at = "aliases" /\ k \in Process /\ k.name \in Names /\ k.conf.text = "toml"
      BY <1>4, <1>0, <1>a DEF Aliases, GoodProcess
    <2>2. all \in [Names -> Certs \cup {NoCert}]
      BY <2>1, <1>b DEF Process, Configs
    <2>3. conf \in Configs /\ conf.text = "toml"
      BY <2>1, <2>2 DEF Process, Configs
    <2>4. [k EXCEPT !.at = "open", !.conf.aliases = all] = [k EXCEPT !.at = "open", !.conf = conf]
      BY <2>1 DEF Process
    <2> HIDE DEF conf
    <2>5. GoodProcess([k EXCEPT !.at = "open", !.conf = conf])
      BY <2>1, <2>3 DEF GoodProcess, AnyProcess, Process
    <2>6. given' \in SUBSET (Names \X Certs)
      <3>1. k.entry \in Certs \cup {NoCert}
        BY <2>1 DEF Process
      <3>2. k.entry = NoCert => given' = given
        BY <1>4 DEF Aliases
      <3>3. k.entry # NoCert => given' = given \cup {<<k.name, k.entry>>}
        BY <1>4 DEF Aliases
      <3> QED
        BY <2>1, <3>1, <3>2, <3>3 DEF IInv
    <2> QED
      BY <1>4, <2>4, <2>5, <2>6, SetProcess, Kept DEF Aliases, IInv
  <1>5. CASE Open(p)
    <2>1. GoodConfig(NoText("blank"))
      BY NoTextType
    <2>2. GoodProcess([k EXCEPT !.at = "write"])
      BY <1>5, <1>0, <1>a DEF Open, GoodProcess, AnyProcess, Process
    <2>3. lines' \in SUBSET (Names \X Certs)
      BY <1>5 DEF Open
    <2> QED
      BY <1>5, <2>1, <2>2, <2>3, SetProcess, Kept DEF Open, IInv
  <1>6. CASE Write(p)
    <2>1. k \in Process /\ k.conf.text = "toml"
      BY <1>6, <1>0, <1>a DEF Write, GoodProcess
    <2>2. k.conf \in Configs
      BY <2>1 DEF Process
    <2>3. GoodConfig(k.conf) /\ Lines(k.conf) \in SUBSET (Names \X Certs)
      BY <2>1, <2>2, LinesType DEF GoodConfig
    <2>4. GoodConfig(config') /\ lines' \in SUBSET (Names \X Certs)
      <3>1. CASE config' = k.conf /\ lines' = Lines(k.conf)
        BY <3>1, <2>3
      <3>2. CASE UNCHANGED <<config, lines>>
        BY <3>2 DEF IInv
      <3>3. ASSUME NEW t \in Tails(lines), lines' = Lines(k.conf) \cup t,
                   config' \in Overwritten(k.conf, t)
            PROVE  GoodConfig(config') /\ lines' \in SUBSET (Names \X Certs)
        <4>1. t \subseteq Names \X Certs
          BY TailsType DEF IInv
        <4>2. \A a \in [Names -> Certs \cup {NoCert}] : GoodConfig([k.conf EXCEPT !.aliases = a])
          BY <2>1, <2>2 DEF GoodConfig, Configs
        <4>3. config' = NoText("garbled")
              \/ \E a \in [Names -> Certs \cup {NoCert}] : config' = [k.conf EXCEPT !.aliases = a]
          BY <3>3 DEF Overwritten
        <4> QED
          BY <2>3, <3>3, <4>1, <4>2, <4>3, NoTextType
      <3> QED
        BY <1>6, <3>1, <3>2, <3>3 DEF Write
    <2>5. over' \in BOOLEAN
      BY <1>6 DEF Write
    <2> QED
      BY <1>6, <2>4, <2>5, Ended, SetProcess, Kept DEF Write, IInv
  <1> QED
    BY <1>1, <1>2, <1>3, <1>4, <1>5, <1>6

\* So do a renewal of certificates and the end of a session.
LEMMA WorldSteps ==
    ASSUME IInv,
           (\E q \in Paths : Renew(q)) \/ (\E s \in Slots : Expire(s))
    PROVE  IInv'
  <1> USE DEF history
  <1>1. ASSUME NEW q \in Paths, Renew(q) PROVE IInv'
    <2>1. GoodDisk(disk')
      BY <1>1 DEF Renew, IInv, GoodDisk
    <2> QED
      BY <1>1, <2>1, Kept DEF Renew, IInv
  <1>2. ASSUME NEW s \in Slots, Expire(s) PROVE IInv'
    <2> DEFINE f == [file[s] EXCEPT !.live = FALSE]
    <2>0. GoodFile(s, file[s])
      BY DEF IInv
    <2>1. GoodFile(s, f)
      <3>1. file[s] \in Files
        BY <2>0 DEF GoodFile
      <3>2. f \in Files
        BY <3>1 DEF Files
      <3>3. f.is = file[s].is /\ f.cert = file[s].cert /\ f.owner = file[s].owner
        BY <3>1 DEF Files
      <3> QED
        BY <2>0, <3>2, <3>3 DEF GoodFile
    <2>2. file' = [file EXCEPT ![s] = f]
      BY <1>2 DEF Expire
    <2> QED
      BY <1>2, <2>1, <2>2, WriteFile, Kept DEF Expire, IInv
  <1> QED
    BY <1>1, <1>2

\* Every step keeps the invariant.
LEMMA Preserved == IInv /\ [Next]_vars => IInv'
  <1> SUFFICES ASSUME IInv, [Next]_vars PROVE IInv'
    OBVIOUS
  <1>1. CASE UNCHANGED vars
    BY <1>1, Kept DEF vars, IInv
  <1>2. ASSUME NEW p \in Procs, Step(p) PROVE IInv'
    BY <1>2, Starts, SessionSteps, ConfigSteps DEF Step
  <1> QED
    BY <1>1, <1>2, WorldSteps DEF Next

\* The strengthening of both properties holds always.
THEOREM Invariance == Spec => []IInv
  BY Initially, Preserved, PTL DEF Spec

\* The files, the configuration and the processes are what TypeOK says: in every
\* file a whole body is one of a certificate that has this file (session_path), and
\* a configuration that cannot be read says nothing.
THEOREM TypeCorrect == Spec => []TypeOK
  <1>1. IInv => TypeOK
    BY DEF IInv, TypeOK, GoodDisk, GoodConfig, GoodFile, AnyProcess
  <1> QED
    BY <1>1, Invariance, PTL

\* Whatever the processes do to the shared files, and whichever certificates share
\* one, a command works with cookies of the business of its certificate.
THEOREM DataStayApart == Spec => []NoMixing
  <1>1. IInv => NoMixing
    BY DEF IInv, NoMixing, GoodProcess
  <1> QED
    BY <1>1, Invariance, PTL

-----------------------------------------------------------------------------
(***************************************************************************)
(* What config.toml says was agreed to by a user                           *)
(***************************************************************************)
\* A configuration says only what is in C, the certificates agreed to, and G, what an
\* alias may stand for.
Known(c, C, G) ==
    /\ c.default \in C \cup {NoCert}
    /\ \A n \in Names : c.aliases[n] # NoCert => <<n, c.aliases[n]>> \in G

\* A process writes what it was told, over what it has read: between the two reads
\* of alias only the default has been read.
KnownProcess(k, C, G) ==
    /\ k.at \in {"open", "write"} => Known(k.conf, C, G)
    /\ k.at = "aliases" => k.conf.default \in C \cup {NoCert}
    /\ k.at = "selection" /\ k.cmd # "alias" => k.entry \in C

\* The certificates that a user gave to some name or chose.
Meant == chosen \cup {g[2] : g \in given}

\* ConfigWasWritten is not inductive: a process may write what it has read long ago,
\* and lines that cannot be read may be read again when the text before them changes.
WInv ==
    /\ Known(config, chosen, Sayable)
    /\ \A p \in Procs : KnownProcess(proc[p], chosen, Sayable)
    /\ lines \subseteq Names \X Meant

\* What was agreed to stays agreed to.
LEMMA KnownGrows ==
    ASSUME NEW C, NEW G, NEW D, NEW H, C \subseteq D, G \subseteq H
    PROVE  /\ \A c : Known(c, C, G) => Known(c, D, H)
           /\ \A k : KnownProcess(k, C, G) => KnownProcess(k, D, H)
  BY DEF Known, KnownProcess

\* An alias stands for a certificate that was meant, for what else it may stand for.
LEMMA SayableIsMeant == IInv => Sayable \subseteq Names \X Meant
  <1> SUFFICES ASSUME IInv PROVE Sayable \subseteq Names \X Meant
    OBVIOUS
  <1>1. CASE over
    BY <1>1 DEF Sayable, Meant
  <1>2. CASE ~over
    <2>1. ASSUME NEW g \in given PROVE g \in Names \X Meant
      BY <2>1 DEF IInv, Meant
    <2> QED
      BY <1>2, <2>1 DEF Sayable
  <1> QED
    BY <1>1, <1>2

\* Nothing that may be said is forbidden later.
LEMMA SayableGrows ==
    ASSUME IInv, chosen \subseteq chosen', given \subseteq given', over => over'
    PROVE  Sayable \subseteq Sayable' /\ Meant \subseteq Meant'
  <1>1. Meant \subseteq Meant'
    BY DEF Meant
  <1>2. CASE over'
    <2>1. Sayable' = Names \X Meant'
      BY <1>2 DEF Sayable, Meant
    <2> QED
      BY <1>1, <2>1, SayableIsMeant
  <1>3. CASE ~over'
    BY <1>1, <1>3 DEF Sayable
  <1> QED
    BY <1>1, <1>2, <1>3

\* One process goes on, and the others with what they hold.
LEMMA KnownSet ==
    ASSUME IInv, WInv, NEW p \in Procs, NEW k, Set(p, k), chosen \subseteq chosen',
           given \subseteq given', over => over', KnownProcess(k, chosen', Sayable'),
           Known(config', chosen', Sayable'), lines' \subseteq Names \X Meant'
    PROVE  WInv'
  <1>1. Sayable \subseteq Sayable'
    BY SayableGrows
  <1>2. \A r \in Procs : KnownProcess(proc'[r], chosen', Sayable')
    BY <1>1, KnownGrows DEF WInv, Set, IInv
  <1> QED
    BY <1>2 DEF WInv

\* A process that goes on and leaves the configuration and the history alone.
LEMMA KnownWait ==
    ASSUME IInv, WInv, NEW p \in Procs, NEW k, Set(p, k), UNCHANGED <<config, lines, history>>,
           KnownProcess(k, chosen, Sayable)
    PROVE  WInv'
  <1>1. Sayable' = Sayable /\ Meant' = Meant
    BY DEF history, Sayable, Meant
  <1> QED
    BY <1>1, KnownSet DEF history, WInv

\* A process that is not about to write config.toml.
LEMMA OutOfConfig ==
    ASSUME NEW k, k.at \notin {"open", "write", "aliases", "selection"}, NEW C, NEW G
    PROVE  KnownProcess(k, C, G)
  BY DEF KnownProcess

\* A blank or garbled file says nothing.
LEMMA NoTextKnown ==
    ASSUME NEW t, NEW C, NEW G
    PROVE  Known(NoText(t), C, G)
  BY DEF Known, NoText

\* What is left on the disk was agreed to when it was written.
LEMMA KnownAtFirst == Init => WInv
  <1> SUFFICES ASSUME Init PROVE WInv
    OBVIOUS
  <1>1. Known(config, chosen, Sayable)
    BY DEF Init, Known, Sayable
  <1>2. ASSUME NEW p \in Procs PROVE KnownProcess(proc[p], chosen, Sayable)
    <2>1. proc[p].at = "idle"
      BY DEF Init, Idle
    <2> QED
      BY <2>1, OutOfConfig
  <1>3. lines \subseteq Names \X Meant
    <2> SUFFICES ASSUME NEW l \in lines PROVE l \in Names \X Meant
      OBVIOUS
    <2>1. l \in Lines(config)
      BY DEF Init
    <2>2. CASE l = <<Fingerprint, config.default>> /\ config.default # NoCert
      BY <2>2, NamesAssumption DEF Init, Meant
    <2>3. CASE l \in given
      BY <2>3, Initially, SayableIsMeant DEF Init, Sayable
    <2> QED
      BY <2>1, <2>2, <2>3 DEF Lines, Init
  <1> QED
    BY <1>1, <1>2, <1>3 DEF WInv

\* A process chooses its certificate: only alias goes to the configuration at once.
LEMMA StartsKnown ==
    ASSUME IInv, WInv, NEW p \in Procs,
           \/ StartNamed(p) \/ StartPath(p) \/ StartUnnamed(p) \/ StartAlias(p) \/ StartLogout(p)
    PROVE  WInv'
  <1> DEFINE Starting(k) == KnownProcess(k, chosen, Sayable)
  <1>1. \A cmd \in {"login", "query", "write", "logout"} :
           First(cmd) \notin {"open", "write", "aliases", "selection"}
    BY DEF First
  <1>2. \A cmd \in {"login", "query", "write", "logout"} : \A c, how :
           /\ Starting(Fresh(cmd, c, how, First(cmd)))
           /\ \A flag : Starting([Fresh(cmd, c, how, First(cmd)) EXCEPT !.flag = flag])
    BY <1>1 DEF Fresh, KnownProcess
  <1>3. \A c, n : Starting([Fresh("alias", c, "told", "selection") EXCEPT !.name = n])
    BY DEF Fresh, KnownProcess
  <1>4. \A todo : Starting([Fresh("logout", NoCert, "told", "list") EXCEPT !.todo = todo])
    BY DEF Fresh, KnownProcess
  <1>5. Starting(Done)
    BY DEF Done, KnownProcess
  <1>6. UNCHANGED <<config, lines, history>>
    BY DEF StartNamed, StartPath, StartUnnamed, StartAlias, StartLogout
  <1> HIDE DEF Starting
  <1>7. \E k : Set(p, k) /\ Starting(k)
    <2>1. CASE StartNamed(p)
      BY <2>1, <1>2, <1>5 DEF StartNamed
    <2>2. CASE StartPath(p)
      BY <2>2, <1>2 DEF StartPath
    <2>3. CASE StartUnnamed(p)
      BY <2>3, <1>2 DEF StartUnnamed
    <2>4. CASE StartAlias(p)
      BY <2>4, <1>3 DEF StartAlias
    <2>5. CASE StartLogout(p)
      BY <2>5, <1>4 DEF StartLogout
    <2> QED
      BY <2>1, <2>2, <2>3, <2>4, <2>5
  <1>8. PICK k : Set(p, k) /\ Starting(k)
    BY <1>7
  <1>9. KnownProcess(k, chosen, Sayable)
    BY <1>8 DEF Starting
  <1> QED
    BY <1>6, <1>8, <1>9, KnownWait

\* The steps on session files leave a process away from the configuration.
LEMMA SessionsKnown ==
    ASSUME IInv, WInv, NEW p \in Procs,
           \/ Load(p) \/ Verify(p) \/ Clear(p) \/ Connect(p) \/ Save(p) \/ Saving(p)
           \/ List(p) \/ Unlink(p) \/ Disagree(p)
    PROVE  WInv'
  <1> DEFINE Away(k) == k.at \notin {"open", "write", "aliases", "selection"}
  <1>0. proc[p] \in AnyProcess /\ proc[p].at \notin {"idle", "done"}
    BY DEF IInv, Load, Verify, Clear, Connect, Save, Saving, List, Unlink, Disagree
  <1>1. proc[p] \in Process
    BY <1>0 DEF AnyProcess, Idle, Done
  <1>2. UNCHANGED <<config, lines, history>>
    BY DEF Load, Verify, Clear, Connect, Save, Saving, List, Unlink, Disagree, history
  <1>3. \A k : Set(p, k) => proc'[p] = k
    BY DEF Set, IInv
  <1>4. Set(p, proc'[p])
    BY <1>3 DEF Load, Verify, Clear, Connect, Save, Saving, List, Unlink, Disagree
  <1>a. \A at : [proc[p] EXCEPT !.at = at].at = at
    BY <1>1 DEF Process
  <1>b. Away(Done)
    BY DEF Done
  <1>c. Away(proc'[p])
    <2>1. CASE Load(p)
      <3>1. \A jar : [proc[p] EXCEPT !.at = "verify", !.jar = jar].at = "verify"
        BY <1>1 DEF Process
      <3> QED
        BY <2>1, <1>3, <1>a, <3>1 DEF Load
    <2>2. CASE Verify(p)
      <3>1. [proc[p] EXCEPT !.at = "connect", !.jar = NoOwner].at = "connect"
        BY <1>1 DEF Process
      <3> QED
        BY <2>2, <1>3, <1>b, <3>1 DEF Verify
    <2>3. CASE Clear(p) \/ Disagree(p)
      BY <2>3, <1>3, <1>b DEF Clear, Disagree
    <2>4. CASE Connect(p)
      <3>1. \A jar : [proc[p] EXCEPT !.at = "save", !.jar = jar].at = "save"
        BY <1>1 DEF Process
      <3> QED
        BY <2>4, <1>3, <1>b, <3>1 DEF Connect
    <2>5. CASE Save(p) \/ Saving(p)
      BY <2>5, <1>3, <1>a, <1>b DEF Save, Saving
    <2>6. CASE List(p)
      <3>1. \A todo : [proc[p] EXCEPT !.todo = todo].at = proc[p].at
        BY <1>1 DEF Process
      <3>2. \A c : [proc[p] EXCEPT !.at = "unlink", !.entry = c].at = "unlink"
        BY <1>1 DEF Process
      <3>3. CASE proc[p].todo = {}
        BY <2>6, <1>3, <1>b, <3>3 DEF List
      <3>4. CASE proc[p].todo # {}
        <4>1. PICK todo, c :
                 \/ Set(p, [proc[p] EXCEPT !.todo = todo])
                 \/ Set(p, [proc[p] EXCEPT !.at = "unlink", !.entry = c])
          BY <2>6, <3>4 DEF List
        <4>2. proc[p].at = "list"
          BY <2>6 DEF List
        <4> QED
          BY <4>1, <4>2, <1>3, <3>1, <3>2
      <3> QED
        BY <3>3, <3>4
    <2>7. CASE Unlink(p)
      <3>1. \A todo : [proc[p] EXCEPT !.at = "list", !.todo = todo, !.entry = NoCert].at = "list"
        BY <1>1 DEF Process
      <3> QED
        BY <2>7, <1>3, <1>b, <3>1 DEF Unlink
    <2> QED
      BY <2>1, <2>2, <2>3, <2>4, <2>5, <2>6, <2>7
  <1>5. KnownProcess(proc'[p], chosen, Sayable)
    BY <1>c, OutOfConfig
  <1> QED
    BY <1>2, <1>4, <1>5, KnownWait

\* maybe_remember agrees to what the process then writes (cli.py:196-219).
LEMMA AgreeKnown ==
    ASSUME IInv, WInv, NEW p \in Procs, Agree(p)
    PROVE  WInv'
  <1> DEFINE k == proc[p]
             next == [k EXCEPT !.at = "selection"]
  <1>1. k \in Process /\ Set(p, next) /\ UNCHANGED <<config, lines, given, over>>
    BY DEF Agree, IInv, AnyProcess, Idle, Done
  <1>2. chosen' = chosen \cup {k.entry}
    BY DEF Agree, Skips
  <1>3. next.at = "selection" /\ next.cmd = k.cmd /\ next.entry = k.entry
    BY <1>1 DEF Process
  <1>4. KnownProcess(next, chosen', Sayable')
    BY <1>2, <1>3 DEF KnownProcess
  <1>5. Sayable \subseteq Sayable' /\ Meant \subseteq Meant'
    BY <1>1, <1>2, SayableGrows
  <1>6. Known(config', chosen', Sayable')
    BY <1>1, <1>2, <1>5, KnownGrows DEF WInv
  <1>7. lines' \subseteq Names \X Meant'
    BY <1>1, <1>5 DEF WInv
  <1> HIDE DEF next
  <1> QED
    BY <1>1, <1>2, <1>4, <1>6, <1>7, KnownSet

\* The first read: what is written is what is read, with the certificate agreed to as
\* the default (cert_discovery.py:186-198).
LEMMA SelectionKnown ==
    ASSUME IInv, WInv, NEW p \in Procs, Selection(p)
    PROVE  WInv'
  <1> DEFINE k == proc[p]
             read == [config EXCEPT !.text = "toml"]
             wanted == [read EXCEPT !.default = k.entry]
             next == IF k.cmd = "alias" THEN [k EXCEPT !.at = "aliases", !.conf = read]
                     ELSE [k EXCEPT !.at = "open", !.conf = wanted]
  <1>1. k \in Process /\ k.at = "selection" /\ Set(p, next) /\ UNCHANGED <<config, lines, history>>
    BY DEF Selection, IInv, AnyProcess, Idle, Done
  <1>2. /\ Known(config, chosen, Sayable) /\ KnownProcess(k, chosen, Sayable)
        /\ config \in Configs
    BY DEF WInv, IInv, GoodConfig
  <1>3. Known(read, chosen, Sayable)
    BY <1>2 DEF Known, Configs
  <1>4. k.cmd # "alias" => Known(wanted, chosen, Sayable)
    BY <1>1, <1>2 DEF Known, KnownProcess, Configs
  <1> HIDE DEF read, wanted
  <1>5. k.cmd = "alias" => next.at = "aliases" /\ next.conf = read
    BY <1>1 DEF Process
  <1>6. k.cmd # "alias" => next.at = "open" /\ next.conf = wanted
    BY <1>1 DEF Process
  <1> HIDE DEF next
  <1>7. KnownProcess(next, chosen, Sayable)
    BY <1>3, <1>4, <1>5, <1>6 DEF KnownProcess, Known
  <1> QED
    BY <1>1, <1>7, KnownWait

\* The second read of alias: the aliases are those of now and the new one, the default
\* that of the first read (cert_discovery.py:224-239).
LEMMA AliasesKnown ==
    ASSUME IInv, WInv, NEW p \in Procs, Aliases(p)
    PROVE  WInv'
  <1> DEFINE k == proc[p]
             table == [config.aliases EXCEPT ![k.name] = k.entry]
             conf == [k.conf EXCEPT !.aliases = table]
             next == [k EXCEPT !.at = "open", !.conf = conf]
  <1>1. k \in Process /\ k.at = "aliases" /\ k.name \in Names
        /\ UNCHANGED <<config, lines, chosen, over>>
    BY DEF Aliases, IInv, GoodProcess, AnyProcess, Idle, Done
  <1>2. Set(p, next)
    <2>1. [k EXCEPT !.at = "open", !.conf.aliases = table] = next
      BY <1>1 DEF Process
    <2> QED
      BY <2>1 DEF Aliases
  <1>3. given \subseteq given' /\ (k.entry # NoCert => <<k.name, k.entry>> \in given')
    BY DEF Aliases
  <1>4. /\ Known(config, chosen, Sayable) /\ KnownProcess(k, chosen, Sayable)
        /\ config \in Configs
    BY DEF WInv, IInv, GoodConfig
  <1>a. Sayable \subseteq Sayable' /\ Meant \subseteq Meant'
    BY <1>1, <1>3, SayableGrows
  <1>b. k.entry # NoCert => <<k.name, k.entry>> \in Sayable'
    <2>1. \A g \in given' : g[2] \in Meant'
      BY DEF Meant
    <2>2. k.entry # NoCert => k.entry \in Meant'
      BY <1>3, <2>1
    <2>3. CASE over'
      BY <1>1, <2>2, <2>3 DEF Sayable, Meant
    <2>4. CASE ~over'
      BY <1>3, <2>4 DEF Sayable
    <2> QED
      BY <2>3, <2>4
  <1>5. \A n \in Names : table[n] # NoCert => <<n, table[n]>> \in Sayable'
    BY <1>1, <1>4, <1>a, <1>b DEF Known, Configs
  <1> HIDE DEF table
  <1>6. conf.aliases = table /\ conf.default = k.conf.default
    BY <1>1 DEF Process, Configs
  <1>7. Known(conf, chosen, Sayable')
    BY <1>1, <1>4, <1>5, <1>6 DEF Known, KnownProcess
  <1> HIDE DEF conf
  <1>8. next.at = "open" /\ next.conf = conf
    BY <1>1 DEF Process
  <1>9. KnownProcess(next, chosen, Sayable')
    BY <1>7, <1>8 DEF KnownProcess
  <1> HIDE DEF next
  <1>c. Known(config', chosen', Sayable')
    BY <1>1, <1>4, <1>a, KnownGrows
  <1>d. lines' \subseteq Names \X Meant'
    BY <1>1, <1>a DEF WInv
  <1> QED
    BY <1>1, <1>2, <1>3, <1>9, <1>c, <1>d, KnownSet

\* Opening the file makes it say nothing.
LEMMA OpenKnown ==
    ASSUME IInv, WInv, NEW p \in Procs, Open(p)
    PROVE  WInv'
  <1> DEFINE k == proc[p]
             next == [k EXCEPT !.at = "write"]
  <1>0. k \in Process /\ k.at = "open" /\ UNCHANGED history
    BY DEF Open, IInv, AnyProcess, Idle, Done
  <1>1. Set(p, next) /\ config' = NoText("blank") /\ lines' = {}
    BY DEF Open
  <1>2. next.at = "write" /\ next.conf = k.conf
    BY <1>0 DEF Process
  <1>3. Sayable' = Sayable
    BY <1>0 DEF history, Sayable
  <1>4. KnownProcess(next, chosen, Sayable)
    BY <1>0, <1>2 DEF WInv, KnownProcess
  <1> HIDE DEF next
  <1> QED
    BY <1>0, <1>1, <1>3, <1>4, NoTextKnown, KnownSet DEF history

\* The lines that a process writes are of certificates that were meant.
LEMMA LinesKnown ==
    ASSUME IInv, NEW c \in Configs, Known(c, chosen, Sayable)
    PROVE  Lines(c) \subseteq Names \X Meant
  <1> SUFFICES ASSUME NEW l \in Lines(c) PROVE l \in Names \X Meant
    OBVIOUS
  <1>1. CASE l = <<Fingerprint, c.default>> /\ c.default # NoCert
    BY <1>1, NamesAssumption DEF Known, Meant
  <1>2. ASSUME NEW n \in Names, c.aliases[n] # NoCert, l = <<n, c.aliases[n]>>
        PROVE  l \in Names \X Meant
    BY <1>2, SayableIsMeant DEF Known
  <1> QED
    BY <1>1, <1>2 DEF Lines

\* What is written into the emptied file is what the process was told; over the text of
\* another process, the tail of that text names certificates that were meant.
LEMMA WriteKnown ==
    ASSUME IInv, WInv, NEW p \in Procs, Write(p)
    PROVE  WInv'
  <1> DEFINE k == proc[p]
  <1>0. /\ k \in Process /\ k.at = "write" /\ k.conf \in Configs
        /\ UNCHANGED <<chosen, given>> /\ Set(p, Done) /\ (over => over')
    BY DEF Write, IInv, AnyProcess, Process, Idle, Done
  <1>1. Known(config, chosen, Sayable) /\ Known(k.conf, chosen, Sayable)
    BY <1>0 DEF WInv, KnownProcess
  <1>2. Lines(k.conf) \subseteq Names \X Meant
    BY <1>0, <1>1, LinesKnown
  <1>3. Sayable \subseteq Sayable' /\ Meant' = Meant
    BY <1>0, SayableGrows DEF Meant
  <1>4. Known(config', chosen', Sayable') /\ lines' \subseteq Names \X Meant
    <2>1. CASE config' = k.conf /\ lines' = Lines(k.conf)
      BY <2>1, <1>0, <1>1, <1>2, <1>3, KnownGrows
    <2>2. CASE UNCHANGED <<config, lines>>
      BY <2>2, <1>0, <1>1, <1>3, KnownGrows DEF WInv
    <2>3. ASSUME NEW t \in Tails(lines), config.text # "blank",
                 lines' = Lines(k.conf) \cup t, config' \in Overwritten(k.conf, t)
          PROVE  Known(config', chosen', Sayable') /\ lines' \subseteq Names \X Meant
      <3>1. t \subseteq Names \X Meant
        BY TailsType DEF WInv
      <3>2. over'
        BY <2>3 DEF Write
      <3>3. Sayable' = Names \X Meant
        BY <1>3, <3>2 DEF Sayable, Meant
      <3>4. CASE config' = NoText("garbled")
        BY <3>4, NoTextKnown, <1>2, <2>3, <3>1
      <3>5. ASSUME NEW a \in [Names -> Certs \cup {NoCert}],
                   config' = [k.conf EXCEPT !.aliases = a],
                   \A n \in Names : \/ a[n] = k.conf.aliases[n]
                                   \/ (k.conf.aliases[n] = NoCert /\ <<n, a[n]>> \in t)
            PROVE  Known(config', chosen', Sayable')
        <4>1. config'.aliases = a /\ config'.default = k.conf.default
          BY <3>5, <1>0 DEF Configs
        <4>2. \A n \in Names : a[n] # NoCert => <<n, a[n]>> \in Sayable'
          BY <3>5, <3>1, <3>3, <1>1, <1>3 DEF Known
        <4> QED
          BY <4>1, <4>2, <1>0, <1>1 DEF Known
      <3> QED
        BY <1>2, <2>3, <3>1, <3>4, <3>5 DEF Overwritten
    <2> QED
      BY <2>1, <2>2, <2>3 DEF Write
  <1>5. KnownProcess(Done, chosen', Sayable')
    BY DEF KnownProcess, Done
  <1> QED
    BY <1>0, <1>3, <1>4, <1>5, KnownSet

\* Every step keeps it.
LEMMA KnownAlways == IInv /\ WInv /\ [Next]_vars => WInv'
  <1> SUFFICES ASSUME IInv, WInv, [Next]_vars PROVE WInv'
    OBVIOUS
  <1>1. ASSUME UNCHANGED <<config, lines, proc, history>> PROVE WInv'
    <2>1. Sayable' = Sayable /\ Meant' = Meant
      BY <1>1 DEF history, Sayable, Meant
    <2>2. chosen' = chosen /\ config' = config /\ proc' = proc /\ lines' = lines
      BY <1>1 DEF history
    <2>3. Known(config', chosen', Sayable') /\ lines' \subseteq Names \X Meant'
      BY <2>1, <2>2 DEF WInv
    <2>4. \A p \in Procs : KnownProcess(proc'[p], chosen', Sayable')
      BY <2>1, <2>2 DEF WInv
    <2> QED
      BY <2>3, <2>4 DEF WInv
  <1>2. ASSUME NEW p \in Procs, Step(p) PROVE WInv'
    BY <1>2, StartsKnown, SessionsKnown, AgreeKnown, SelectionKnown, AliasesKnown, OpenKnown,
       WriteKnown DEF Step
  <1>3. ASSUME NEW q \in Paths, Renew(q) PROVE WInv'
    BY <1>1, <1>3 DEF Renew
  <1>4. ASSUME NEW s \in Slots, Expire(s) PROVE WInv'
    BY <1>1, <1>4 DEF Expire
  <1>5. CASE UNCHANGED vars
    BY <1>1, <1>5 DEF vars, history
  <1> QED
    BY <1>2, <1>3, <1>4, <1>5 DEF Next

\* For any number of processes that read, truncate and write the unlocked config.toml:
\* its default is a certificate that a user agreed to remember, and each alias is one
\* that a user gave; once a text was written over another, each alias is still of a
\* certificate that a user gave to some name or chose.
THEOREM ConfigWasWrittenHolds == Spec => []ConfigWasWritten
  <1>1. WInv => ConfigWasWritten
    BY DEF WInv, Known, ConfigWasWritten
  <1>2. Spec => []WInv
    BY Invariance, KnownAtFirst, KnownAlways, PTL DEF Spec
  <1> QED
    BY <1>1, <1>2, PTL
=============================================================================
