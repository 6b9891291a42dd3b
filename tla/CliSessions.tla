----------------------------- MODULE CliSessions -----------------------------
(***************************************************************************)
(* Processes of the hometax command that share one $HOMETAX_HOME: which    *)
(* certificate a command runs with (cert_discovery.py, cli.py), the        *)
(* session file of each certificate (local_session.py) and config.toml,    *)
(* which holds the default certificate and the aliases.                    *)
(*                                                                         *)
(* No file is locked.  Path.write_text truncates the file and then writes  *)
(* it: two steps, between which another process may read the empty file,   *)
(* write it, or the writer may die (which is to take no further step).     *)
(* What a command reads to choose its certificate it reads at one time.    *)
(* Each process runs one command, on files that earlier commands left.     *)
(***************************************************************************)
EXTENDS FiniteSets, Functions

CONSTANTS
    Procs,       \* processes of the command
    Certs,       \* certificates, by fingerprint
    Names,       \* names of lines of config.toml that may be read as aliases
    Ends,        \* Ends[n]: the names that the name n ends with
    Fingerprint, \* the name of the line of [certificate] that holds the fingerprint
    PathOf,      \* PathOf[c]: the directory of certificate c
    OwnerOf,     \* OwnerOf[c]: the business that c logs in
    SlotOf,      \* SlotOf[c]: session_path, the first 16 digits of the fingerprint
    Lapsed,      \* certificates that are past valid_until
    Earlier,     \* the contents of config.toml at the start
    NoCert, NoOwner

Paths == Range(PathOf)
Owners == Range(OwnerOf)
Slots == Range(SlotOf)

\* A directory is named after its subject: a renewed certificate replaces one of
\* the same business.  Nothing is assumed of the first 16 digits.
ASSUME RenewalAssumption ==
    \A c, d \in Certs : PathOf[c] = PathOf[d] => OwnerOf[c] = OwnerOf[d]

ASSUME DomainAssumption ==
    DOMAIN PathOf = Certs /\ DOMAIN OwnerOf = Certs /\ DOMAIN SlotOf = Certs

ASSUME NamesAssumption == Ends \in [Names -> SUBSET Names] /\ Fingerprint \in Names

VARIABLES
    disk,       \* disk[q]: the certificate in directory q
    config,     \* what load_config reads in config.toml
    lines,      \* <<name, certificate>>: the fingerprints in its text, read or not
    file,       \* file[s]: the session file s
    proc,       \* proc[p]: what process p is doing
    chosen,     \* certificates that a user agreed to remember
    given,      \* <<name, certificate>>: the aliases that a user gave
    over        \* a text was written over that of another process

vars == <<disk, config, lines, file, proc, chosen, given, over>>
history == <<chosen, given, over>>

Configs ==
    [text: {"blank", "toml", "garbled"}, default: Certs \cup {NoCert},
     aliases: [Names -> Certs \cup {NoCert}]]
NoText(t) == [text |-> t, default |-> NoCert, aliases |-> [n \in Names |-> NoCert]]

\* The lines with a fingerprint that save_config writes.
Lines(c) ==
    {<<n, c.aliases[n]>> : n \in {m \in Names : c.aliases[m] # NoCert}}
    \cup (IF c.default = NoCert THEN {} ELSE {<<Fingerprint, c.default>>})

\* What config.toml may hold: without a text that can be read it says nothing.
ASSUME EarlierAssumption ==
    \A c \in Earlier : c \in Configs /\ (c.text # "toml" => c = NoText(c.text))

\* A torn body is empty or not JSON; the cookies in a body are those of owner.
Files ==
    [is: {"none", "torn", "body"}, cert: Certs \cup {NoCert},
     owner: Owners \cup {NoOwner}, live: BOOLEAN]
NoFile == [is |-> "none", cert |-> NoCert, owner |-> NoOwner, live |-> FALSE]
TornFile == [NoFile EXCEPT !.is = "torn"]
Body(c, o) == [is |-> "body", cert |-> c, owner |-> o, live |-> TRUE]

\* What --company may say: a number or part of a name, which come to a certificate,
\* or an alias.
Companies == Certs \cup Names

\* How it came to its certificate (entry): by company, by path or at the prompt
\* ("told"), at the prompt of --choose, or without a question ("silent"); flag is
\* --remember beside --company.
Process ==
    [at: {"load", "verify", "clear", "connect", "save", "saving", "remember",
          "selection", "aliases", "open", "write", "list", "unlink"},
     cmd: {"login", "query", "write", "alias", "logout"},
     how: {"company", "choose", "told", "silent"}, flag: BOOLEAN,
     entry: Certs \cup {NoCert}, jar: Owners \cup {NoOwner},
     name: Names \cup {NoCert}, conf: Configs, todo: SUBSET Slots]
Idle == [at |-> "idle"]
Done == [at |-> "done"]

TypeOK ==
    /\ disk \in [Paths -> Certs]
    /\ \A q \in Paths : PathOf[disk[q]] = q
    /\ config \in Configs
    /\ config.text # "toml" => config = NoText(config.text)
    /\ lines \in SUBSET (Names \X Certs)
    /\ file \in [Slots -> Files]
    /\ \A s \in Slots : file[s].is = "body" => SlotOf[file[s].cert] = s
    /\ proc \in [Procs -> Process \cup {Idle, Done}]
    /\ chosen \in SUBSET Certs
    /\ given \in SUBSET (Names \X Certs)
    /\ over \in BOOLEAN

Init ==
    /\ disk \in {d \in [Paths -> Certs] : \A q \in Paths : PathOf[d[q]] = q}
    /\ config \in Earlier
    /\ lines = Lines(config)
    /\ file \in {f \in [Slots -> {NoFile} \cup {Body(c, OwnerOf[c]) : c \in Certs}] :
                   \A s \in Slots : f[s] # NoFile => SlotOf[f[s].cert] = s}
    /\ proc = [p \in Procs |-> Idle]
    /\ chosen = {config.default} \ {NoCert}
    /\ given = {<<n, config.aliases[n]>> : n \in {m \in Names : config.aliases[m] # NoCert}}
    /\ over = FALSE

-----------------------------------------------------------------------------
(***************************************************************************)
(* Certificates on disk and the choice among them                          *)
(***************************************************************************)
\* discover, deduplicated; usable drops the expired ones.
Discovered == Range(disk)
Usable == Discovered \ Lapsed

\* resolve_company: an alias, or what the number or the name came to.
Resolved(wish) ==
    LET c == IF wish \in Names THEN config.aliases[wish] ELSE wish
    IN IF c \in Discovered THEN c ELSE NoCert

\* resolve_selection: the remembered certificate, unless it is missing, changed or
\* expired; without one the only certificate there is; else nothing.
Selected(saved) ==
    CASE saved # NoCert -> IF saved \in Usable THEN saved ELSE NoCert
      [] saved = NoCert /\ Cardinality(Usable) = 1 -> CHOOSE c \in Usable : TRUE
      [] OTHER -> NoCert

\* The certificates of the live sessions (active_sessions).
Live == {file[s].cert : s \in {t \in Slots : file[t].is = "body" /\ file[t].live}}

\* implicit_certificate: the default, else the certificate of the only live session.
Implicit ==
    LET matches == Usable \cap Live IN
    IF Selected(config.default) # NoCert THEN Selected(config.default)
    ELSE IF Cardinality(matches) = 1 THEN CHOOSE c \in matches : TRUE
    ELSE NoCert

Set(p, k) == proc' = [proc EXCEPT ![p] = k]
Fresh(cmd, c, how, at) ==
    [at |-> at, cmd |-> cmd, how |-> how, flag |-> FALSE, entry |-> c, jar |-> NoOwner,
     name |-> NoCert, conf |-> NoText("blank"), todo |-> {}]

\* A query looks for a session first; a login and a write log in again.
First(cmd) ==
    CASE cmd = "query" -> "load" [] cmd = "logout" -> "clear" [] OTHER -> "connect"

\* session_client, cmd_login, invoice_operation, cmd_logout: pick_certificate by
\* --company; one that is not found or has expired ends the command.
StartNamed(p) ==
    /\ proc[p] = Idle
    /\ \E cmd \in {"login", "query", "write", "logout"}, wish \in Companies, flag \in BOOLEAN :
          LET c == Resolved(wish) IN
          /\ flag => cmd \in {"login", "query"}
          /\ Set(p, IF c \in Usable THEN [Fresh(cmd, c, "company", First(cmd)) EXCEPT !.flag = flag]
                    ELSE Done)
    /\ UNCHANGED <<disk, config, lines, file, history>>

\* By --cert, expired or not.
StartPath(p) ==
    /\ proc[p] = Idle
    /\ \E cmd \in {"login", "query", "write"}, q \in Paths :
          Set(p, Fresh(cmd, disk[q], "told", First(cmd)))
    /\ UNCHANGED <<disk, config, lines, file, history>>

\* Without a company: what is selected, at first by implicit_certificate if it is a
\* query; else the user picks from the usable certificates at the prompt.
StartUnnamed(p) ==
    /\ proc[p] = Idle
    /\ \E cmd \in {"login", "query", "write"}, wish \in {"choose", "nothing"} :
          LET saved == IF wish = "choose" THEN NoCert ELSE config.default
              c == IF cmd = "query" /\ wish = "nothing" THEN Implicit ELSE Selected(saved)
              how == IF wish = "choose" THEN "choose" ELSE IF c = NoCert THEN "told" ELSE "silent"
          IN \E d \in IF c = NoCert THEN Usable ELSE {c} :
                Set(p, Fresh(cmd, d, how, First(cmd)))
    /\ UNCHANGED <<disk, config, lines, file, history>>

\* cmd_alias; --remove needs an alias that is there.
StartAlias(p) ==
    /\ proc[p] = Idle
    /\ \E n \in Names :
          \/ \E wish \in Companies :
                /\ Resolved(wish) # NoCert
                /\ Set(p, [Fresh("alias", Resolved(wish), "told", "selection") EXCEPT !.name = n])
          \/ /\ config.aliases[n] # NoCert
             /\ Set(p, [Fresh("alias", NoCert, "told", "selection") EXCEPT !.name = n])
    /\ UNCHANGED <<disk, config, lines, file, history>>

\* cmd_logout of all.
StartLogout(p) ==
    /\ proc[p] = Idle
    /\ Set(p, [Fresh("logout", NoCert, "told", "list")
                 EXCEPT !.todo = {s \in Slots : file[s].is # "none"}])
    /\ UNCHANGED <<disk, config, lines, file, history>>

-----------------------------------------------------------------------------
(***************************************************************************)
(* Sessions: session_client, login_with and the files they leave           *)
(***************************************************************************)
\* Mutated form: whatever is in the file of the certificate.
AnyBody(f, c) == f.is = "body" /\ f.live

\* load_session, and the fingerprint in the body: the file may be another one's.
UsableBody(f, c) == f.is = "body" /\ f.live /\ f.cert = c

Load(p) ==
    LET k == proc[p]
        f == file[SlotOf[k.entry]] IN
    /\ k.at = "load"
    /\ Set(p, IF UsableBody(f, k.entry) THEN [k EXCEPT !.at = "verify", !.jar = f.owner]
              ELSE [k EXCEPT !.at = "connect"])
    /\ UNCHANGED <<disk, config, lines, file, history>>

\* HomeTax knows the cookies, and the command works with them; or LoginError, and
\* clear_session removes whoever's body is there by now.
Verify(p) ==
    LET k == proc[p] IN
    /\ k.at = "verify"
    /\ \/ Set(p, Done) /\ UNCHANGED file
       \/ /\ Set(p, [k EXCEPT !.at = "connect", !.jar = NoOwner])
          /\ file' = [file EXCEPT ![SlotOf[k.entry]] = NoFile]
    /\ UNCHANGED <<disk, config, lines, history>>

\* logout --company: clear_session.
Clear(p) ==
    /\ proc[p].at = "clear"
    /\ file' = [file EXCEPT ![SlotOf[proc[p].entry]] = NoFile]
    /\ Set(p, Done)
    /\ UNCHANGED <<disk, config, lines, history>>

\* The certificate file is read again after the password: it may be a new one.
Connect(p) ==
    LET k == proc[p]
        c == disk[PathOf[k.entry]] IN
    /\ k.at = "connect"
    /\ \/ Set(p, [k EXCEPT !.at = "save", !.jar = OwnerOf[c]])
       \/ Set(p, Done)
    /\ UNCHANGED <<disk, config, lines, file, history>>

\* save_session: write_text opens the file, ...
Save(p) ==
    /\ proc[p].at = "save"
    /\ file' = [file EXCEPT ![SlotOf[proc[p].entry]] = TornFile]
    /\ Set(p, [proc[p] EXCEPT !.at = "saving"])
    /\ UNCHANGED <<disk, config, lines, history>>

\* Mutated form: the body names the certificate that was read from the disk.
SavedAsRead(k) == Body(disk[PathOf[k.entry]], k.jar)

\* What save_session writes.
Saved(k) == Body(k.entry, k.jar)

\* ... and writes it; over what another process has written since, the tail of a
\* longer body stays behind.  A file that was removed meanwhile stays away, and chmod
\* ends the command; one that has come back since is another and stays as it is.
Saving(p) ==
    LET k == proc[p]
        s == SlotOf[k.entry] IN
    /\ k.at = "saving"
    /\ \/ /\ file[s].is = "none"
          /\ Set(p, Done)
          /\ UNCHANGED file
       \/ /\ file[s].is # "none"
          /\ \E f \in {Saved(k), file[s]} \cup (IF file[s].is = "body" THEN {TornFile} ELSE {}) :
                file' = [file EXCEPT ![s] = f]
          /\ Set(p, IF k.cmd = "write" THEN Done ELSE [k EXCEPT !.at = "remember"])
    /\ UNCHANGED <<disk, config, lines, history>>

\* clear_all_sessions: a file that is there is unlinked, ...
List(p) ==
    LET k == proc[p] IN
    /\ k.at = "list"
    /\ IF k.todo = {} THEN Set(p, Done)
       ELSE \E s \in k.todo :
               Set(p, IF file[s].is = "none" THEN [k EXCEPT !.todo = @ \ {s}]
                      ELSE [k EXCEPT !.at = "unlink", !.entry = CHOOSE c \in Certs : SlotOf[c] = s])
    /\ UNCHANGED <<disk, config, lines, file, history>>

\* ... but if it is gone meanwhile, FileNotFoundError ends the command.
Unlink(p) ==
    LET k == proc[p]
        s == SlotOf[k.entry] IN
    /\ k.at = "unlink"
    /\ file' = [file EXCEPT ![s] = NoFile]
    /\ Set(p, IF file[s].is = "none" THEN Done
              ELSE [k EXCEPT !.at = "list", !.todo = @ \ {s}, !.entry = NoCert])
    /\ UNCHANGED <<disk, config, lines, history>>

-----------------------------------------------------------------------------
(***************************************************************************)
(* config.toml: maybe_remember and alias                                   *)
(***************************************************************************)
\* Mutated form: a certificate that is not the default is remembered.
SkipsDefault(k) == config.default = k.entry /\ k.how # "choose"

\* --company does not change the default unless --remember is there too; what is
\* the default already is not asked again.
Skips(k) ==
    \/ k.how = "company" /\ ~k.flag
    \/ config.default = k.entry /\ k.how # "choose"

\* maybe_remember: --remember, or the user says yes. chosen is what users agreed to,
\* and a --company alone agrees to nothing.
Agree(p) ==
    LET k == proc[p] IN
    /\ k.at = "remember" /\ ~Skips(k)
    /\ Set(p, [k EXCEPT !.at = "selection"])
    /\ chosen' = IF k.how = "company" /\ ~k.flag THEN chosen ELSE chosen \cup {k.entry}
    /\ UNCHANGED <<disk, config, lines, file, given, over>>

\* It is not asked, or the user says no, or --no-remember, or there is no terminal.
Disagree(p) ==
    LET k == proc[p] IN
    /\ k.at = "remember"
    /\ Skips(k) \/ ~k.flag
    /\ Set(p, Done)
    /\ UNCHANGED <<disk, config, lines, file, history>>

\* load_config; a blank or garbled file is an empty configuration.
Selection(p) ==
    LET k == proc[p]
        read == [config EXCEPT !.text = "toml"] IN
    /\ k.at = "selection"
    /\ Set(p, IF k.cmd = "alias" THEN [k EXCEPT !.at = "aliases", !.conf = read]
              ELSE [k EXCEPT !.at = "open", !.conf = [read EXCEPT !.default = k.entry]])
    /\ UNCHANGED <<disk, config, lines, file, history>>

\* save_alias reads the file once more for the aliases.
Aliases(p) ==
    LET k == proc[p] IN
    /\ k.at = "aliases"
    /\ Set(p, [k EXCEPT !.at = "open",
                        !.conf.aliases = [config.aliases EXCEPT ![k.name] = k.entry]])
    /\ given' = IF k.entry = NoCert THEN given ELSE given \cup {<<k.name, k.entry>>}
    /\ UNCHANGED <<disk, config, lines, file, chosen, over>>

Open(p) ==
    /\ proc[p].at = "open"
    /\ config' = NoText("blank")
    /\ lines' = {}
    /\ Set(p, [proc[p] EXCEPT !.at = "write"])
    /\ UNCHANGED <<disk, file, history>>

\* What may stay behind of a longer text, at its end: some lines whole, and of the
\* first one perhaps the end only, which bears the end of its name.
Tails(old) ==
    LET cut == UNION {{<<m, l[2]>> : m \in Ends[l[1]]} : l \in old}
    IN {t \in SUBSET (old \cup cut) : Cardinality(t \ old) <= 1}

\* What a text with the lines of mine first and then the tail may be read as: it is no
\* TOML, or lines of the tail pass for aliases, with whatever names are left of them.
Overwritten(mine, tail) ==
    {NoText("garbled")} \cup
    {[mine EXCEPT !.aliases = a] : a \in {b \in [Names -> Certs \cup {NoCert}] :
        \A n \in Names : \/ b[n] = mine.aliases[n]
                        \/ (mine.aliases[n] = NoCert /\ <<n, b[n]>> \in tail)}}

\* Into the file that it has emptied, or over the text of another process, of which
\* a text of no tables leaves every line.
Write(p) ==
    LET k == proc[p]
        mine == Lines(k.conf) IN
    /\ k.at = "write"
    /\ \/ /\ config.text = "blank"
          /\ config' = k.conf
          /\ lines' = mine
       \/ /\ config.text # "blank" /\ mine = {}
          /\ UNCHANGED <<config, lines>>
       \/ /\ config.text # "blank" /\ mine # {}
          /\ \E t \in Tails(lines) :
                /\ lines' = mine \cup t
                /\ config' \in Overwritten(k.conf, t)
    /\ over' = (over \/ config.text # "blank")
    /\ Set(p, Done)
    /\ UNCHANGED <<disk, file, chosen, given>>

-----------------------------------------------------------------------------
(***************************************************************************)
(* The world around                                                        *)
(***************************************************************************)
\* The certificate in a directory is renewed, or the old one put back.
Renew(q) ==
    /\ \E c \in {d \in Certs : PathOf[d] = q} :
          disk' = [disk EXCEPT ![q] = c]
    /\ UNCHANGED <<config, lines, file, proc, history>>

\* expires_at of a session passes.
Expire(s) ==
    /\ file[s].live
    /\ file' = [file EXCEPT ![s].live = FALSE]
    /\ UNCHANGED <<disk, config, lines, proc, history>>

Step(p) ==
    \/ StartNamed(p) \/ StartPath(p) \/ StartUnnamed(p) \/ StartAlias(p) \/ StartLogout(p)
    \/ Load(p) \/ Verify(p) \/ Clear(p) \/ Connect(p) \/ Save(p) \/ Saving(p) \/ List(p) \/ Unlink(p)
    \/ Agree(p) \/ Disagree(p) \/ Selection(p) \/ Aliases(p) \/ Open(p) \/ Write(p)

Next ==
    \/ \E p \in Procs : Step(p)
    \/ \E q \in Paths : Renew(q)
    \/ \E s \in Slots : Expire(s)

Spec == Init /\ [][Next]_vars

-----------------------------------------------------------------------------
\* README.md:110-111: the data of businesses do not mix: whatever other processes
\* log in, verify, clear, save half and write over, and whichever certificates share
\* a session file, a command works with cookies of the business of its certificate.
NoMixing ==
    \A p \in Procs :
        proc[p].at \in {"verify", "save", "saving", "remember"}
            => proc[p].jar = OwnerOf[proc[p].entry]

\* What an alias may stand for: what a user gave it.  Once a text was written over
\* another, the alias may be one that nobody gave (the end of a name, a line of the
\* other table), but still of a certificate that a user gave to some name or chose.
Sayable ==
    IF over THEN Names \X (chosen \cup {g[2] : g \in given}) ELSE given

\* cert_discovery.py:186-239, cli.py:196-219: the unlocked file may lose what it
\* held, but over all interleavings its default is a certificate that a user agreed
\* to remember (--company alone is no agreement), and an alias stands for what a user
\* gave it; where texts were written over each other, at least for such a certificate.
ConfigWasWritten ==
    /\ config.default \in chosen \cup {NoCert}
    /\ \A n \in Names : config.aliases[n] # NoCert => <<n, config.aliases[n]>> \in Sayable
=============================================================================
