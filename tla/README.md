# pigeons: models, checks and proofs

[pigeons](../src/README.md) carries SSH over peer-to-peer QUIC connections: a
*roost* on the machine with sshd, a *fly* on the machine with ssh, and a route
in `~/.ssh/config` that makes `ssh name` start a fly. This directory holds TLA+
modules of what the program does, TLC runs that check them on small instances,
and TLAPS proofs that hold for every instance.

Run everything here, in this directory:

    tlc -workers 2 -config MCTunnelBytes.cfg MCTunnel.tla
    tlapm TunnelProofs.tla

`PROJECT.json` lists the runs, the mutants (changes to the model, each a
plausible bug, that a property must catch), the lines of code each definition
stands for, the hazards and the findings.

## 1. The system

| part | code | state it keeps | operations |
|---|---|---|---|
| tunnel | `src/src/tunnel.rs`, `protocol.rs`, `main.rs:264-343` | per session: a task in each relay, a QUIC connection and one stream, a copy buffer and two sockets per direction | accept or read stdin, connect, open/accept the stream, dial sshd, copy, close, exit |
| roost identity | `ssh.rs:17-98` | `pigeons_ed25519` and `.pub` in `~/.ssh` | look, load, generate, write, sync |
| ssh routes | `ssh.rs:100-302`, `main.rs:344-386` | `~/.ssh/config` and the temporary file beside it | add, remove, list, replace |
| telemetry choice | `config.rs`, `main.rs:138-251`, `tunnel.rs:284-310` | the user's, root's and the machine-wide config | ask once, store, publish, report, load |
| service, systemd | `service.rs`, `service/linux.rs`, `service/*_linux.sh`, `main.rs:284-305, 403-463` | unit file, what systemd has loaded, enabled or not, the process and its arguments, `/etc/pigeons/endpoint_id` | install, uninstall, restart, status |
| service, launchd | `service/macos.rs`, `service/*_macos.sh` | the same with a plist and the job launchd has in memory | the same |
| service, Windows | `service/windows.rs`, `windows/firewall.rs` | SCM entry and state, the staged binary, firewall rules, access lists, the worker and its stop channel | install, uninstall, restart, run |
| command line | `main.rs` | none | dispatch |
| library surface, packaging | `lib.rs`, `install.sh`, `Cargo.toml`, `nix/` | none | none |

How they meet: `main` dispatches to one of them per process. The processes
share files and nothing else: the key pair (any number of roosts), the SSH
config (`add`, `remove`, `list`, ssh itself, editors), the config files (every
command that builds an endpoint, the service, the elevated install), the
endpoint ID file (service, `status`). Fly and roost share the QUIC connection.
The service manager starts and restarts a roost as root.

What is hard about it, part by part, and what makes each part correct:

- **tunnel**: two relays, four copy loops and two processes per session, each
  of which may stop at any point; `select!` drops a copy in the middle of a
  write; a close overtakes the data before it. Correct: nothing is lost from
  the middle, repeated or swapped; a session ends only for a cause of its own;
  an end spreads to the other relay; data flows while nothing ends.
- **identity**: two files written one after the other, by starts that overlap
  or stop anywhere. Correct: one identity that persists, and no key in use that
  is not on disk.
- **routes**: a one-pass edit of a file that belongs to the user, replaced
  through a shared temporary file. Correct: only our own blocks change, ssh
  really uses the new route, an edit can be undone, readers never see half.
- **telemetry**: three files' precedence, a question, a publish after
  the service was started. Correct: no yes, no sending; a no stands; what an
  install reports is what happens.
- **service**: scripts that can be cut off, a manager that restarts the
  process meanwhile, a cache of unit files, a bootout that does not wait.
  Correct: installed means it comes back, with the right arguments; uninstalled
  means gone; status is right.
- **service on Windows**: calls that fail in between, polls that time out, a
  binary that is locked while a process runs from it, an SCM that starts the
  service on its own. Correct: what a command reports is so, and no stop is
  lost.

## 2. Modules

| module | models | checked by | proofs |
|---|---|---|---|
| `Conduit` | the abstract promise: one in-order, gap-free byte conduit per direction of a session | through `Tunnel` | `TunnelRefinement` |
| `Tunnel` | fly, roost, QUIC and the programs at both ends | `MCTunnel` | `TunnelProofs`, `TunnelRefinement` |
| `KeyStore` | the key pair and the starts that use it | `MCKeyStore` | `KeyStoreProofs` |
| `SshConfig` | add, remove, list and the replacement of the file | `MCSshConfig` | `SshConfigProofs`, on the lemmas of `SshPasses` |
| `Telemetry` | the choice, from the question to what is sent | `MCTelemetry` | `TelemetryProofs` |
| `Service` | the systemd and the launchd service | `MCService` | `ServiceProofs` |
| `WindowsService` | the service of the SCM, its firewall rules and its worker | `MCWindowsService` | `WindowsServiceProofs` |

Definitions that start with "Mutant of" in their comment are not part of any
specification; they are the broken variants of `PROJECT.json`.

### Tunnel

A session (`Sessions`) is one local connection of ssh, or the one session of
`fly --stdio`. `ph[s][r]` is where its task is in relay `r`: for fly
`connecting`, `opening`, `bridging` are the awaits of `bridge_connection`
(`tunnel.rs:235-260`), for the roost `accepting`, `dialing`, `bridging` those
of `PigeonsProtocol::accept` (`protocol.rs:25-64`). A lane is one direction,
and its bytes are in one of seven places from `src` to `got`; `CopyRead` and
`CopyWrite` are the two halves of `copy_flush`'s loop, `CopyReturn` is its
return together with the `select!` that drops the other copy and everything the
task owns (`Drop`). `conn[s][r]` is relay `r`'s own view of the connection:
`closed` by its task, `shutdown` by `Tunnel::close`, `gone` with the process,
`lost` when the peer's end or a timeout reached it. `CloseAfter` and
`MainReturns` are `close_after`, ctrl-c included. Reads and writes of any
length, full buffers, dead links, crashes and a roost that is started again are
all steps. Bytes that a dead relay held stay in their place, which is what
makes `Conservation` a statement about losses and not only about order.

Left to the environment (external): QUIC delivers a stream in order, retransmits
while both ends hold the connection, closes on drop and times out; sockets hold
a bounded number of bytes.

### KeyStore

One process per start of a roost. The steps are the awaits of
`dot_ssh_secret_key` and `write_secret_key`: two looks for the files, a load, or
generate, open, write, sync. A file is absent, empty, or holds a key; opening
for write empties it. `Stop` is an error or a kill anywhere. `overlap` is a
history variable: two starts ever were under way at once.

### SshConfig

A config is a sequence of lines of the kinds the code or ssh tells apart: a `Host` line
with the names it matches; `Match`, which stands for any line that begins a
section for ssh and not for the code (`Host` in another spelling too); a
`ProxyCommand` of pigeons with an endpoint (`fly`), one that runs pigeons in a
way the parser does not recognise (`wrapped`), one that has "pigeons" in it and
runs none (`mention`), any other one (`proxy`); other options; blank lines. A
file adds to its lines whether it is there, whether the last line ends in a
newline, and whether any ends in CRLF, which the passes turn into LF. The two
loops over the lines are recursive functions, `Scans` and `Lists`, whose value
at i is the loop's state after i lines (`ScanLine` and `ListLine` are the
bodies); `RemoveHostBlock`, `Added`, `Removed` and `ListTunnelHosts` are what is
made of the last one. An invocation reads, computes, opens the temporary file
(with truncation), writes and renames; descriptors follow the file they opened,
so a run may write into the file another one renamed.

Beside the code's passes stand reference definitions, in ssh's terms: the
`Section` a line is in, the `Route` ssh takes for a name (its first
`ProxyCommand`), and whose line is whose (`OfRoute`: a line of a section of the
name whose `ProxyCommand` invokes pigeons; `Foreign`: everything else). The
properties compare the two. Where the code does not give what its documentation
says in general, the property has the exception written down as a condition of
its own:

| property | leaves out |
|---|---|
| `OnlyOursGo` | `RunsOn`: a block of the name that goes on, for the code, into the next section, a second one of the name or a `Match`. `OnlyMentions`: a section of the name whose `ProxyCommand` has "pigeons" in it and runs none |
| `AddTakesEffect` | names to which a `ProxyCommand` of another section applies (`Unclaimed` is what it asks for) |
| `ListTellsTheTruth` | names to which a `ProxyCommand` of another section applies first (`OwnFirst`), and files that are not `Plain` |
| `RemoveFindsOne` | files with a CRLF, without the last newline, or with blank lines at the end |

### Telemetry

Three files (`user`, `root`, `system`) that hold no file, no setting, on, off or
something unreadable; commands that may ask, store and build; an elevated
install that starts the service and then publishes; an uninstall, which removes
the machine-wide file too, but on Windows; the service, which reads its config
when it starts; and edits by hand. A load reads the process's own file first
(`LoadUser`, `ServiceLoad`) and the machine-wide one in a later step (`Build`,
`ServiceBuild`), and anything may happen in between. The client is counted from
that second read on: what was read decides, and nothing that comes before the
client is made changes it. `yes` and `recorded` are history variables: somebody
ever said yes, and an answer was stored and the file not edited by hand since;
`overlap` says that two commands ever asked at once, and `told` that the service
was started while the report of an install stood.

### Service

The install, uninstall and restart commands with their scripts, one shell
command per action, next to the service's process (`job`): building (with the
look for sshd), publishing its endpoint ID in two steps, running, waiting for
the manager to restart it. `os` is chosen at the start, as `service.rs:84-123`
does. `unit` is the unit file or the plist and `loaded` what systemd or launchd
has of it in memory. The process may fail in any phase, the machine may reboot
and a script may be cut off between any two commands. The install scripts run
under `set -e`, so that a command that fails is a cut. The uninstall scripts do
not: each of their commands may fail (`Attempt`), the next ones run all the
same, and the last one alone decides what is reported (`Concludes`). `missed`
records which commands of the last uninstall failed.

The systems differ in what their managers do. systemd reads a unit when it
first needs it and again on `enable`, `disable` and `daemon-reload`, and starts
at boot what is enabled. launchd takes a job into memory with `bootstrap` only,
refuses that while it still has the old one, and starts at boot whatever plist
there is; its `bootout` tells the process to end (`job = "stopping"`) and the
job goes when the process has (`Ended`), which may be later than the script's
`sleep 1`.

### WindowsService

One action per call of `install_blocking`, `uninstall_blocking` and
`restart_blocking`; `step` is the next call. `entry`, `marked` and `state` are
what the SCM has of the service: its command line, the mark for deletion, and
what it says of it. A marked entry goes when the service has stopped and no
handle is open (`Purge`; `Opened` are the commands' own, `held` anybody
else's). `due` is a start that the SCM makes on its own: the failure action
after a process was killed, the delayed start after a boot. `proc` is the
process from its creation to the report `Stopped`, `leaving` one that has
reported and not ended: both lock the staged binary. `asked` is the message in
the worker's stop channel. `rules` counts the firewall rules by name, and the
two PowerShell scripts may end after any of their lines.

The polls of remove (5 s, then success) and restart (30 s, then an error) are
steps that may be taken however far the process is, since nothing bounds the
time it takes to stop. A process the SCM starts connects to it (`RunService`)
or ends before it does (`UsageError`): the SCM passes it `run-service`, which
the command line of this commit does not know, so that at this commit only the
second happens and no install gets past its last step; the first is what
`windows.rs` is written for.

## 3. Runs

| run | instance | shows |
|---|---|---|
| `tunnel_bytes` | 1 session, 3 bytes up and 1 down, buffers of 2, links and processes that fail | `Conservation`, `NoHoles`; every step of a lane is a step of a conduit (`ConduitSafety`) |
| `tunnel_sessions` | 2 sessions over the same processes, 1 byte | a session ends for a cause of its own, and the relays' views agree (`Orderly`) |
| `tunnel_live` | 1 session, 1 byte each way, all faults, fairness | a hang-up (`HangUpSpreads`) and a give-up (`Teardown`) reach the other relay; bytes flow (`ConduitFlows`) |
| `tunnel_stdio` | the same for `fly --stdio` | the process exits once ssh closed its input (`StdioExits`); bytes flow |
| `key_store` | 3 starts, 3 keys, any overlap, stops anywhere | the five key properties |
| `ssh_config` | 2 invocations (alike: `SYMMETRY`), 2 names, 2 endpoints; files of up to 3 lines of 12 kinds, of 4 lines of the 6 kinds that shape blocks (`FewKinds`), and of up to 2 with CRLF or without the last newline | the edits, the list, atomicity, one of two overlapping runs succeeds |
| `telemetry` | 2 commands, 2 starts of the service, 2 edits of any of the three files | consent, a no stands, asked once, the report predicts |
| `service` | Linux and macOS, 2 sets of arguments, 4 commands, 2 failures (of the process or of an uninstall's command) or reboots, fairness | install, uninstall, status and restart do what they say |
| `windows` | 2 sets of arguments, 4 commands, 2 failed calls, crashes or reboots, fairness | a reported install, uninstall or restart is one (`InstallHolds`, `UninstallCleans`, `RestartRenews`); a stop is heeded (`StopHeeded`) |
| `ssh_torn`, `ssh_taken`, `tel_off` | one property each | disagreements between the code and its documentation, below |

Why the bounds are enough. Tunnel: a buffer of two bytes is the least of
which a write can take half, and a third byte in the lane is the least that can
show that the other half was lost, repeated or overtaken; one byte in the other lane makes the copies race; two sessions are the least
that can disturb each other, and a session is used once because nothing but the
two processes outlives one. KeyStore: a third start is needed to see what a race
of two left. SshConfig: three lines of any kind make a section with two of them in it, or
two sections; four of the kinds that shape blocks make two with a body each, or
one of ours between two others; a CRLF or a missing newline needs one line. Every
property is about one edit, so that two invocations cover what one run leaves to
the next and what two do at once. The run does not try all kinds at four lines;
that neither this nor more lines make a difference is proved.
Telemetry: an install twice, over its own earlier result, and an edit on either
side of it. Service and WindowsService: install, reinstall, uninstall and one
more command, with a failure before and after; a set of arguments that was and
one that is wanted.

Deadlock is checked for `service` and `windows`, which never stop; the other systems end (a
session, a start, an invocation, a command) and their configs say so.

Fairness. *Tunnel*: weak fairness of every step that tokio's scheduler or QUIC
takes by itself: a ready future is polled, packets in flight arrive while both
ends hold the connection, a connection without a peer times out; and of
`AppRead`, a program that reads while its socket is open. Nothing forces a
program to write or hang up, a link to fail or a process to end, except that
`fly --stdio` leaves `close_after` when its session is over. *Service*: weak
fairness of the process's own steps and of systemd's restart
(`Restart=on-failure`); nobody has to run a command, and `AlwaysOn` asks for sshd
to stay up from some point. *WindowsService*: weak fairness of the process's
steps from its creation to its end, so that a build ends, with a roost or with
an error; none of the SCM's own starts, the commands or the polls.

### What the violations show

- `ssh_torn`: `atomic_write` (`ssh.rs:292-302`) truncates one temporary file that
  all invocations share, so a run can rename the file another run has just
  emptied: `~/.ssh/config` is empty, for readers and possibly for good. Without
  overlap it is atomic (`AtomicChange` passes).
- `ssh_taken`: an add of a name that three of the user's blocks have taken
  succeeds, where `ssh.rs:135-137` and `243-244` promise an error. A block that
  another one of the name follows directly is removed with it (the flag
  `has_pigeons_proxy` starts again at every such line); the one that follows
  counts as ours because its `ProxyCommand` has "pigeons" in it, although it
  does not run it (`ssh.rs:269`); and a `Host a b` line does not
  count as taking `a`, so that ssh ignores the new block below it. A file
  without two in a row can get there: from `Host a` with a proxy of the user's, `Host b` and a
  second `Host a`, both of ours, removing `b` and then `a` removes the user's
  block too.
- `tel_off`: an install over a running service restarts it before it publishes
  the choice; it says "off for the service" while the service sends.

Other disagreements the models show. They have no run of their own: the property
they limit is stated for the cases in which it holds.

- Two first starts at once make two identities; one is lost at the next start
  (`IdentityPersists` is for starts that do not overlap).
- `remove` of a name that is not there succeeds if the file lacks its final
  newline, has blank lines at the end, or has a line in CRLF: the text it
  compares with has none of these (`RemoveFindsOne` is for the other files).
- A block of ours ends, for the code, at the next line that begins with
  "Host ": a `Match` section right below it, a `Host` in another spelling, and
  any comment before the next block go with it (`RunsOn`, an exception of
  `OnlyOursGo`; a comment there is a line of the route for ssh too).
- `pigeons list` shows a route to an endpoint although ssh takes an earlier
  `ProxyCommand` that applies to the name, from a section for several names or
  from above all sections (`OwnFirst`, an exception of `ListTellsTheTruth`).
- A service uninstall on Linux or macOS reports success although any command but
  its last failed (no `set -e`; `main.rs:427-436`): after a failed stop the process
  runs on, its endpoint ID removed under it (`UninstallCleans` says what may be
  left and why, `StatusFindsIt` excludes a failed stop). `InstalledStays` also
  excludes, on Linux, an install after an uninstall in which a command failed.
- `main.rs:228-229` says a failed publish leaves the service opted out: it does
  not if the file was written before the failure, or holds an older yes.
- The report of an install looks at the machine-wide config only, the service at
  root's own first (`ReportPredicts` is for a root without a setting of its own).
- A machine-wide config that cannot be parsed voids the user's own setting,
  where `src/README.md:135` says "Your own config wins"; for a no this is on the
  safe side (`NoMeansNo`).
- `service install` over an active service writes the new unit and restarts
  without `daemon-reload`: it goes on with its old arguments
  (`ArgumentsTaken` is for installs that started the service).
- `status` says "running" for a service that has stopped; only the other
  direction holds (`StatusFindsIt`). A roost run by hand as root writes the same
  file; it is not modelled.
- Windows is not "supported" (`src/README.md:99-100`) at this commit: the SCM
  starts `pigeons run-service ...` (`windows.rs:268-279`), `main.rs:49-70` has no
  such subcommand, and nothing else calls `run_service`. The process ends with a
  usage error, and the install with one too.
- `firewall.rs:17` says "Remove old rules if they exist": the HTTPS rule is not
  among them, so each install adds one; `remove_firewall_rules` ends at the first
  rule it does not find, and may leave the ones after it (`InstallHolds` counts
  the two that are replaced).
- An uninstall on Windows leaves `endpoint_id` where it is, and `status` goes on
  calling the service running.
- A Windows install over a running service fails at the staging of its binary,
  although `create_or_configure_service` is ready to update one.
- An uninstall that meets a service just starting has marked it for deletion
  when the SCM refuses the stop: it fails, and so does every later one, until a
  `restart` or a reboot.
- The Windows worker reports exit code 0 after errors, so that its failure
  actions do not apply: "always-on" holds for a killed process only.
- Its roost task blocks a thread of the runtime in `recv` (`windows.rs:690`). With
  one processor it is the only one. Threads are not modelled.
- An install cut off after `enable`, or an uninstall cut off after `disable`,
  leaves a state that a later install does not always repair: if it finds the
  service active it never enables it (`InstalledStays` excludes cut scripts).

## 4. Proofs

Each proof module extends its component and assumes only the component's named
constant assumptions (`ConstantsOK`, `KeysOK`, `RoutesOK`, `TelemetryOK`,
`EditsOK`, `ServiceOK`, `WindowsOK`): any number of sessions, buffer sizes,
starts, keys, commands, edits, failures and reboots. The theorems state the
properties as the runs check them, with no further hypothesis.

The leaves are small enough for slow machines: every module also checks with
`tlapm --stretch 0.1`, a tenth of the provers' time. The concatenation of bytes
is what they are slowest at; `TunnelProofs` states what it needs of it once
(`Associates`, `Shift`) and reasons with `Cat`, whose definition stays closed.

| theorem | states | along |
|---|---|---|
| `TunnelProofs!TypeCorrect` | `Spec => []TypeOK` | one lemma per group of actions, each on a typing lemma for `Move`, `Drop`, `Goto` |
| `TunnelProofs!BytesConserved` | `Spec => []Conservation` | `Conservation` is inductive given types: the lemma `Shift` (moving a prefix from one place to the next does not change their concatenation) for each of the hops, and `AppendConserves` for a write |
| `TunnelProofs!NothingMissing` | `Spec => []NoHoles` | from `Conservation`: `got` is the first summand of the concatenation |
| `TunnelProofs!ViewsAgree` | `Spec => []Orderly` | `Orderly` is inductive: each action that changes a view or a phase establishes the conjuncts that speak of it |
| `TunnelProofs!EndsForACause` | `Spec => []EndHasCause` | the strengthening `Orderly` is needed: a copy that returns saw an end of stream or a lost connection, and `Orderly` traces that to the peer's end, which had a cause before; and `Cause` never goes away again |
| `KeyStoreProofs!TypeCorrect` | `Spec => []TypeOK` | |
| `KeyStoreProofs!KeysServedAreReal` | `Spec => []OnlyRealKeys` | from types: what is served was decoded or generated |
| `KeyStoreProofs!PairStays` | `Spec => PairIsFinal` | a writer past its looks is what `Settled` excludes, and it can have no successors while both files are there |
| `KeyStoreProofs!OneIdentity` | `Spec => []IdentityPersists` | the invariant `IInv`: while no two starts overlap, what is on disk is determined by how far the one start is, and every key served so far is the secret file's |
| `KeyStoreProofs!KeyInUseIsStored` | `Spec => []ServedIsStored` | the same invariant |
| `TunnelRefinement!LanesAreConduits` | `Spec => ConduitSafety` | under `Mapped` (types, `Orderly`, `NoHoles`, and `NotJoined`: nothing is on its way out of a lane whose second relay never joined) a write is a `Write`, a read a `Deliver`, every other step an `End` or a stutter; the work is in `EndStays`: an `Ended` lane stays so, because no relay takes a session up again (`Settled`, `Joins`) and only a bridging one fills a socket (`Inside`) |
| `SshConfigProofs!ReplacedAsAWhole` | `Spec => AtomicChange` | `OneWriter`: while no two runs overlap, the temporary file is the text of the one run, as far as it has written it |
| `SshConfigProofs!OneGetsThrough` | `Spec => []OneOfThemSucceeds` | `TakenByAnother`: a run whose temporary file is gone, from its open on, lost it to a run that is through |
| `SshConfigProofs!TypeCorrect` | `Spec => []TypeOK` | `ScansSteps`, `TidyFacts`: what the passes make of lines is lines |
| `SshConfigProofs!ForeignLinesStay` | `Spec => OnlyOursGo` | `UpToDate`: while no two runs overlap, a text is the edit of the file as it still is; `ScanMeans`: the pass keeps the lines that are not in what it takes for a block of the name; `SectionIsBlock`: unless one runs on, these are the sections ssh sees; `ScanServes`, `RemoveServes`: and unless one only mentions pigeons, each that it dropped runs it |
| `SshConfigProofs!NewRouteIsUsed` | `Spec => AddTakesEffect` | `Origin`: a kept line is still under the Host line it was under, so that no kept ProxyCommand applies to the name now that did not before |
| `SshConfigProofs!RemovedWasThere` | `Spec => RemoveFindsOne` | `NoBlock`: without the name the text is the file, if all lines end in LF; `NoneLeft` |
| `SshConfigProofs!AddThenRemove` | `Spec => []RemoveUndoesAdd` | `AddUndone`: the pass over the new file keeps everything up to the block, drops the three lines of it, and only the blank line between is left to trim |
| `SshConfigProofs!ListIsTrue` | `Spec => []ListTellsTheTruth` | `ListsShow`: after i lines, the entries with the one that is still open are those of the endpoints under a Host line so far; `ListTells`: of a plain file, such an endpoint is the first `ProxyCommand` of the name exactly if no other section's comes first |
| `TelemetryProofs!TypeCorrect` | `Spec => []TypeOK` | `AnswersThere`: what is about to be stored or published is an answer |
| `TelemetryProofs!NothingWithoutConsent` | `Spec => []Consent` | `YesComesFirst`: every "on", in a file, an answer, a choice carried over, has a yes behind it; `EnabledSaysSo`: nothing is enabled that no process has read as on and the machine-wide file does not say |
| `TelemetryProofs!NoStands` | `Spec => []NoMeansNo` | `NoneBeforeBuild` (what a command that runs has read), with `OffIsOff`, about the precedence of the files |
| `TelemetryProofs!QuestionAskedOnce` | `Spec => AskedOnce` | `AskedForWant`: while commands do not overlap, only one asks, for want of an answer, and a stored answer is there |
| `TelemetryProofs!ReportHolds` | `Spec => []ReportPredicts` | `ReportStands`: a report not yet overtaken says what the machine-wide file does; `ToldHolds`: a service started since then has read nothing of root's own where there is nothing; `NothingOfItsOwn`: so that the machine-wide file is what counts |
| `ServiceProofs!TypeCorrect` | `Spec => []TypeOK` | |
| `ServiceProofs!InstallStands` | `Spec => []InstalledStays` | `EnabledIffRunning` and `InstalledRuns` (what the manager keeps up after an install whose script ended, if nothing failed in an uninstall before), `OnRecord`, `OneManager` (what systemd and launchd each never have) |
| `ServiceProofs!InstallTakesArguments` | `Spec => []ArgumentsTaken` | `ScriptsInOrder` (what each command of a script finds done) and `AfterInstall` |
| `ServiceProofs!UninstallIsClean` | `Spec => []UninstallCleans` | `RemovalsInOrder` (what each command of an uninstall finds undone, but for those in `missed`) and `AfterUninstall`, which adds that nothing is enabled or in memory that the manager could start, but through one of those |
| `ServiceProofs!StatusFindsRunning` | `Spec => []StatusFindsIt` | `Published`: no script removes the file while a process is up, but after a stop that failed, and the next start writes it anew |
| `WindowsServiceProofs!TypeCorrect` | `Spec => []TypeOK` | `RulesCounted`: the rules of a name are at most the installs begun |
| `WindowsServiceProofs!InstallIsThere` | `Spec => []InstallHolds` | `InstallDone` (what each step of an install finds done) and `AfterInstall` |
| `WindowsServiceProofs!UninstallIsClean` | `Spec => []UninstallCleans` | `UninstallDone`, `AfterUninstall`: the entry is marked from the delete on, and nobody starts a marked one |
| `WindowsServiceProofs!RestartIsNew` | `Spec => []RestartRenews` | `RestartDone`: from the observed stop on, any process is a new one; `StateIsTrue`: the SCM's state says whether there is one |

The theorems about `SshConfig`'s edits are for every file, of any number of
lines: what the passes compute is proved by induction over the lines
(`SshPasses`). The induction is one over sets of numbers (`UpTo`), from the
least element that a set of numbers has (`WFMin` of the library), and the
recursive functions of the passes are first shown to satisfy their equations
(`Iterates`, `ScansUnfold`). From then on each lemma has the same shape: what
the loop's state stands for after i lines, in terms of the Host line that each
line is under.

Only model-checked: liveness under fairness (`HangUpSpreads`, `Teardown`,
`ConduitFlows`, `StdioExits`, `AlwaysOn`, `StopHeeded`), which the prover cannot
reach. Every other property of a passing run is a theorem.

## 5. Not modelled

- What the libraries do inside: QUIC's packets, hole punching and relays, TLS,
  the key format, what the metrics contain.
- On Windows: threads, which account has which access (one bit, `granted`), the
  SCM's dependency on sshd, a change of a service's failure actions that fails
  after the change of its command line.
- File permissions, argument parsing and name checks, logging, `paths`,
  `version`, `service log`, the packaging.
- The binary replacement of upgrades; a key or config deleted by hand while a
  process runs (edits of the telemetry configs are modelled).

## 6. Plan

1. (done) Tunnel with its abstract Conduit, KeyStore, SshConfig, Telemetry,
   Service; proofs for Tunnel and KeyStore.
2. (done) launchd beside systemd in Service; WindowsService with its firewall
   rules and its worker.
3. A composition of Service and Telemetry where the restart of the one is the
   config load of the other, so that the old arguments and the old choice are
   seen together.
4. (done) Proofs for Service, WindowsService, Telemetry and SshConfig with its
   passes over the lines; the refinement of `Conduit`.
