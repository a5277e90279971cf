# udp-knock: a TLA+ model

udp-knock opens and closes firewall rules by single, encrypted UDP datagrams. A server
(OpenWrt, Linux, Windows) waits for commands; a client sends one, waits for one answer and
reports. This directory holds TLA+ modules that model the program, the TLC configurations
that check them on small instances, and proofs, checked by TLAPS, of what matters most for
every instance. `PROJECT.json` maps each definition to the lines it stands for, and lists the
runs, the hazards, the findings and the theorems.

Paths such as `src/src/server.rs` are relative to the directory above this one; `src/` is the
repository.

## 1. The system

| Part | Source | State it keeps | Operations |
|---|---|---|---|
| Client | `client.rs` | one socket with an ephemeral port, a read timeout | `send_command`: bind, set timeout, send, receive once, decrypt, report |
| Server loop | `server.rs`, `Server::run` | the socket, the datagram in hand | receive, whitelist, limiter, decode, decrypt, parse, check stamp, execute, respond |
| Rate limiter | `server.rs`, `RateLimiter` | per address, the instants of the last admissions | `check_and_record` |
| Authentication | `crypto.rs` | two derived keys | `encrypt`, `decrypt`, `current_timestamp`, `verify_timestamp` |
| Commands | `server.rs`, `execute_command` | none | list (paged), enable, disable, create, delete, status, update |
| Firewall interface | `firewall/mod.rs` | none | the trait `FirewallManager` |
| OpenWrt backend | `firewall/openwrt.rs` | none; works on UCI's file and staged changes | `uci set`, `uci delete`, `uci commit`, reload |
| Windows backend | `firewall/windows.rs` | a copy of rules in memory, used when netsh fails | one netsh `add`, `set` or `delete` per call; `update_rule`: show twice, delete, add |
| Linux backend | `firewall/linux.rs` | a `Vec` of rules in memory (a placeholder: no firewall is touched) | create, enable, disable, delete, list |
| Configuration, command line | `config.rs`, `main.rs` | a JSON file | init, load (twice if need be), choice of the backend |

How they interact. Client and server exchange one datagram each way; nothing but the
encrypted text links them, and a response carries no request number. The server is one
thread: while a command is executed, which on every platform runs external programs and waits
for them (except on Linux, where it only changes memory), nothing is received. The limiter is consulted before anything is known of a
datagram's content, the stamp after decryption. `execute_command` calls the backend through
the trait and turns `Ok` or `Err` into the `success` flag of the response.

What is hard here:

* The network loses, duplicates, delays, reorders and corrupts datagrams; the only defence
  against carrying out an old one is a time stamp.
* Three clocks: the client's and the server's wall clocks, which disagree and are set, and the
  monotonic clock of the limiter.
* The server knows a client by the address a datagram shows, which the key does not protect.
* A client times out while the server is still at work; its port is reused, and the late answer
  finds another command.
* The server dies between accepting and answering; the limiter's memory dies with it.
* A backend call is several external commands. Each may fail, the process may die between two,
  and what is staged is committed by the next call, whatever rule that one is about.
* In netsh a rule's name is no key, the rules can be edited by others between two commands, and
  addresses are texts in five notations that are matched as text.
* A copy in memory answers for the Windows firewall when netsh fails.
* The configuration file is written in place while others read it.
* The list of rules is read page by page by position, while the order and the rules change.

## 2. What makes each part correct

* Limiter: no window of the given length, wherever it starts, holds more admissions than the
  limit; nobody is refused unless the window is full of admissions of their own.
* Server: the firewall is called only for complete, authentic commands of listed addresses whose
  stamp is within the window, in real time too; the calls, made whenever they are made, stay
  within the limit and one in every window; the server answers nothing but such commands; it
  claims success only when the firewall did.
* Client: a reported success is a firewall call that succeeded for a command that arrived under
  its address; every command ends in a report.
* Backend: a call takes effect on the rule it names, at one moment, or returns an error; only
  that rule may be left in doubt; no half-made rule is committed.
* Windows backend: an update leaves one rule with the merged addresses, loses nothing unnoticed
  and touches no other rule; an answer of success, or a listed rule, is the state of the firewall
  as long as this process has not failed to make that rule.
* Address texts: an update drops the addresses its pattern speaks of, and otherwise only what
  its digits begin; with one new address the pattern does not match it does nothing when it is
  repeated.
* Configuration: a server never runs with half a file, or with the default key because of one.
* Linux backend: one rule per name, as the last call left it.
* Paging: the datagrams fit, the pages continue each other without gap or repetition, and end; a
  rule removed meanwhile hides at most one other.

## 3. Modules

| Module | Models | |
|---|---|---|
| `SlidingWindow` | `check_and_record` as operators on one log | operators |
| `RateLimiter` | the limiter over time, several addresses | machine; extends `SlidingWindow` |
| `Knock` | clients, network, clocks, `Server::run`, stamp check, crash and restart | machine; extends `SlidingWindow` |
| `KnockService` | what the whole promises | abstract; implemented by `Knock` |
| `ListPaging` | the list action and a user who follows its hints | machine |
| `FirewallContract` | what the server may assume of a backend | abstract; implemented by `OpenWrtFirewall` |
| `OpenWrtFirewall` | the OpenWrt backend and UCI | machine |
| `IpMatch` | address texts and the matcher of the Windows backend | operators |
| `AddressMerge` | how `update_rule` makes the new address list | machine; extends `IpMatch` |
| `RuleMemory` | rules in a `Vec` in memory | operators |
| `WindowsFirewall` | the Windows backend, netsh, edits by others, crashes | machine; extends `RuleMemory` |
| `Host` | the configuration file, init, the start of a server, the Linux backend | machine; extends `RuleMemory` |
| `MC...` | instances for TLC | |
| `..._proofs` | theorems and proofs | extend the module they are about |

### SlidingWindow and RateLimiter

The code keeps a `Vec<Instant>` per address. Only its length and elements matter, and two
elements may be equal, so a log is a set of records `[at, nth]`, where `nth` tells the
admissions of one instant apart. `Live` is `retain`, `Allows` the returned value,
`CheckAndRecord` the log left behind; a limit of 0 leaves the log alone. `RateLimiter` calls
this for several addresses while time passes, and keeps as history all admissions and all
refusals, which the properties compare.

### Knock

Every run of the client program is an element of `Cmds`. `Send` is `send_command` up to
`send_to`; `order[c]` is what the datagram says (its profile, stamp, port and the moment).
`TakeReply`, `ClientTimeout`, `ReceiveFails` (an error of `recv_from` other than the timeout) and
`NotSent` are the ways `send_command` ends. The server's `pc`
is at `recv`, `execute` or `respond`, or `down`. Each early `continue` of the loop is an action
(`DropUnlisted`, `DropOverLimit`, `DropUnreadable`, `DropExpired`), with the guards of the
checks before it; `RejectUnparsable` is the error answer to unreadable JSON; `Accept` leads to
`ExecuteCall` or `ExecuteIncomplete` (unknown action, missing parameters) and `Respond`.
Receiving and checking one datagram is one step: the loop is the only thread, and nothing it
reads meanwhile can be changed by anybody else except the clock, which the code reads once per
check. Executing and answering are steps of their own, so time, clocks, clients and crashes
come in between.

A request that is received is a command together with the address it shows (`from`), any of the
model's addresses: the key does not protect the address, and a copy that somebody sends on shows
another than its maker's. Whitelist and limiter look at that address (`SourceIp`), and the
response goes there (`Answer`), as `client_ip` and `src_addr` do in the code. A command's own
address, `Address(c)`, is where its socket can be reached.

`net` and `replies` only grow. A datagram in them can be delivered at any later time, any
number of times, intact or not, or never; this is loss, duplication, delay and reordering.
A datagram "opens" under the key it was made with unless it was corrupted: that is all that is
kept of AES-GCM, HMAC and Base64.

`calls`, the history of firewall calls, numbers them (`nth`), so that two equal calls in one
second are two. Each has the time and the clock of its admission (`time`, `wall`) and the moment
it is made (`at`), which is later by as much as calls before it and the machine take.
`CalledInWindow` and `FreshInRealTime` are about the former, since that is when the code looks
at the stamp; `CallsWithinLimit` is about the latter. The bound it gives is the limit and one,
and that is attained: with a limit of 1 per 2 seconds, a request admitted at 0 whose call is made
at 1 and another admitted and called at 2 are two calls in one window. Response datagrams are kept with the command they answer (`cmd`) so that properties can speak
of it; the code's payload has no such field, and no guard uses it.

### KnockService

Commands are issued, the firewall is called, commands are reported. A call needs an issued
order of a permitted address under the server's key that says completely what to do, with a
stamp within the window; a success needs a call that succeeded for an order that arrived from the
command's own address.
Server, network, limiter and clocks are gone. `Knock!ImplementsService` maps `calls` by
leaving out real time and run.

### ListPaging

Each request lists anew, filters, skips and fills a page until the size test fails and takes
the last rule back. Rules have the bytes they take in JSON. The test is on a response with the
message "test", of at most 2500 bytes (`PageLimit`, `Size`); the one that is sent has a message
with three or four positions in it (`Message`), and is encrypted and written in Base64
(`Datagram`). `DatagramWithinLimit` is about that one and the 4096 bytes of the comment at
server.rs:227: beside 2500 bytes there is room for a message of some 500,
and it has at most 140, so it holds.

`Shuffled` says whether `list_rules` collects in a `HashMap` (OpenWrt) or keeps the firewall's
order (Windows). `Fallbacks` are the lists it returns, as a success, without having seen a rule: on
OpenWrt none when uci fails, on Windows the copy in memory when netsh fails or shows no rule. They
may come with any request (`ListRules`). The user starts with any filter and offset and follows
the hint; others create and delete rules. `disturbed` is history: the rules have changed since
the start, or a listing was a fallback; `strayed` only the latter. A listing that fails at the
second page ends the reading with no hint, although rules were left: the user is not told.
`PagesContinue` therefore excludes such readings, and `ReadingEnds` includes them.
`EachRemovalHidesOne` is what remains true of a reading during which the rules change: the rules
that were there all the time and are not shown are no more than the removals. It does not hold
with a `HashMap`, nor with a fallback.

### FirewallContract and OpenWrtFirewall

The contract knows the rules in force, the call in progress, whether it has been applied, and
the names in doubt. A call that ends without having been applied may leave its own name in
doubt; creating or deleting it settles it.

`OpenWrtFirewall` has UCI's file, its staged view and the rule set in force. `CreateStep` is
one `uci set` of `create_rule`, in the order of the code; `SetEnabled` and `DeleteSection` the
one of the other calls; `Commit`, `Reload` and `ReloadFails` are `reload_firewall`. Every
command may fail (`UciFails`), which ends the call with an error and reverts nothing. `Crash`
keeps what is staged, `Reboot` drops it. A call takes effect with the commit: in the contract's
terms `applied` is `pc = "reload"`. `ListRules` is `list_rules`, with the values that stand in for
options that are not set; `ListRulesFails` is its other end, a failing `uci show` answered with
an empty list and success (openwrt.rs:55-58; spec.md line 150 wants an error).
`ListShowsCommitted` says that the list has exactly the committed rules or none at all. The options `name`, `dest` and `proto` behave as their
neighbours and are left out.

### IpMatch and AddressMerge

A text is a record whose kind is what the code tells apart by the characters `/`, `*`, `-` and
`,`. An octet has `OctetBits` bits and masks go up to four times that. `Masked` is the mask
arithmetic, with `Pow2` for the shift; that `1u32 << 32` would wrap is what `Masked_Bug` does. `MatchesPattern` is
`ip_matches_pattern`, by which an update drops old addresses. Digits as a prefix (`starts_with`)
are kept as numbers: `DecimalPrefix`. A pattern with four parts and a dot, or with more than four
parts, begins no address.

`AddressMerge` is the loop of `update_rule` and what follows it, for any pattern, new address
and printed list. The properties compare it with `Means`, which says bit by bit, octet by octet,
what a text speaks of, without masks or numbers of the whole address.

What the model makes visible and no property calls wrong: a network or a range in the rule is
judged by its first address; a pattern with commas matches nothing; an update whose pattern
covers its own new address, or whose new address has commas, rebuilds the rule each time it is
repeated (`RepeatedUpdateChangesNothing` is about the other updates). That `1.2.3.1` as the old
address also drops `1.2.3.10` is a finding (`ip_prefix`); `DropsNothingElse` says how far it goes.

### WindowsFirewall

`firewall` is a set of rules: name and direction are no key. `copy` is `fallback_rules`. create,
enable, disable and delete are one netsh command, and one step, each with a failing variant that
turns to the copy. An update goes through `pc`: `UpdateLooksUp` (`get_rule_full_info`, the values
of the last rule shown), `UpdateCompares` (`get_rule_remote_ips`, the addresses of the first one,
and the merge), `UpdateRemoves`, `UpdateAdds`; each has a failing variant, and between them
others edit the firewall (`Edit`) or the server dies (`Crash`). netsh shows rules in no promised
order, so "first" and "last" are any two. Patterns are a function from texts to sets of texts
(`Matches`), since `AddressMerge` is about that; a list with commas is one text for the test that
finds nothing to do (`Same`). The protocol behaves as the action, and remote port, local address
and description as a setting that is not given. `scope` is all that netsh keeps of a rule and
`RuleFullInfo` has no field for: profile, program, service, interface type. What netsh does with
a list in which `Any` stands beside addresses is not known: both outcomes are possible
(`Dubious`).

A name is passed on as it is, and netsh takes `all` for every rule: `AllRules` is given as a name
beside `Names`, `Concerns` covers all rules for it, and `add` refuses it. `OnlyChosenRulesChange`
is about the other names. An update of `all` deletes every rule of the direction and then fails to
add one; `LossIsReported` covers it.

`UpdateMerges` is exact when one rule has the name and the direction: the new rule is that one
with the merged addresses and with what the call gave, apart from several ports becoming one.
When several rules have them, addresses come from the first one shown and everything else from the
last, so that a rule for everybody that blocks and one that allows an address on a port can make
one that allows everybody on it. The property states exactly that: the addresses of one of them,
the rest of one of them.

An action the client leaves empty goes to netsh as an empty action when the rule does not exist;
netsh refuses that (`Accepted`).

`before`, `edited` and `unmade` are history: the firewall when an update began, whether others
have edited it since the call began, and the names this process has failed to make a rule for.

### RuleMemory and Host

Both backends with a memory do the same with it: a set of records, one per name.

`Host` has the file and the processes that touch it: `init` truncates it and writes it, or dies
in between; a user edits, breaks or removes it; `Start` and `Retry` are the two attempts of
`main` to load it. `seen` is the set of files there were while the server started. A server whose
platform is Linux (in any case of letters: `Linux` stands for that) keeps its rules in `rules`,
and `told` says what its calls made of each name. Another platform that is not known is OpenWrt
(`other`). `exists` and `read` of the file are one step.

## 4. Runs

| Run | Instance | States | Shows |
|---|---|---|---|
| `rate_limiter` | 2 addresses, limit 2, window 3, 4 ticks, 2 requests per instant | 80,614 | `WindowBound`, `RefusedOnlyWhenFull`, `LogBounded` |
| `knock` | 2 commands of 4 kinds, 2 source addresses, 2 keys, window 1, limit 1 per 2, 2 ticks, 2 clock offsets, 1 crash | 1,167,814 | safety and `ImplementsService` |
| `knock_live` | 2 commands of 3 kinds, 2 source addresses, 2 ticks, 1 crash | 68,119 | `ClientAlwaysReports`, `AcceptedIsAnswered` |
| `knock_replay` | as `knock`, one clock, limit 2, 3 ticks | | violation: a command is carried out twice |
| `paging` | 5 rules of 3 sizes, 2 filters, first offset up to 1, 2 changes, 2 fallbacks | 450,979 | `DatagramWithinLimit`, `PagesContinue`, `EachRemovalHidesOne`, `ReadingEnds` |
| `paging_shuffled` | 3 rules, 2 per page | | violation: a rule is never shown |
| `openwrt` | 2 names, 2 specifications, 2 faults | 173,626 | `CommittedRulesComplete`, `ListShowsCommitted`, `ImplementsContract` |
| `openwrt_reload` | the same, 1 fault | | violation: a failed reload is a success |
| `ip_match` | 49 patterns, 4 new addresses, lists of up to 2 of 13 entries, octets of 4 bits | 140,532 | `DropsWhatIsMeant`, `DropsNothingElse`, `RepeatedUpdateChangesNothing` |
| `ip_prefix` | the same | | violation: the digits of an address drop others |
| `windows` | 2 names and `all`, 2 directions, 3 calls, 2 faults, 1 edit, at most 2 rules when one is made | 821,807 | `UpdateMerges`, `LossIsReported`, `SuccessIsInForce`, `ListIsReal`, `OnlyChosenRulesChange` |
| `host` | 2 keys, 3 platforms, 2 names, 2 edits, 2 deaths | 814,557 | `KeyWasWritten`, `MemoryIsAsTold` |

Run one with `tlc -config MCKnock.cfg MCKnock.tla`.

Why the bounds are enough. In `rate_limiter`, windows overlap: 5 instants cover a window of 3
that starts at every phase, and two requests per instant fill it in every way. In `knock`, the
window of 1 and times up to 2 give stamps before, at and after both edges, with a client clock
that is 2 ahead and a server clock that may be 1 ahead and be set in either direction; two
commands are enough for a port to be reused, for a stale answer, for a duplicate to compete with
another command for the limit; two source addresses, one of them listed, for a command that
comes, or comes again, from where it was not made (two listed ones, and ports, are left to the
proofs); one crash separates two runs. In `paging`, a page holds two small rules or one large,
which fills it to the last byte, the huge one none, so every page boundary occurs; one change is
enough to make an offset stale, and the second makes the removals and the insertions of one
reading meet. In `openwrt`, two names are the call that fails half-way and the one
that commits it; two faults are a fault during the repair of a fault.

In `ip_match`, octets of 4 bits still have numbers of one and two digits that begin with each
other (1, 10, 15); the masks are 0, 1, those at and around the edge of an octet, the full width
and one more; ranges start below, at and above addresses, and some are empty; two entries are a
loop that drops the first, the second, both or none. In `windows`, three calls are one that
leaves something in the copy and two that meet it; the two rules that exist differ in every field
but the name and the direction; two faults are a failing command and the crash, or the failure
of the call that would repair it. In `host`, two deaths are one of init and one of the server,
and two edits make the file good, bad and absent around them.

`MaxTime`, `MaxNow`, `MaxAsked`, `MaxCrashes`, `MaxFaults`, `MaxOffset`, `MaxChanges`,
`MaxEntries`, `MaxRules`, `MaxCalls`, `MaxEdits` and `MaxDeaths` are bounds of the model only.
Deadlock is not checked where the bounded clock or the users stop (`RateLimiter`, `Knock`,
`ListPaging`) or the calls are used up (`WindowsFirewall`, `AddressMerge`, where a behaviour is
one update); it is in `openwrt` and `host`.

Definitions whose name contains `_Bug` are used by no specification: each is the definition
after it with a plausible mistake, and the property it is listed with in `PROJECT.json` is
violated when it takes that definition's place.

### Fairness

`knock_live` assumes that time passes, that a read timeout fires once due (the operating
system's promise for a socket with `SO_RCVTIMEO`), and that the server's thread goes on with what
is its own: refusing a command that is not complete, and answering. Nothing is assumed of a call
of the firewall: `Command::output` waits for the external program without a timeout, and a
program that hangs stops the server for good. `AcceptedIsAnswered` says that this is the only
thing that does: a command that was accepted is answered, or the server dies, or it is waiting
for an external program from some moment on. Nothing is assumed of the network, of receiving, or
of a restart. `ClientAlwaysReports` holds without any help of the server, also while it hangs; it
fails if a timeout of 0, which `-t 0` asks for, were not refused by `set_read_timeout`.

`ReadingEnds` assumes a user who goes on while there is a hint (`WF_vars(More)`); it is about
the hints, not about the server's scheduling.

## 5. Proofs

All theorems hold for every value of the constants under the assumptions named in the modules
(`RateLimitAssumption`, `RateWindowAssumption`, `BoundsAssumption`, `ProfilesAssumption`,
`ClocksAssumption`, `AbsenceAssumption`, `PagingAssumption`, `OpenWrtAssumption`,
`WindowsAssumption`, `OctetBitsAssumption`, `MergeAssumption`, `HostAssumption`), which only say
that counts are numbers, clocks integers, texts records of their kind, sets of rules finite, and
that the values for "nothing" are none of the others. Where a theorem needs more, it says so
itself (`ReplaysAreLimited`, `NeverStuck` and two about pages).

`SlidingWindow_proofs`: what `retain` leaves, that numbering keeps equal instants apart, and that
`check_and_record` keeps a log within the limit. Used by both machines.

`RateLimiter_proofs`: `TypeCorrect`, `WindowIsBounded`, `RefusalsAreJustified`, `LogIsBounded`.
`WindowBound` is not inductive: it speaks of all admissions, the code decides by its log. The
invariant adds that the log agrees with the history for every window from now on
(`LogMatchesHistory`), that history lies in the past, and that equal instants are numbered
without gaps, so that an admission makes a window larger by exactly one.

`Knock_proofs`: `TypeCorrect`, `CallsAreChecked`, `CallsAreFresh`, `SuccessesAreReal`,
`ResponsesAreEarned` and the refinement `KnockRefinesService`. What a call or a report rests on
was established several steps before, by another process, so the invariant carries it: orders
are written once and stamped by their sender's clock; what is in the network has an order; the
job in hand has passed the checks at a reading of the server's clock (`JobChecked`); a verdict
of success is that of a call. Freshness in real time then is arithmetic on two clock readings
(`TimelyIsFresh`).

`CallsAreLimited`, in the same module. The limiter counts admissions, most of which never lead
to a call, and a call comes later than its admission, by any time. `LogCoversCalls` says that for
every moment still to come, the calls of this run admitted since, and the command about to be
executed, are no more than the entries of the log that are live then, so that every window holds
no more admissions of commands that were called than the limit (`AdmissionsWithinLimit`). Calls are
made one after the other (`CallsSerial`): each was admitted after the one before it was made. Of
the calls made in a window all but the first were therefore admitted in it (`WindowOfCalls`),
hence the limit and one. A crash starts a new run without calls, so an empty log covers it; across
a restart nothing is claimed.

`ReplaysAreLimited` is what holds in place of `CalledAtMostOnce`, which `knock_replay` refutes:
for each source address its copies show, one run of the server carries one command out at most
`RateLimit` times, however often they arrive. Such calls were admitted between the moment the
command was sent and the moment its stamp expires; if that time fits into the limiter's window,
they are all admitted in one window. Copies that show other addresses are counted for those, so
with an empty whitelist the number of addresses is the only bound on the whole. The hypotheses
are those that this needs: there is a limit (0 turns it off), and no client's clock is so far
ahead of the server's that the stamp outlives the window (`ClocksClose`; with 30 and 60 seconds,
less than 30 seconds ahead). A stamp of a clock that would be before 1970, which the code makes 0,
is left out.

`OpenWrtFirewall_proofs`: `TypeCorrect`, `RulesAreComplete`, `ListIsCommitted`,
`OpenWrtKeepsContract`, and two action properties, `SuccessIsCommitted` and `OthersAreKept`. A commit writes what several commands staged, so the invariant says
which options a creation has set so far (`CreatedSoFar`), what the section will be at the commit
(`ReadyToCommit`), and that the staged section of every other name not in doubt is the
committed one (`InStep`). The refinement maps the commit to the contract's `Apply`, the end of a
call to `ReturnOk`, `ReturnError` or `Die`, and everything else to a stutter. `SuccessIsCommitted`
is what remains true beside `openwrt_reload`: a success is in the configuration file, in full,
even if not in force; it needs that what the call stages is all there before the commit and
stays (`Effected`). `OthersAreKept` says that although a commit writes everything that is
staged, only the call's own rule and those in doubt change.

`WindowsFirewall_proofs`: all six properties of the run, for any rules, patterns and numbers of
calls, faults and edits. What an update promises at its end was decided three commands earlier,
so the invariant (`Pending`) carries the plan along: as long as nobody has edited the firewall,
the rules the call speaks of are still those it began with until the delete and none after it,
and the plan is what a rule there was makes of the call (`EffectiveKeeps`), then with its merged
addresses, and of a single rule that rule's in everything (`PlanIsUpdated`). `CopyIsUnmade` says that every entry of the copy has a name this process has failed to
make and that a name is there once; `SuccessIsInForce` and `ListIsReal` rest on it.

`AddressMerge_proofs`: all properties of the run, `TypeCorrect`, `DroppedIfMeant`,
`NothingElseDropped` and `RepetitionIsIdle`, for octets of any width. The list holds, in every round, nothing but what the pattern leaves of entries, and
all of that (`ListIsMerged`), and neither stripping a mask nor printing it again changes what a
pattern says of a text (`StillUnmatched`). What is left is that the matcher means what the texts
mean, and that is arithmetic: the matcher computes with the number of an address, `Means` reads
its octets and bits. `NumOrder` (the order of numbers is that of addresses read from the left)
gives ranges; `BitOfNum` and `MaskedAgree` (two numbers have the same masked part just when their
first bits agree, by induction on the length of the mask) give masks, the full and the empty one
included. `PrefixMeans` is about digits. `MeantIsMatched` and `MatchedIsMeant` put the notations together.

`ListPaging_proofs`: `TypeCorrect`, `PagesFit`, `PagesAreFull`, `NeverStuck`, `HintsAdvance`,
`PagesFollow` and `EveryRuleShown`. `Sizes` and `Passed`, the length of a response and the
filter, are recursive functions, and `SizesDefined` and its like prove that they exist and follow
their equations; `PageContents` says what a page is: a piece of the list from the offset on, as
long as it fits. `PagesFit` is about the datagram that is sent, in every state, whoever changes the
rules and whatever `list_rules` returns: it needs that the page passed the test
(`PageWithinLimit`, part of the invariant) and arithmetic on message and encryption. `PagesFollow`
and `EveryRuleShown` are about an undisturbed reader, without changes and failed listings, of a
backend that keeps its order (the hypothesis
`~Shuffled`; for the other, `paging_shuffled` is the counterexample): the invariant `ReadsOn` says
that what he has seen is the piece of the list from where he started to the end of the last page.
`HintsAdvance` is an action property, the safety half of `ReadingEnds`: in any order of the rules
and whoever edits them, a hint that is followed ends further on, or reading stops. `NeverStuck`
excludes the hint that leads to itself if every rule fits a page of its own, which nothing in the
code ensures.

Induction. The library's theorems of induction take an operator as a parameter and cannot be used
here; `Induction` in both modules is about a set of numbers instead, by way of the least element
outside it (`WFMin` of the library). Hence `Pow2`, `Sizes` and `Passed` are functions.

`Host_proofs`: `TypeCorrect`, `KeysWereWritten`, `MemoriesAreAsTold`. Between the two attempts to
load, the file as it is now is one of those seen (`FileIsSeen`); an entry of the memory is about
its own name (`ToldOfItsName`), so that a memory made by `retain` and `push` is a function.

Only model-checked: `ClientAlwaysReports`, `AcceptedIsAnswered` and `ReadingEnds`, as liveness is
out of the prover's reach; `EachRemovalHidesOne`, which needs an induction over both lists at
once; and the violations. Every other invariant of a passing run, every action property and both
refinements are theorems.

## 6. Findings

1. `knock_replay`: README.md line 10 says the time window effectively prevents replay; a
   datagram that arrives twice within 30 seconds of its stamp is carried out twice. What does
   hold is proved: the calls are fresh and limited, and with clocks that agree so is the number
   of times one datagram is carried out.
2. `openwrt_reload`: spec.md line 150 says a failing firewall command is answered with an error;
   a failing reload is answered with success. What does hold is proved: the rule is committed.
3. `paging_shuffled`: the hint for the next page refers to positions in an order that the OpenWrt
   backend does not keep from one request to the next.
4. `ip_prefix`: the comment at windows.rs:937 says that the old addresses are filtered by network,
   wildcard and range "and not by simple equality or prefix", and the one at windows.rs:337 wants
   the prefix for notations like `192.168.1.`; an update with the old address `1.2.3.1` also drops
   `1.2.3.10` and `1.2.3.100` from the rule. How far this goes is proved (`NothingElseDropped`).

Seen while modelling the server and the limiter, and not runs of their own: README.md line 14
announces a token bucket, and the code is a sliding log, which admits nothing after a burst until
its entries leave the window (`RefusedOnlyWhenFull` and `WindowBound` say what it does);
`list_rules` of the OpenWrt backend answers success without a rule when uci fails
(openwrt.rs:55-58), again unlike spec.md line 150.

Seen while modelling the Windows backend, and not runs of their own:

* `create_rule` answers success when netsh fails (windows.rs:705-719), again unlike spec.md line
  150; `SuccessIsInForce` states what remains true.
* The comment at windows.rs:967 says that what is not given keeps the old rule's value; of the
  ports `80,443` only 80 is kept, and profile, program, service and interface are lost.
  `UpdateMerges` states what remains true: of several ports one is kept, all else is as it was,
  unless several rules share name and direction.
* The name `all` reaches netsh, which takes it for every rule: a delete of it empties the firewall,
  and an update of it deletes the rules of a direction and adds none.
* "already configured correctly" (server.rs:445) is decided by the addresses alone, also when the
  action, the port or the state that were given differ from the rule's.
* `create_rule` does not pass `dest` to netsh.

## 7. Not modelled, and what is left

Not modelled: key derivation, cipher and byte layout (by assumption, see above); the text of
messages and logs; the parsing of `uci show` and of netsh's output, which is taken for what it
says; the helpers of `windows.rs` that nothing calls (`update_rule_ip_only`,
`update_rule_with_multiple_ips`, `verify_rule`, `verify_rule_simple`, `ip_match`, `is_ip_matched`,
`get_rule_info`, `compare_ip_lists`);
argument parsing; `status`, which changes nothing; build and release.

Left, in this order: a composition of `Knock` with `FirewallContract`, so that a reported success
is a rule committed; `WindowsFirewall` against a contract with rules that share a name, which
`FirewallContract` does not have.
