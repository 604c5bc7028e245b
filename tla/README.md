# TLA+ models of cymail

cymail is a command-line scanner of mail security (Rust, one crate). This
directory holds TLA+ modules for the parts of it that keep state over several
steps, TLC configurations that check them on small instances, and proofs,
checked by TLAPS, of every invariant the runs check, for every value of the
constants. Source paths below are relative to the repository root; the crate's
modules are `src/*.rs`.

## 1. Inventory

Every subcommand is one invocation of one component, started by `main.rs`; the
components call each other rarely (`leak` calls the feeds, `reputation` calls
BIMI's validation, `serve` calls the scanners and the exports), and share nothing
but files: the feed cache under the user's cache
directory, and the installed executable that `upgrade` replaces. The peers are
network services: DNS, SMTP servers, crt.sh, CertStream, GitHub, EmailRep,
breach-data providers.

| Component | State it keeps | Operations | What is hard | What makes it correct |
|---|---|---|---|---|
| SMTP probe, `smtp.rs` | MX list, connection, lines heard, `PortProbe`, reports | resolve, connect, banner, EHLO, STARTTLS, handshake, second connection, MAIL/RCPT/RSET, findings | replies may be late, split, many-lined or missing; three nested timeouts | replies are matched with their commands; verdicts are the server's own; one report per host; it ends |
| Upgrade, `upgrade.rs` | installed file, temp file, the running image | fetch release, download, compare checksum, write, verify, rename | two upgraders, crashes, a release that appears in pieces or is withdrawn, Linux' deleted image | the installed file is whole; each swap is justified by the checks; nothing unsigned on Windows; no downgrade |
| Feeds and their cache, `feeds/*.rs` | a JSON file per (feed, domain) with its mtime | read cache, request, poll (IntelX), write cache | several runs on one file, age and body read separately, truncating writes, wall clock | what is answered from the cache is one whole and recent result; a fresh one is not asked for again; it ends |
| Discovery, `discover.rs` | `emails`, `seen`, the catch-all verdict | crt.sh, SOA, guesses, catch-all probe, validation, EmailRep | the same address from several sources; an SMTP dialogue per address; a single deadline | a positive verdict is the server's; sources win; only confirmed addresses leave the machine; it ends |
| CT watch, `ct_stream.rs` | subscription, started time | connect, read, match, reconnect | breaks with messages in transit, pauses, `max_runtime` | every match is reported once and in order; attempts are paced; it reconnects, and ends |
| RUA parser, `rua/xml_parser.rs` | element stack, current record and results | Start, Text, End, Eof events | the same names at several places of a document; documents cut short | the report is the one the document states |
| RUA rollup, `rua/aggregate.rs` | reports seen, tables by address and organisation | visit files and archives, roll up | order of the directory, duplicates, foreign domains, broken members | the tables agree with each other and with the directory |
| Header analysis, `header/*.rs` | none beyond one message | order of Received, ARC structure, DKIM body hash | messages rewritten on their way; wrong clocks; partial chains | no honest hop or chain is suspected, a chain without finding is whole and does not end in a failure, the hash is RFC 6376's |
| Domain scan, `scan.rs spf.rs dkim.rs dmarc.rs scoring.rs` | three results, then the score | TXT lookups, classification by substring, score, grade | a lookup fails or finds nothing, a tag's text occurs within another tag | of plainly written records the verdict and the grade are the records' own |
| Reputation, `reputation.rs` | the report in the making | MX addresses, block lists, BIMI, DNSSEC, SPF lookup count, DKIM keys | counting through includes, key sizes inferred from lengths | a record called over the limit is; the two judgements of a key agree |
| Extended reputation, `reputation_ext.rs` | none | HTTP lookups copied into fields | - | - |
| BIMI, `bimi/mod.rs` | five flags of one validation | fetch and judge logo and certificate | flags set on separate paths, requests that fail or break off | valid exactly when each check passed on a document that was fetched |
| Leak report, `leak.rs` | the report in the making | breaches, code search, variants and their certificates, feeds | a source that fails in the middle of a list | each variant answered about is reported once, with its own certificates |
| Web UI, `server.rs` | none between requests | a page or an export per request | the form's action, its selector and the cards agree only by scripts | the reports it shows and exports are those of the components; the form goes where its selector says (it does not after a click on a card) |
| Export, `export.rs` | none | SARIF, CSV, HTML of a report | three renderings written apart | they agree on what more than one of them shows |
| Terminal output, `output.rs` | none | print a scan | - | - |
| Attestation, `attest.rs hardware_rot.rs` | none | read platform facts | platform calls | - |
| Update marker, `update.rs` | a marker file nobody reads | write it | - | - |
| Command line, `main.rs` | none | parse options, print | - | - |

`PROJECT.json` lists the same components with their status, and each hazard of
the code at its line with the properties aimed at it.

## 2. Modules

| Module | Models | Runs | Proofs |
|---|---|---|---|
| `SmtpProbe` (`MCSmtpProbe`: server profiles) | `smtp.rs` and the servers it talks to | `SmtpProbe`, `SmtpOpenRelay` | `Smtp_proofs` |
| `Upgrade` (`MCUpgrade`: symmetry) | `upgrade.rs`, the file system, the release feed of `.github/workflows/release.yml` | `Upgrade`, `UpgradeDowngrade` | `Upgrade_proofs` |
| `ResultCache` | abstract: what the cache promises, an atomic cell | - | - |
| `FeedCache` | `feeds/*.rs`; implements `ResultCache` | `FeedCache` | `FeedCache_proofs` |
| `Discover` | `discover.rs` and the first MX | `Discover` | in `Smtp_proofs` |
| `CtWatch` (`MCCtWatch`: certificates) | `ct_stream.rs` and CertStream | `CtWatch`, `CtRuntime` | `CtWatch_proofs` |
| `RuaParse` | `rua/xml_parser.rs` and the document it reads | `RuaParse` | in `Rua_proofs` |
| `RuaRollup` (`MCRuaRollup`: files) | `rua/aggregate.rs` | `RuaRollup` | `Rua_proofs` |
| `Header` (`MCHeader`: bodies) | `header/*.rs` and the way of one message | `Header` | `Header_proofs` |
| `DkimKey` | the two judgements of a key, `dkim.rs` and `reputation.rs` | `Serve` | in `Serve_proofs` |
| `Posture` | `scan.rs spf.rs dkim.rs dmarc.rs scoring.rs` | `Serve` | in `Serve_proofs` |
| `Bimi` | `bimi/mod.rs` | `Serve` | in `Serve_proofs` |
| `Sums` | what a loop adds up | `Serve` | lemmas in `DataTheorems` |
| `Reputation` (with `Bimi`, `DkimKey`, `Sums`) | `reputation.rs` | `Serve` | in `Serve_proofs` |
| `Leak` | `leak.rs` | `Serve` | in `Serve_proofs` |
| `Export` | `export.rs` | `Serve` | in `Serve_proofs` |
| `Serve` (`MCServe`: keys, records, texts, names) | `server.rs`; composes `Posture`, `Reputation`, `Leak`, `Export` | `Serve` | `Serve_proofs` |
| `DataTheorems` | no code: induction, sequences, recursive functions, sums | - | its own |

Conventions. An action is one handler or one step between two awaits, from the
await's result to the next one; an `await` in the code is a value of `pc`
(or of `phase`, `session.at`, `link`). A definition whose name ends in
`_Something` next to one of the same stem is a plausible bug of that
definition (a mutant): the checks must fail with it in its place. Variables
marked *history* are read by properties only. Peers are modelled as freely as
the code lets them act.

**SmtpProbe.** `conn.owed` is the sequence of commands whose final reply line
the client has not read; a read takes its head, whatever command the client
thinks it is about. `waited` counts against `CONNECT_TIMEOUT` or
`READ_TIMEOUT`, `elapsed` against `PER_MX_BUDGET`; a continuation line resets
the former only. `Consumed` reads a reply to its last line as
`read_smtp_response` does; `GivenUp` is a read that timed out on a connection
that stays in use, as the code's `let _ =` and `if let Ok` do. After STARTTLS
the dialogue moves to a second connection (`open_relay_via_parallel_connection`).
`Emit` turns the `PortProbe` into findings and goes on to the next host.
X.509 parsing is abstracted to six classes of leaf.

**Upgrade.** Per process: `FetchRelease`, `Download`, `Checksums`, `CreateTmp`,
`WriteTmp`, `VerifySignature` (Windows), `Swap`, `Exit`; `Crash` at any of
them. `File` distinguishes a partial file, a genuine binary of a version, and a
page that is no binary. The feed publishes a release before its assets and may
withdraw it. `Target` models what `current_exe()` returns on Linux after the
running image was renamed over. The platform is chosen in `Init`.

**FeedCache.** `Meta` and `Body` are the two reads of `read_cache`, `CreateFile`
and `WriteFile` the two effects of `fs::write` in `write_cache`; another run may
come between any two, the process may die between any two, and a write that is
shorter than what another run has written meanwhile leaves its tail. The feed is
chosen in `Init`: IntelX polls, dehashed (and snusbase, alike) does not. One unit of the clock is longer than a
query: the timeouts of a query are seconds, the TTL a day. `now` is the wall clock,
which `SetBack` moves; `back` is how far it has been set back in all, and
`Real == now + back` the time it really is, which only the properties read (and the
bound on time).

**Discover.** The three sources run in the order of `run()`; `Add` is the
`seen` test with the push. `rcpt_to` is modelled line by line, because it reads
one line per reply after EHLO: a server that answers with two lines (`long`)
shifts the dialogue. `Return` hands the verdict to the loop that asked.

**CtWatch.** `LoopTop` is the only place where `max_runtime` is looked at.
`Failed` is both error paths of `watch()`. `Deliver` and `Break` are the
network: a broken connection delivers a prefix of what was in transit.
`Connecting` is `connect_async`, which may be answered, fail, or stay unanswered. The
answer to a ping (`ws.send` of a pong) is taken to return at once.

**RuaParse.** The environment writes any document of RFC 7489's schema, one
event at a time (without self-closing elements and CDATA, see 5), and the parser follows it; `dom` is the document as written so
far (the reference), `stack`, `cur_text`, `rpt`, `cur_record`, `cur_dkim`, `cur_spf`
the parser's locals. `RecordFrom` and `ReportFrom` put together what the finished
document says from the nodes that say it.
Fields that the code treats alike are represented by one or two of them.

**RuaRollup.** Files are visited in any order; `Parsed` is `parse_file` with
its archives, `Insert` the test on `report_id`, `Rollup` the fold of
`rollup_from_reports`.

**Header.** `Relay`, `Rewrite` and `Analyze`: a message is signed, stamped by
relays whose clocks may be wrong, sealed well or badly, rewritten, saved with
either line end, and analysed. `Rfc` and `Hashed` are RFC 6376's
canonicalisation on lines; `Canonical` is the code's on bytes. A hash is what
is hashed.

**DkimKey, Posture.** A key is its encoding with the lengths of modulus and
exponent, from which `DerLength` follows by the rules of DER. `CheckSpf`,
`CheckDkim` (once per selector asked), `CheckDmarc` and `Calculate` run one
after the other; each reads an answer that is a record, another record, no
record, or a failure. A record is what the substring searches tell apart in it:
`within` holds the all-terms that occur inside other terms, `style` how a DMARC
record is written. `scan.zone` keeps the answers for the properties.

**Bimi, Reputation.** `Reputation` runs its sections in the order of `run()`:
`DnsblQuery` is one query of one list, `BimiLookup` the two requests of
`bimi::validate` with the verdict, `SpfInclude` one include of the domain's
record. `ParsePemChain` reads the certificates line by line, as the code does;
`Rfc7208` is the reference count, a recursive function over any include graph.

**Leak.** `Hibp`, `Github`, `GenerateLookalikes`, `AskCrtSh` (one variant),
`SortHits`, `RunFeeds`, each with the ways its service may fail to answer. A
domain's name is a sequence of letters, and `Lookalikes` forms all variants. The
feeds answer as `ResultCache` promises, or fail. The code's order of the variants
and its cut at 50 are left out: it generates at most 10 endings, 4 dashes, 8
deletions, 8 swaps, 8 homoglyphs and 6 brand words, 44 variants in all.

**Export.** Operators of a finished report; the entries a document has, with
their levels, without layout. Listings, keys and lookalikes are named by their
place in the report, in each document by the filter that is written there. The
number of listings over HTML's table is not computed from the rows but counted by
`DnsblQuery`, as in the code. `ReputationAgrees` and `LeakAgrees` compare what
more than one document shows: CSV's listings include trust lists, which its rows do
not tell apart; HTML shows the SPF lookups and their limit, not that they exceed it.

**Serve.** The browser (`SelectMode`, `ClickCard`, `Submit`, `TypeUrl`,
`FollowExport`) and the server (`RequireDomain`, `Handle`, `Await`, `Respond`).
A request runs its component step by step; the `scan`, `reputation` and `leak`
commands run the same components, so their options vary here too.

## 3. Runs, and what they show

| Run | Bounds | Distinct states |
|---|---|---|
| `SmtpProbe` | 2 hosts, 4 server profiles, timeouts 2, budget 8 | 242 000 |
| `Upgrade` | 2 upgraders, 1 release, 3 platforms | 182 000 |
| `FeedCache` | 2 runs, time 0..3, TTL 1, 1 record, 2 polls, 2 feeds | 408 000 |
| `Discover` | 3 addresses, 2 guesses, 2 EHLO lines | 101 000 |
| `CtWatch` | cap 5, pause 2, 3 messages in transit, 3 matches | 17 000 |
| `RuaParse` | documents of up to 9 elements | 1 100 000 |
| `RuaRollup` | 3 files, 11 contents | 15 000 |
| `Header` | 3 relays, clock 0..2, 12 bodies | 1 014 000 |
| `Serve` | 2 selectors, 2 + 1 lists, SPF limit 3 over 3 names, 16 keys, 4 names with 2 answers of crt.sh | 1 227 000 |

- `SmtpProbe`: as long as no reply was given up on a connection that stayed in
  use, the only reply outstanding is that of the command the client waits for
  (`InSync`), on both connections, and the relay and STARTTLS verdicts are the
  server's (`RelayVerdictIsTheServers`, `StarttlsVerdictIsTheServers`). Two
  hosts are enough to see state leak from one to the next (`OneReportPerHost`);
  a budget of 8 allows every sequence of timeouts the budget can cut in two.
- `Upgrade`: `ExeIsWhole`, `SwapIsJustified`, `OnlySignedOnWindows`, and `EveryRunEnds`. Two upgraders give every overlap of
  a pair, and one release with a withdrawal gives a second version; the theorems
  lift the bounds for the safety properties they cover.
- `FeedCache`: `CacheSpec` (refinement), `AnswersAreRecent`, `BudgetIsSpared`,
  `EveryQueryEnds`. An age is measured in true time, `Real`: a clock that is set back
  and catches up makes an old entry fresh again, for as long as it was set back since
  the entry was stored, and no longer. `BudgetIsSpared` lets a request go out over a
  fresh entry in one case, when another run has stored it since this one looked.
  Two runs suffice for a torn, overlaid or replaced file between the two reads;
  a TTL of 1 with a time of 4 values has fresh, just fresh and stale entries,
  and a result older than the bound of `AnswersAreRecent`.
- `Discover`: three addresses, of which two are guesses, give an address that
  only a source has, one that both have, and one that is only guessed.
- `CtWatch`: `Cap` exceeds two pauses so that several attempts fit; three
  messages in transit let a break fall before, between and after matches.
- `RuaParse`: nine elements reach two records, or one with both mechanisms; the
  document stops anywhere.
- `RuaRollup`: three files give duplicates, duplicates by id with other
  content, archives with members that fail, and foreign domains.
- `Header`: three relays give a wrong clock between two right ones and a gap
  inside a chain. The three judgements read nothing in common, so the
  bound `OneAtATime` keeps odd dates, seals and rewritten bodies apart instead
  of multiplying them.
- `Serve`: whatever the answers, the score of plainly written records is earned
  (`ScoreIsEarned`) and the subdomain policy judged (`SubdomainPolicyIsJudged`)
  by what the records say; `OverLimitIsReal` compares the lookup count with RFC
  7208's, `JudgesAgree` the two readings of a key, `BimiValidIsEarned` the
  verdict with the documents, `LookalikesAreAnswered` the list of variants with
  crt.sh's answers, `ExportsAgree` the documents with each other, in what more than
  one of them shows of a scan, reputation or leak report. Requests share nothing, so
  one at a time is enough. No property is about the form: after a click on a card
  it does not go where its selector says (`CardGoesToItsMode`, below). No section of a reputation or leak report reads another's result:
  `OneAtATime` and `OneSection` let one of them have unusual answers in a run.
  `Selectors` is 2 for 7 and `RepSelectors` 2 for 12, as a first and a last; the
  limit of 10 lookups is 3, met and exceeded by records of two terms over three
  names that include each other or themselves; `DashLimit` and `EditLimit` are 3
  and 4 for 5 and 8, with names on either side; `MaxListed` 3 and `MaxAnswers` 2
  bound the listings and the answers of crt.sh that are not "clean" or empty;
  `MaxItems` is 1; of the formats `html` has the page's handler and `csv` stands
  for the others.

`CHECK_DEADLOCK FALSE` stands in the configurations of systems that stop when
they are done (a finished probe, run, watch or analysis) or whose bounds stop
them. `Serve` is checked for deadlock: a browser can always go on.

**Fairness.** Each `FairSpec` asks for weak fairness of the program's own next
step (`Next`, or `Step(p)` of a process) and of nothing a peer does: the tokio
runtime resumes a ready task and fires its timers, and each HTTP call carries
`http_timeout`. In `SmtpProbe` and `Discover` a timer is part of `Next`, since
there the wait itself is the subject. In `CtWatch`, `WF(Tick)` is the passing
of time. There is none on `Connecting`: nothing bounds `connect_async`
(`ct_stream.rs:88`), and a peer that accepts and is then silent in the TLS or the
WebSocket handshake leaves the attempt unanswered. `EndsWithoutStream` therefore
has it as a premise that attempts are answered (`AttemptsAreAnswered`), and
`EndLeadsToAttempt` claims the attempt, not its answer. CertStream is under no obligation.

### Disagreements between the code and its documentation

Three are kept as runs that TLC must refute, and are listed under "findings":

- `SmtpOpenRelay`: `read_smtp_response` gives up after `READ_TIMEOUT` and the
  connection stays in use; the late reply answers the next command, and a sound
  server is reported as an open relay.
- `UpgradeDowngrade`: of two overlapping upgrades the one that picked the older
  release may rename last.
- `CtRuntime`: `--watch-seconds` (`max_runtime`) is not looked at while a subscription
  lasts, nor while an attempt to connect is unanswered.

The others are stated at the end of their modules and can be tried by adding
the statement to the configuration of the module's run (`Serve.cfg` for `Posture`,
`Reputation`, `Leak`, `Export` and `Serve`), as an invariant, or as a property
where it is an action formula; TLC refutes each:

| Statement | Module | Says | Code |
|---|---|---|---|
| `MissingMeansNotAdvertised` | SmtpProbe | `smtp.rs:415` "MX does not advertise STARTTLS on port 25" | `smtp.rs:171`: also when EHLO's reply was not heard |
| `UnreachableMeansNoTcp` | SmtpProbe | `smtp.rs:400` "MX did not accept TCP on port 25" | `smtp.rs:111`: also when the budget ran out |
| `ExpiredLeafIsNamed` | SmtpProbe | `smtp.rs:5` "certificate validity checks" | `smtp.rs:256`: an expired leaf already fails the handshake |
| `ExeIsGenuine` | Upgrade | `upgrade.rs:6` "sha256-verify against the release's checksums.txt" | `upgrade.rs:122`: unchecked without a matching line |
| `AlreadyLatestIsTrue` | Upgrade | `upgrade.rs:42` "already on latest version" | `upgrade.rs:81`: also on an API error |
| `UpgradedMeansInstalled` | Upgrade | `upgrade.rs:7` "atomically replace `current_exe()`" | `upgrade.rs:132`: on Linux the deleted image's path |
| `NoAnswerOutlivesTtl` | FeedCache | `feeds/mod.rs:6` "Caches results for 24h" | `:158`: the age is by a clock that may have been set back since |
| `NoSpendWhileCached` | FeedCache | `feeds/mod.rs:7` "so repeated runs don't re-spend the API budget" | two runs at once both ask |
| `ZeroHitsAreTheAnswer` | FeedCache | `feeds/mod.rs:34` "key but zero hits" | `feeds/dehashed.rs:35`: a body that is not JSON is zero hits, and cached |
| `CachedIsComplete` | FeedCache | `feeds/intelx.rs:5` "poll until ready" | `:102`: what the tenth poll brought is cached for a day as if complete |
| `CatchAllIsSuppressed` | Discover | `discover.rs:9` "every guess is valid so we suppress them" | `discover.rs:274`: a failed probe counts as a refusal |
| `CatchAllIsTheAnswer` | Discover | `discover.rs:262` "If the server says 250" | `discover.rs:316`: the line may be MAIL's second |
| `MalformedIsRefused` | RuaParse | `rua/xml_parser.rs:85` "Returns Err on malformed XML" | `:101`: Eof is accepted anywhere |
| `RequiredFieldsArePresent` | RuaParse | `rua/xml_parser.rs:86` "(org_name/policy_domain)" | `:202`: the domain is not asked for |
| `DatesAreTheDomains` | RuaRollup | `rua/aggregate.rs:131` "Skip reports unrelated to the domain" | `:124`: dates are folded before |
| `DuplicatesAreFound` | Header | `header/arc.rs:15` "never two of the same instance" | `:53`: they share a bucket |
| `LastSealPasses` | Header | `header/arc.rs:17` "cv= for the highest instance is "pass"" | `:103`: only "fail" is a finding, not "none" nor a seal without a result |
| `MismatchMeansTampered` | Header | `header/dkim_body.rs:8` "Mismatch = body tampered after signing" | `:93`, `:137`: also bodies that are not UTF-8, and SHA-1 |
| `EveryRecordIsRead` | Posture | `dmarc.rs:70` "Tags are case-insensitive per RFC 7489 §6.4" | `dmarc.rs:12`: a substring, also of `sp=reject`, and not of `P=REJECT` |
| `AbsenceIsObserved` | Posture | `scoring.rs:5` "any server can spoof this domain", `:9` "fully spoofable" | also of a domain whose lookup failed |
| `RedirectsAreFollowed` | Reputation | `reputation.rs:385` "We follow include + redirect one level deep" | `:419`: includes alone, without a qualifier |
| `ListedMeansListed` | Reputation | `reputation.rs:219` "A response = listed" | also the response that refuses the query |
| `OnlyShortKeysFail` | Reputation | `reputation.rs:20` "RSA <2048 = fail" | `:501`: a 2048 bit key in PKCS#1's encoding is shorter |
| `JunkIsUnknown` | Reputation | `reputation.rs:489` "Could not decode p= as base64" | `:528`: the decoder never fails |
| `StatusIsChecked` | Reputation | `bimi/mod.rs:12` "HTTP 200" | the status of neither answer is looked at |
| `AbsentSideIsSkipped` | Reputation | `bimi/mod.rs:99` "if either is None, that side's checks are skipped" | `:173`: its flags stay false, and the verdict with them |
| `CleanMeansClean` | Leak | `leak.rs:204` "404 = no breaches; not an error", `main.rs:564` "no domain-wide breaches recorded" | an error status and a lost request read the same |
| `ZeroRecordsAreCounted` | Leak | `feeds/mod.rs:34` "key but zero hits" | `leak.rs:168`: also a feed that failed |
| `VariantsAreOthers` | Leak | `export.rs:133` "likely impersonation" | `leak.rs:311`: swapping two equal letters gives the domain itself |
| `WorstFlagCounts` | Export | `export.rs:53` a level of its own for each flag | `:56`: a later, milder one overrides the one before |
| `CardGoesToItsMode` | Serve | `server.rs:264` "so we route to the right ... handler" | `:241`: a card sets the selector without its event |
| `ExportIsOfThePage` | Serve | `server.rs:224` "exports appear in the header" | `:99`: the ending is appended to the query, and becomes the domain's |

## 4. Proofs

All theorems are for any value of the constants that satisfies the module's
named assumptions (`ConstantsAssumption` and its like: a non-empty set of
profiles, positive timeouts, and the like; TLC evaluates it in every run); those
of `Serve` rest on the assumptions of the modules it composes.

**`Smtp_proofs`**, of the probe: `TypeCorrect`, `ConversationInSync`, `RelayVerdict`,
`StarttlsVerdict`, `ReportPerHost`, for any number of hosts and any servers.
The verdict invariants speak of finished reports and are not inductive: the
invariant (`IInv`, with `ProbeInv`) adds that the same two verdicts hold of the
`PortProbe` in progress and the host under probe, that the relay verdict is
only set when the conversation is over, and which awaits follow an advertised
STARTTLS; `InSync`, itself inductive, gives each reply read its meaning. The
proof has one step per action; `Invariance` is `Spec => []IInv`.

**`Upgrade_proofs`**: `TypeCorrect`, `InstalledFileIsWhole`, `SignedOnWindows`,
`EverySwapIsJustified` for any set of upgraders, and
`SoleUpgraderNeverDowngrades` for a set of one. The invariant `RunInv` follows
a run: the tag is newer from the moment it is picked, the download is whole and
of that tag from the moment it arrives, the temp file equals it from the moment
it is written, and on Windows what waits for the rename is genuine. The last
theorem needs in addition that a running upgrader's own version is what is
installed, which only a lone upgrader keeps (until it returns).

**`CtWatch_proofs`**: `Typed`, `AttemptsPaced`, `MatchesAreReported`. Pacing needs
that a sleeping task has slept what its timer no longer holds
(`pause + quiet >= Pause`), and that the top of the loop is reached rested. What was
reported is what `FlattenSeq` makes of the messages received, one after the other:
receiving one more appends its matches, whatever connection it came over.

**`FeedCache_proofs`**: `Typed`, `CachedAnswersAreRecent`, `BudgetSpared`, and
`ImplementsCache`, the refinement of `ResultCache`. A whole file was written at most
one unit of true time after its query began (`Dated`); a run that reads a body has found the
file fresh at this very moment, and a run about to ask the provider would find it fresh only
if it was stored at this moment (`Local`). Between the two reads, and between the look and
the request, no time passes, but other runs may act. Under the mapping (the cell holds what a whole file holds, and
nothing while it is torn) every step of a file system with crashes, torn and
overlaid writes and a clock that is set back is one of the atomic cell, or none.

**`Smtp_proofs`**, of the discovery: `DiscoverTyped`, `VerdictsAreTheServers`, `SourcedAreNotProbed`. While
addresses are gathered, those known are the ones a source named (`Gathering`); after it a
dialogue is about the nonce or about a guess (`Probing`). While a conversation is aligned
(`Aligned`), the next line answers the command last sent, and the verdict a call
returns was given for the address it asked about. A two-line greeting breaks the
alignment at EHLO, where the dialogue ends; a two-line reply to MAIL would break it at
RCPT, and the property says nothing of such a server.

**`Header_proofs`**: `ClocksJudged`, `ChainJudged`, `BodyJudged`, for any number of
relays and bodies of any length. `ReportsAreOfTheMessage` makes each a question about
one message. *Clocks*: right ones stamp in the order of time (`ClockInv`), and the
comparison keeps the last date seen, which is later than a suspected one
(`Compared`). *Chain*: a sound one is 1, ..., n, whole, none failed (`ChainInv`); and
instances without a gap are all those up to the largest (`NoGaps`). *Body*: reading the
bytes gives back the lines, each with what is left of its end (`TakenOfBytes`); of these the
code makes what RFC 6376 makes of the lines (`CanonicalIs`); and different
canonical lines have different bytes (`HashesDiffer`).

**`Serve_proofs`**: of the pages `Typed`; of the reports that the requests run
`ScoresAreEarned`, `SubdomainPoliciesAreJudged`, `KeysAreJudgedAlike`,
`MarksAreEarned`, `OverTheLimit`, `LookalikesAreReported` and `ExportsFlagAlike`; for
any keys, records, texts, names and answers, and any number of selectors, lists
and formats. One component works at a time (`Alone`), so a step of `Serve` is a
step of one report, leaves it alone, or ends it.

- *Scan.* The judgements speak of finished reports; `ScanInv` keeps, from each check
  to the score, that its result is the one of the record found, or of none, and
  that the selectors before the last have no record. What remains is a fact about
  one record (`PlainPolicy`, `PlainSubdomainPolicy`, `PlainSpf`) and about the sum of
  points (`PointsTyped`: never above 90, and 90 only for the three best verdicts).
- *Keys and marks* (`RepInv`). That `dkim.rs` and `reputation.rs` agree is
  arithmetic: the length of a DER key lies between bounds its modulus sets, as
  long as the modulus is of a usual size, 64 to 512 octets, and the exponent has 1 to 8
  (`Usual`, in the property itself). That a mark is
  valid exactly when both documents are is an induction over the lines of the
  PEM text (`ReadSoFar`): what the reader holds is the first whole block.
- *Lookups* (`SpfInv`). The count and what the includes still to be read can add never
  exceed what RFC 7208 counts, and equal it where no include is nested deeper than
  the code looks: sums over records of any length, in levels of any depth.
- *Variants* (`LeakInv`). No variant is asked about twice, each hit is the answer of its
  variant, and the sort only reorders them. It assumes of the table of homoglyphs that no
  letter stands for itself, as in `leak.rs`.
- *Exports* (`ListInv`). The number of listings, counted query by query, is that of the
  rows set off (`ListingsAreCounted`): an induction over the queries. For the rest
  `ExportsFlagAlike` puts together the invariants above: a finding is a check that is
  not configured (`ScanInv`), a report over the SPF limit has more lookups than the limit
  (`SpfInv`), and the documents' own filters and levels select the same of them.

**`DataTheorems`**: induction. The library's theorems take a predicate, which the
provers cannot instantiate; here induction over naturals, and over sequences by
their last element, is stated with a set in its place (`NatInduct`, `SeqInduct`), and
follows from the well-foundedness of strict inclusion on finite sets. From it: a recursive function on 0..N
exists (`RecursionExists`), `FlattenSeq` of an appended or concatenated sequence,
`Total` of a sum, the largest of a finite set (`FiniteMax`). To be within its reach the
modules pick from a sequence by `FlattenSeq` (`CtWatch`, `Leak`, `Reputation`, `Header`)
and loop by recursive functions (`Bimi`, `Header`, `Sums`).

**`Rua_proofs`**, of the rollup: `ReportsAreOncePerId`, `MessagesConserved`,
`RollupOfTheDirectory`, for any files, reports and domain. The invariant (`IInv`) says
of the reports kept that they are those of the files visited, one for each id, and of
the rollup that it is the fold over them. The fold is taken apart twice, a report at a time
(`AddReport`) and a record at a time (`AddRecord`): every entry of a table is the sum over
the records that belong to it, of all reports before. Where an id
identifies a report, the reports kept are a set that the directory determines, and a
sum over it has no order.

**`Rua_proofs`**, of the parser: `ParseTyped`, `ReportsSayTheDocument`, for documents of any
number of elements. The invariant (`ParseInv`) says that the stack is the path to the open
element and that the locals are what the document says so far (`HasRead`): a part of
the report is the open element of its name or else the last child of that name
(`InPart`), and `rpt`, `cur_record`, `cur_dkim` and `cur_spf` are read off these parts. The
schema bounds the depth (`Levels`), and with it the branch that the stack selects (`ContextIs`).
A start tag and a text change no part (`StartParts`, `TextKeeps`), an end tag adds one
child to one part (`EndParts`), and what the code stores then is that child
(`EndReport`, `EndInRecord`, `EndAuth`). `dkim` and `spf` are the difficult names:
under `row` they are alignments, under `auth_results` results, and nothing but the
path tells them apart. When the document is closed no part is open, and the
reading is the whole document's.

**`DataTheorems`** holds in addition sums over the elements of a finite set
(`SumFunction`): they exist and are independent of the order, and follow a change of one summand.

Model-checked only: liveness (`EveryRunEnds` and its like) and `ENABLED`, which are out of
the prover's reach.

## 5. Not modelled

See "components" in `PROJECT.json`. Left out because no property is about them:
wording, layout and escaping of the documents, the JSON export (the report
itself), the fields copied from JSON answers, X.509 fields, the name patterns of
`discover`, HELO texts. Within modelled components these are missing: the width
of an ARC instance and the `l=` tag in `header`; DANE and the provider's name in
`reputation`; several records of a kind under one name; a record with terms that cost
lookups after its `all`, where RFC 7208 ignores them (`Regular` leaves them out of the
reference); self-closing elements and CDATA in an aggregate report, which `parse` ignores; names that are not
ASCII in `leak`, and its paste source, a stub that returns nothing.
`reputation_ext.rs` fills optional fields by independent requests that nothing
reads; `attest.rs`, `hardware_rot.rs`, `update.rs`, `output.rs` and `main.rs`
keep no state that a later step reads.

## 6. Plan

Done: the inventory; the core in the order SmtpProbe, Upgrade, FeedCache over
ResultCache, Discover, CtWatch, RuaParse, RuaRollup, Header; then the reports,
DkimKey, Posture, Bimi, Reputation, Leak, Export, composed by Serve; proofs
of all the invariants.

Next, extensions of the model:

1. The width of an ARC instance (`header/arc.rs:96`), the `l=` tag, the
   members of `AuthResult` in `RuaParse` that are represented by others.
2. DANE, the provider's name and several SPF records under one name in
   `Reputation`; `reputation_ext.rs` with its lookups failing one by one.
