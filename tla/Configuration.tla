---------------------------- MODULE Configuration ----------------------------
(***************************************************************************)
(* From the product configuration to the options of a Runtime process: the *)
(* document the desktop loads, the configuration it makes of it for its    *)
(* manager, the command line the manager writes for a generation, and the  *)
(* Runtime's parser, option by option.  The checks of the four have to     *)
(* agree.  A command line may also be somebody else's.                     *)
(***************************************************************************)
EXTENDS Integers, Sequences

CONSTANTS
  MaxTimeout, MaxInFlight, MaxQueue, MaxStderr, MaxWork,   \* the MAX_ limits
  MaxDirectory,   \* MAX_DEVELOPMENT_LOG_DIRECTORY_BYTES
  MaxPath,        \* MAX_PATH_UNITS and kMaximumPluginPathCharacters
  MaxWord         \* u64::MAX and UINT64_MAX

ASSUME ConfigurationAssumption ==
  /\ {MaxTimeout, MaxInFlight, MaxQueue, MaxStderr, MaxWork, MaxDirectory, MaxPath} \subseteq Nat
  /\ MaxWord \in Nat \ {0}

Timeouts == {"handshake", "request", "shutdown"}
Queues == {"commands", "events"}
Fields == Timeouts \cup Queues \cup {"inFlight", "stderr", "work"}
LogLevels == {"trace", "debug", "info", "warn", "error"}
Verbose == {"trace", "debug"}

High(f) ==
  CASE f \in Timeouts -> MaxTimeout
    [] f \in Queues -> MaxQueue
    [] f = "inFlight" -> MaxInFlight
    [] f = "stderr" -> MaxStderr
    [] f = "work" -> MaxWork

-----------------------------------------------------------------------------
(* ProductConfig.  portable: relative, and every component allowed everywhere *)

Directories == [size : Nat, portable : BOOLEAN]

Documents == [wellFormed : BOOLEAN, schema : Nat, numbers : [Fields -> Nat], debug : BOOLEAN,
              level : LogLevels, directory : Directories, audio : BOOLEAN]

ValidDirectory(d) == d.size \in 1 .. MaxDirectory /\ d.portable

InRange(f, n) ==
  /\ n >= IF f \in {"stderr", "work"} THEN 0 ELSE 1
  /\ n <= High(f)

Loads(d) ==
  /\ d.wellFormed
  /\ d.schema = 1
  /\ \A f \in Fields : InRange(f, d.numbers[f])
  /\ ValidDirectory(d.directory)
  /\ ~d.audio

\* DebugConfig::effective_log_level, for whoever asks the configuration itself.
EffectiveLevel(d) == IF ~d.debug /\ d.level \in Verbose THEN "info" ELSE d.level

-----------------------------------------------------------------------------
(* RuntimeManagerConfig *)

\* unicode: every surrogate has its pair, so that the path is valid Unicode.
Paths == [absolute : BOOLEAN, size : Nat, nul : BOOLEAN, unicode : BOOLEAN]
Hosts == [runtime : Paths, plugin : Paths, base : Paths]

\* resolve_development_log_directory; no base ends with a separator.
LogDirectory(d, h) ==
  [absolute |-> h.base.absolute, size |-> h.base.size + 1 + d.directory.size, nul |-> h.base.nul,
   unicode |-> h.base.unicode]

\* LoggingPolicy::new.  Mutant: a policy as requested.
PolicyUnclamped(debug, level) == [debug |-> debug, level |-> level]
Policy(debug, level) ==
  [debug |-> debug, level |-> IF ~debug /\ level \in Verbose THEN "info" ELSE level]

\* validate_path, which asks nothing about Unicode.
PathFits(p) == p.absolute /\ p.size \in 1 .. MaxPath /\ ~p.nul

\* Mutant: a limit is out of its own range.
NumberFitsBelow(f, n) ==
  CASE f \in Timeouts -> n # 0 /\ n <= MaxTimeout
    [] f \in Queues \cup {"inFlight"} -> n # 0 /\ n < High(f)
    [] f \in {"stderr", "work"} -> n <= High(f)
NumberFits(f, n) ==
  CASE f \in Timeouts -> n # 0 /\ n <= MaxTimeout
    [] f \in Queues \cup {"inFlight"} -> n # 0 /\ n <= High(f)
    [] f \in {"stderr", "work"} -> n <= High(f)

PathsFit(d, h) ==
  PathFits(h.runtime) /\ PathFits(h.plugin) /\ PathFits(LogDirectory(d, h))

ManagerAccepts(d, h) ==
  /\ PathsFit(d, h)
  /\ \A f \in Fields : NumberFits(f, d.numbers[f])

-----------------------------------------------------------------------------
(* The command line.  An argument is an option, a path, a word of digits, which *)
(* may be empty, or another word.                                               *)

Option(name) == [is |-> "option", of |-> name]
PathArgument(p) ==
  [is |-> "path", of |-> [absolute |-> p.absolute, size |-> p.size, unicode |-> p.unicode]]
Digits(s) == [is |-> "digits", of |-> s]
Word(w) == [is |-> "word", of |-> w]

OptionNames == {"plugin", "work", "directory", "level", "debug", "generation"}
Required == {"directory", "level", "debug", "generation"}

Decimal[n \in Nat] == IF n < 10 THEN <<n>> ELSE Append(Decimal[n \div 10], n % 10)

\* The arguments of spawn_process.
CommandLine(d, h, generation) ==
  LET policy == Policy(d.debug, d.level)
  IN  << Option("plugin"), PathArgument(h.plugin),
         Option("work"), Digits(Decimal[d.numbers["work"]]),
         Option("directory"), PathArgument(LogDirectory(d, h)),
         Option("level"), Word(policy.level),
         Option("debug"), Word(IF policy.debug THEN "true" ELSE "false"),
         Option("generation"), Digits(Decimal[generation]) >>

\* What no number is.
NotANumber == -1

\* The number after each digit, and in the end.
Accumulate(Step(_, _), digits) ==
  LET read[i \in 0 .. Len(digits)] ==
        IF i = 0 THEN 0
        ELSE IF read[i - 1] = NotANumber THEN NotANumber ELSE Step(read[i - 1], digits[i])
  IN  IF digits = <<>> THEN NotANumber ELSE read[Len(digits)]

ParseWork(digits) ==
  Accumulate(LAMBDA n, d : IF 10 * n + d > MaxWork THEN NotANumber ELSE 10 * n + d, digits)

\* Mutant: the digit is not allowed for, and the product or the sum wraps.
ParseGenerationWraps(digits) ==
  LET parsed == Accumulate(LAMBDA n, d : IF n > MaxWord \div 10 THEN NotANumber
                                         ELSE (10 * n + d) % (MaxWord + 1), digits)
  IN  IF parsed = 0 THEN NotANumber ELSE parsed

\* The guard keeps the 64-bit product and sum from wrapping, without computing them.
ParseGeneration(digits) ==
  LET parsed == Accumulate(LAMBDA n, d : IF n > (MaxWord - d) \div 10 THEN NotANumber
                                         ELSE (10 * n + d) % (MaxWord + 1), digits)
  IN  IF parsed = 0 THEN NotANumber ELSE parsed

-----------------------------------------------------------------------------

VARIABLES
  stage,       \* document, ready, parsing, accepted, refused; failed
  failure,     \* who refused the configuration
  document, host,
  entry,       \* the Runtime's: main, with narrow arguments, or wmain, with wide ones
  launched,    \* the generation the manager wrote the command line for, or 0
  args, index,
  options      \* the values of the options seen so far

inputs == <<document, host, entry>>
parser == <<args, index, options>>
vars == <<stage, failure, inputs, launched, parser>>

Entries == {"main", "wmain"}
NoOptions == [name \in {} |-> 0]

\* The desktop with a document and its paths; or the Runtime run by hand.
InitWith(documents, hosts, lines, shipped, installed) ==
  /\ failure = "none" /\ launched = 0 /\ index = 1 /\ options = NoOptions
  /\ entry \in Entries
  /\ \/ stage = "document" /\ document \in documents /\ host \in hosts /\ args = <<>>
     \/ stage = "parsing" /\ document = shipped /\ host = installed /\ args \in lines

\* initialize_validated: load_from_path, build_manager_config, the telemetry, which
\* may fail for reasons of its own, and RuntimeManager::new, which validates again.
Initialize ==
  /\ stage = "document"
  /\ \/ ~Loads(document) /\ failure' = "loader"
     \/ Loads(document) /\ ~ManagerAccepts(document, host) /\ failure' = "manager"
     \/ Loads(document) /\ ManagerAccepts(document, host) /\ failure' \in {"none", "telemetry"}
  /\ stage' = IF failure' = "none" THEN "ready" ELSE "failed"
  /\ UNCHANGED <<inputs, launched, parser>>

\* spawn_process
Spawn(generation) ==
  /\ stage = "ready"
  /\ stage' = "parsing"
  /\ launched' = generation
  /\ args' = CommandLine(document, host, generation)
  /\ UNCHANGED <<failure, inputs, index, options>>

Refuse == stage' = "refused" /\ UNCHANGED parser

\* The value of an option, and whether it is one.
Value(name, a) ==
  CASE name = "work" -> ParseWork(a.of)
    [] name = "generation" -> ParseGeneration(a.of)
    [] OTHER -> a.of

\* make_path: what wmain is given is converted, which an unpaired surrogate stops.
MakesPath(p, by) == by = "wmain" => p.unicode

IsValue(name, a, by) ==
  CASE name \in {"plugin", "directory"} ->
         a.is = "path" /\ a.of.size \in 1 .. MaxPath /\ MakesPath(a.of, by) /\ a.of.absolute
    [] name \in {"work", "generation"} -> a.is = "digits" /\ Value(name, a) # NotANumber
    [] name = "level" -> a.is = "word" /\ a.of \in LogLevels
    [] name = "debug" -> a.is = "word" /\ a.of \in {"true", "false"}

\* One turn of parse_options' loop.
Parse(name) ==
  /\ stage = "parsing" /\ index <= Len(args)
  /\ args[index].is = "option" /\ args[index].of = name
  /\ IF name \in DOMAIN options \/ index = Len(args) \/ ~IsValue(name, args[index + 1], entry)
     THEN Refuse
     ELSE /\ options' = [n \in DOMAIN options \cup {name} |->
                           IF n = name THEN Value(name, args[index + 1]) ELSE options[n]]
          /\ index' = index + 2
          /\ UNCHANGED <<stage, args>>
  /\ UNCHANGED <<failure, inputs, launched>>

ParseUnknown ==
  /\ stage = "parsing" /\ index <= Len(args)
  /\ ~(args[index].is = "option" /\ args[index].of \in OptionNames)
  /\ Refuse
  /\ UNCHANGED <<failure, inputs, launched>>

\* LoggingPolicy::create, which does not clamp but refuses.
PolicyExists(debug, level) == debug = "true" \/ level \notin Verbose

ParseEnd ==
  /\ stage = "parsing" /\ index > Len(args)
  /\ IF /\ "work" \in DOMAIN options => "plugin" \in DOMAIN options
        /\ Required \subseteq DOMAIN options
        /\ PolicyExists(options["debug"], options["level"])
     THEN stage' = "accepted" /\ UNCHANGED parser
     ELSE Refuse
  /\ UNCHANGED <<failure, inputs, launched>>

Next ==
  \/ Initialize
  \/ \E g \in 1 .. MaxWord : Spawn(g)
  \/ \E name \in OptionNames : Parse(name)
  \/ ParseUnknown \/ ParseEnd

-----------------------------------------------------------------------------

\* What the loader accepts the manager accepts too, unless it is for the paths that
\* the host adds: nobody is left with a valid document and no Runtime.
LoadedIsEnough == failure = "manager" => ~PathsFit(document, host)

\* A path of the host that validate_path lets through and make_path does not.
UnpairedSurrogate(h, by) == by = "wmain" /\ ~(h.plugin.unicode /\ h.base.unicode)

\* The Runtime refuses a command line of the manager's for one reason only, a path of
\* the host with an unpaired surrogate, and then always.  Every other it understands,
\* up to the last generation, and runs with what the document says: the level that the
\* document calls effective, and never a verbose one unless debugging is enabled.
ConfigurationReachesRuntime ==
  launched # 0 =>
    /\ stage = "refused" => UnpairedSurrogate(host, entry)
    /\ stage = "accepted" => ~UnpairedSurrogate(host, entry)
    /\ stage = "accepted" =>
         /\ options["work"] = document.numbers["work"]
         /\ options["generation"] = launched
         /\ options["level"] = EffectiveLevel(document)
         /\ options["debug"] = (IF document.debug THEN "true" ELSE "false")
         /\ options["plugin"] = PathArgument(host.plugin).of
         /\ options["directory"] = PathArgument(LogDirectory(document, host)).of

\* The number that digits stand for.
NumberOf(digits) ==
  LET read[i \in 0 .. Len(digits)] == IF i = 0 THEN 0 ELSE 10 * read[i - 1] + digits[i]
  IN  read[Len(digits)]

\* The command lines that the options' own description allows: pairs of an option
\* and its value, in any order, none twice, the work of a plugin, the four required
\* inputs, absolute paths, which are valid Unicode if wmain has to read them, numbers in
\* their range and verbose levels with debugging only.
Admitted(line, by) ==
  LET pair(i) == line[2 * i - 1]
      value(i) == line[2 * i]
      pairs == 1 .. Len(line) \div 2
      named(n) == {i \in pairs : pair(i).is = "option" /\ pair(i).of = n}
      of(n) == value(CHOOSE i \in named(n) : TRUE)
  IN  /\ Len(line) % 2 = 0
      /\ \A i \in pairs : pair(i).is = "option" /\ pair(i).of \in OptionNames
      /\ \A i, j \in pairs : pair(i).of = pair(j).of => i = j
      /\ \A n \in Required : named(n) # {}
      /\ named("work") # {} => named("plugin") # {}
      /\ \A n \in {"plugin", "directory"} : \A i \in named(n) :
           /\ value(i).is = "path" /\ value(i).of.absolute /\ value(i).of.size \in 1 .. MaxPath
           /\ value(i).of.unicode \/ by = "main"
      /\ \A i \in named("work") :
           value(i).is = "digits" /\ value(i).of # <<>> /\ NumberOf(value(i).of) <= MaxWork
      /\ of("generation").is = "digits" /\ NumberOf(of("generation").of) \in 1 .. MaxWord
      /\ of("level").is = "word" /\ of("level").of \in LogLevels
      /\ of("debug").is = "word" /\ of("debug").of \in {"true", "false"}
      /\ of("level").of \in Verbose => of("debug").of = "true"

\* Whoever wrote it, exactly the admitted command lines are accepted.
AcceptsExactlyTheAdmitted ==
  /\ stage = "accepted" => Admitted(args, entry)
  /\ stage = "refused" => ~Admitted(args, entry)

=============================================================================
