----------------------------- MODULE ConfigStore -----------------------------
(***************************************************************************)
(* The bot's configuration on disk (trading/bot_config.py): loading with   *)
(* the migrations between versions, the credentials that are kept          *)
(* encrypted in a file of their own, and a save that may be cut short at   *)
(* any step by a crash or an error of the disk.  Two errors are swallowed: *)
(* a removal of the credentials that fails, and a key that cannot be read, *)
(* in place of which a new one is written.                                 *)
(*                                                                         *)
(* A configuration is a function from the settings the migrations and the  *)
(* loader treat in different ways; a stored file is such a function with   *)
(* any subset of them, Missing, or Broken (no JSON).                       *)
(***************************************************************************)
EXTENDS Integers, Sequences

CONSTANTS
    Files,          \* the configuration files the program may find at its first start
    Secrets,        \* the API credentials a user may enter; NoSecret is none
    Stops, Tomans,  \* the settings a user may change
    MaxKeys,        \* bound: credential keys generated
    MaxSaves        \* bound: saves begun

\* A stored version is a number (int() of what the file says).
ASSUME ConfigAssumption ==
    \A file \in Files : "version" \in DOMAIN file => file.version \in Int

VARIABLES
    disk,           \* file, credentials (the key they are encrypted under and the secret), key
    program,        \* the configuration in memory and the step of a save
    expected,       \* ghost: the settings and the secrets a load may give; whether the last save
                    \* could not remove the credentials (kept), and whether the key of those on
                    \* disk was written over (keyLost)
    count           \* keys generated and saves begun

configVars == <<disk, program, expected, count>>

NoSecret == "no secret"
Missing == [absent |-> TRUE]
Broken == [broken |-> TRUE]
NoKey == 0
BadKey == -1        \* a key file cut short
NoCredentials == [under |-> NoKey, secret |-> NoSecret]

Defaults ==
    [version |-> 10, exchange |-> "simulator", mode |-> "paper", market |-> "IRT", currency |-> "IRT",
     toman |-> 10, rial |-> 100, maxPct |-> 90, stop |-> 3, btcDump |-> 25, exception |-> TRUE]

-----------------------------------------------------------------------------
\* What is set in `first` counts before what is set in `rest`.
Over(first, rest) ==
    [setting \in DOMAIN first \cup DOMAIN rest |->
        IF setting \in DOMAIN first THEN first[setting] ELSE rest[setting]]

(* Migration: every step whose version is above the stored one, in order.   *)
(* A step replaces what the file says, or only fills in what it lacks.      *)

Step(below, patch, replaces) == [below |-> below, patch |-> patch, replaces |-> replaces]

Migrations ==
    <<Step(2, [version |-> 2, stop |-> 2, btcDump |-> 7], TRUE),
      Step(3, [version |-> 3, rial |-> 100, maxPct |-> 20], TRUE),
      Step(4, [version |-> 4, stop |-> 2], TRUE),
      Step(5, [version |-> 5], TRUE),
      Step(6, [version |-> 6, btcDump |-> 7], TRUE),
      Step(7, [version |-> 7], TRUE),
      Step(8, [version |-> 8, exception |-> FALSE, btcDump |-> 25], FALSE),
      Step(9, [version |-> 10, toman |-> 10, rial |-> 100, maxPct |-> 90], FALSE),
      Step(10, [version |-> 10, stop |-> 3, maxPct |-> 90, exception |-> FALSE], TRUE)>>

StoredVersion(file) == IF "version" \in DOMAIN file THEN file.version ELSE 0

\* What the first n steps make of a file: steps the stored version has behind it change nothing.
Migrated(file) ==
    LET data[n \in 0..Len(Migrations)] ==
            IF n = 0 THEN file
            ELSE IF StoredVersion(file) >= Migrations[n].below THEN data[n - 1]
            ELSE IF Migrations[n].replaces THEN Over(Migrations[n].patch, data[n - 1])
            ELSE Over(data[n - 1], Migrations[n].patch)
    IN  data[Len(Migrations)]

\* BotConfig.from_dict: an old name counts only where the present one is not given, a mode is
\* one of two words (execution_mode.normalize_execution_mode), the rest has its default.
NormalMode(mode) == IF mode \in {"live", "real"} THEN "live" ELSE "paper"

FromDict(data) ==
    LET named == IF "oldStop" \in DOMAIN data THEN Over(data, [stop |-> data.oldStop]) ELSE data
        cfg == [setting \in DOMAIN Defaults |-> Over(named, Defaults)[setting]]
    IN  [cfg EXCEPT !.mode = NormalMode(@)]

\* A Nobitex configuration trades the Rial market, unless it names USDT for the market and
\* another currency, and its exchange amount is ten times the Toman amount the file names.
NobitexMarket(cfg) ==
    LET market == IF cfg.market \in {"", "RLS"} THEN "IRT" ELSE cfg.market
        both == market = "USDT" /\ cfg.currency = "USDT"
    IN  [cfg EXCEPT !.market = IF both THEN "IRT" ELSE market,
                    !.currency = IF both \/ market = "IRT" THEN "IRT" ELSE @]

SettingsOf(file) ==
    IF file \in {Missing, Broken} THEN Defaults
    ELSE LET data == Migrated(file)
             cfg == FromDict(data)
             local == NobitexMarket(cfg)
         IN  IF cfg.exchange # "nobitex" THEN cfg
             ELSE IF "toman" \in DOMAIN data THEN [local EXCEPT !.rial = 10 * local.toman]
             ELSE local

\* The credentials are looked for only once a configuration file has been read, and those
\* the present key does not decrypt are none.
SecretOf(d) ==
    IF d.file \in {Missing, Broken} \/ d.credentials = NoCredentials THEN NoSecret
    ELSE IF d.credentials.under = d.key THEN d.credentials.secret
    ELSE NoSecret

-----------------------------------------------------------------------------
ConfigInit ==
    /\ \E file \in Files :
          disk = [file |-> file, credentials |-> NoCredentials, key |-> NoKey]
    /\ program = [step |-> "down", settings |-> Defaults, secret |-> NoSecret]
    /\ expected = [settings |-> {SettingsOf(disk.file)}, secrets |-> {NoSecret},
                   kept |-> FALSE, keyLost |-> FALSE]
    /\ count = [keys |-> 0, saves |-> 0]

\* A key that stored credentials need is written over.
KeyWrittenOver(d) ==
    [expected EXCEPT !.keyLost = @ \/ (d.key > 0 /\ d.credentials # NoCredentials)]

\* _credential_key, when a load wants the key: one that is no key, or whose reading fails for
\* any reason, is written over by a fresh one, and that write may fail as well.
KeysAfterLoad(d) ==
    IF d.file \in {Missing, Broken} \/ d.credentials = NoCredentials THEN {d.key}
    ELSE {d.key, BadKey} \cup (IF count.keys < MaxKeys THEN {count.keys + 1} ELSE {})

(* load_config, at the start of the program or later.  Credentials whose    *)
(* reading fails are none.                                                  *)
LoadConfig ==
    /\ program.step \in {"down", "idle"}
    /\ \E key \in KeysAfterLoad(disk) :
          /\ disk' = [disk EXCEPT !.key = key]
          /\ count' = [count EXCEPT !.keys = IF key > @ THEN key ELSE @]
          /\ expected' = IF key = disk.key THEN expected ELSE KeyWrittenOver(disk)
    /\ \E secret \in {SecretOf(disk'), NoSecret} :
          program' = [step |-> "idle", settings |-> SettingsOf(disk.file), secret |-> secret]

\* A configuration file whose reading fails gives the defaults.
LoadFails ==
    /\ program.step \in {"down", "idle"}
    /\ program' = [step |-> "idle", settings |-> Defaults, secret |-> NoSecret]
    /\ UNCHANGED <<disk, expected, count>>

(* The user edits the configuration in memory.                              *)
Edit ==
    /\ program.step = "idle"
    /\ \E stop \in Stops, toman \in Tomans, secret \in Secrets \cup {NoSecret} :
          program' = [program EXCEPT !.settings.stop = stop, !.settings.toman = toman,
                                     !.secret = secret]
    /\ UNCHANGED <<disk, expected, count>>

(* save_config begins.  A save of a Nobitex configuration is a save of what *)
(* its Toman amount means, whatever exchange amount memory still holds.     *)
Meant(settings) ==
    IF settings.exchange = "nobitex" THEN [settings EXCEPT !.rial = 10 * settings.toman]
    ELSE settings

BeginSave ==
    /\ program.step = "idle"
    /\ count.saves < MaxSaves
    /\ program' = [program EXCEPT !.step = "credentials"]
    /\ expected' = [expected EXCEPT !.settings = @ \cup {Meant(program.settings)},
                                    !.secrets = @ \cup {program.secret}, !.kept = FALSE]
    /\ count' = [count EXCEPT !.saves = @ + 1]
    /\ UNCHANGED disk

(* _save_credentials: empty ones remove the file, and a failing removal is  *)
(* passed over; others want a key, which is written in place where there is *)
(* none or its reading fails, and replace the file in one step.             *)
RemoveCredentials ==
    /\ program.step = "credentials"
    /\ program.secret = NoSecret
    /\ disk' = [disk EXCEPT !.credentials = NoCredentials]
    /\ program' = [program EXCEPT !.step = "file"]
    /\ expected' = [expected EXCEPT !.keyLost = FALSE]
    /\ UNCHANGED count

RemovalFails ==
    /\ program.step = "credentials"
    /\ program.secret = NoSecret
    /\ disk.credentials # NoCredentials
    /\ program' = [program EXCEPT !.step = "file"]
    /\ expected' = [expected EXCEPT !.kept = TRUE]
    /\ UNCHANGED <<disk, count>>

BeginKey ==
    /\ program.step = "credentials"
    /\ program.secret # NoSecret
    /\ count.keys < MaxKeys
    /\ disk' = [disk EXCEPT !.key = BadKey]
    /\ program' = [program EXCEPT !.step = "key"]
    /\ expected' = KeyWrittenOver(disk)
    /\ UNCHANGED count

WriteKey ==
    /\ program.step = "key"
    /\ disk' = [disk EXCEPT !.key = count.keys + 1]
    /\ count' = [count EXCEPT !.keys = @ + 1]
    /\ program' = [program EXCEPT !.step = "encrypt"]
    /\ UNCHANGED expected

ReplaceCredentials ==
    /\ program.secret # NoSecret
    /\ \/ program.step = "credentials" /\ disk.key > 0
       \/ program.step = "encrypt"
    /\ disk' = [disk EXCEPT !.credentials = [under |-> disk.key, secret |-> program.secret]]
    /\ program' = [program EXCEPT !.step = "file"]
    /\ expected' = [expected EXCEPT !.keyLost = FALSE]
    /\ UNCHANGED count

\* Mistaken: the file is written in place.
WhileWriting_InPlace(file) == Broken

\* The configuration is written to a temporary file: meanwhile the old one stays as it is.
WhileWriting(file) == file

WriteFile ==
    /\ program.step = "file"
    /\ disk' = [disk EXCEPT !.file = WhileWriting(@)]
    /\ program' = [program EXCEPT !.step = "replace"]
    /\ UNCHANGED <<expected, count>>

ReplaceFile ==
    /\ program.step = "replace"
    /\ disk' = [disk EXCEPT !.file = program.settings]
    /\ program' = [program EXCEPT !.step = "idle"]
    /\ expected' = [expected EXCEPT !.settings = {Meant(program.settings)},
                                    !.secrets = IF expected.kept THEN @ ELSE {program.secret}]
    /\ UNCHANGED count

(* A step of the save raises: save_config answers FALSE, with what the      *)
(* steps before it have already changed.                                    *)
Fail ==
    /\ program.step \in {"credentials", "key", "encrypt", "file", "replace"}
    /\ program' = [program EXCEPT !.step = "idle"]
    /\ UNCHANGED <<disk, expected, count>>

(* The program dies at any point; what is on disk stays.                    *)
ProgramDies ==
    /\ program.step # "down"
    /\ program' = [step |-> "down", settings |-> Defaults, secret |-> NoSecret]
    /\ UNCHANGED <<disk, expected, count>>

ConfigNext ==
    \/ LoadConfig \/ LoadFails \/ Edit
    \/ BeginSave \/ RemoveCredentials \/ RemovalFails \/ BeginKey \/ WriteKey \/ ReplaceCredentials
    \/ WriteFile \/ ReplaceFile
    \/ Fail \/ ProgramDies

ConfigSpec == ConfigInit /\ [][ConfigNext]_configVars

-----------------------------------------------------------------------------
(* Whatever step a save was cut short at, the settings a load gives, when   *)
(* it can read the file, are those of the last save that succeeded or of    *)
(* one that was begun since: no migration takes back what was saved, and no *)
(* crash leaves a file that is neither (load_config after save_config).     *)
SettingsAreOldOrNew == SettingsOf(disk.file) \in expected.settings

(* The same of the credentials: they are those last saved or those of a     *)
(* save begun since, or those the last save was to remove and did not.      *)
(* Without a configuration file none are read, and they are unreadable only *)
(* when the key they need was written over because reading it once failed:  *)
(* no other step of a save or of a load, wherever it ends, loses them.      *)
SecretIsOldOrNew ==
    \/ SecretOf(disk) \in expected.secrets
    \/ SecretOf(disk) = NoSecret /\ (disk.file \in {Missing, Broken} \/ expected.keyLost)
=============================================================================
