---------------------------- MODULE Credentials ----------------------------
(***************************************************************************)
(* Where the API key and the endpoint of a command come from               *)
(* (src/src/config.rs): the command line, the environment, and the lines   *)
(* of the credentials file, as it is at the moment it is read.             *)
(***************************************************************************)
EXTENDS Naturals, Sequences

CONSTANTS
  Unset,      \* no such flag, variable, line, file or directory
  Empty,      \* the empty text
  DefaultUrl  \* https://api.trustbeat.eu/v1

ASSUME UnsetAssumption == Unset \notin {Empty, DefaultUrl} /\ Empty # DefaultUrl

(* The directory of the credentials file; the one of TRUSTBEAT_CONFIG_HOME *)
(* is taken even if it is empty, or not there.                             *)
config_path(env) ==
  IF env.configHome # Unset THEN env.configHome
  ELSE IF env.home # Unset THEN env.home
  ELSE env.userProfile

(* The value of the first line with a key.  A line is [name, value]; a     *)
(* comment, a blank or a line with no "=" has no name.  A file that is not  *)
(* there or cannot be read has no lines: the code drops the error.         *)
read_config_value(name, lines) ==
  LET matching == {k \in DOMAIN lines : lines[k].name = name}
  IN  IF matching = {} THEN Unset
      ELSE lines[CHOOSE k \in matching : \A j \in matching : k <= j].value

(* An empty flag or variable counts as none; an empty line does not.       *)
FirstSet(flag, variable, line) ==
  IF flag # Unset THEN flag ELSE IF variable # Unset THEN variable ELSE line

FirstGiven(flag, variable, line) ==
  IF flag \notin {Unset, Empty} THEN flag
  ELSE IF variable \notin {Unset, Empty} THEN variable
  ELSE line

(* resolve_api_key; Unset is its error.                                    *)
resolve_api_key(flags, env, lines) ==
  FirstGiven(flags.key, env.key, read_config_value("api_key", lines))

(* resolve_api_url, which drops the slashes at the end of a URL; URLs that *)
(* differ in them alone are one value here.                                *)
resolve_api_url(flags, env, lines) ==
  LET url == FirstGiven(flags.url, env.url, read_config_value("api_url", lines))
  IN  IF url = Unset THEN DefaultUrl ELSE url

=============================================================================
