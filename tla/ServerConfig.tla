---------------------------- MODULE ServerConfig ----------------------------
(***************************************************************************)
(* core/config.ts: what readServerConfig makes of the environment.  A      *)
(* variable of the environment is a text of a small vocabulary or          *)
(* Undefined; names, secrets and host names count only by their length in  *)
(* bytes, keys only by the number of the key they decode to.  In a text an *)
(* underscore stands for a blank.                                          *)
(***************************************************************************)
EXTENDS Integers

Undefined == "undefined"
Empty     == "empty"      \* the text without a character
Unset     == -1    \* a text that is undefined, where only lengths count
BadKey    == -1    \* a text that is not the base64 of 32 bytes
NaN       == -1    \* Number(...) is not an integer

\* external: what Number(...) makes of a text; blank texts are 0
Number(text) ==
    CASE text = Empty      -> 0
      [] text = "0"        -> 0
      [] text = "1"        -> 1
      [] text = "_2048_"   -> 2048
      [] text = "2049"     -> 2049
      [] text = "1023"     -> 1023
      [] text = "0x400"    -> 1024
      [] text = "16777216" -> 16777216
      [] text = "16777217" -> 16777217
      [] OTHER             -> NaN

\* external: trim().toLowerCase()
Normalized(text) ==
    CASE text = "_TRUE_"   -> "true"
      [] text = "Off"      -> "off"
      [] text = "_Legacy"  -> "legacy"
      [] text = "__"       -> Empty
      [] OTHER             -> text

Accepted(value) == [ok |-> TRUE, value |-> value]
Rejected        == [ok |-> FALSE]

-----------------------------------------------------------------------------
requireText(bytes) == bytes # Unset /\ bytes # 0

\* Mutant: an empty variable is not taken for an absent one
parsePositiveInt_EmptyIsZero(text, fallback) ==
    LET parsed == IF text = Undefined THEN fallback ELSE Number(text)
    IN  IF parsed >= 1 /\ parsed <= 2048 THEN Accepted(parsed) ELSE Rejected

parsePositiveInt(text, fallback) ==
    IF text \in {Undefined, Empty} THEN Accepted(fallback)
    ELSE IF Number(text) >= 1 /\ Number(text) <= 2048 THEN Accepted(Number(text)) ELSE Rejected

parseBoolean(text) ==
    IF text \in {Undefined, Empty} THEN Accepted(FALSE)
    ELSE IF Normalized(text) \in {"true", "1", "yes", "on"} THEN Accepted(TRUE)
    ELSE IF Normalized(text) \in {"false", "0", "no", "off"} THEN Accepted(FALSE)
    ELSE Rejected

parseConnectionMode(text) ==
    IF text \in {Undefined, Empty} THEN Accepted("secure")
    ELSE IF Normalized(text) \in {"secure", "legacy"} THEN Accepted(Normalized(text))
    ELSE Rejected

maxFrameBytes(text) ==
    LET n == IF text = Undefined THEN 1048576 ELSE Number(text)
    IN  IF n >= 1024 /\ n <= 16777216 THEN Accepted(n) ELSE Rejected

\* Boolean(...): an empty key is an absent one
HasKey(key) == key # 0

decodeBase64Key(key) == key # BadKey

\* The configuration, or Rejected where the code throws
readServerConfig(env) ==
    LET frame    == maxFrameBytes(env.MAX_FRAME_BYTES)
        pending  == parsePositiveInt(env.MAX_PENDING_PER_IP, 17)
        relay    == parseBoolean(env.DISABLE_RELAY_DATA)
        mode     == parseConnectionMode(env.CONNECTION_MODE)
        hostname == IF env.EASYTIER_HOSTNAME = Unset THEN 4 ELSE env.EASYTIER_HOSTNAME
        pinned   == HasKey(env.LOCAL_PRIVATE_KEY)
    IN  IF /\ requireText(env.NETWORK_NAME) /\ env.NETWORK_NAME <= 255
           /\ requireText(env.NETWORK_SECRET)
           /\ pinned = HasKey(env.LOCAL_PUBLIC_KEY)
           /\ frame.ok /\ pending.ok /\ relay.ok /\ mode.ok
           /\ hostname \in 1..255
           /\ pinned => /\ decodeBase64Key(env.LOCAL_PUBLIC_KEY)
                        /\ decodeBase64Key(env.LOCAL_PRIVATE_KEY)
        THEN [ok               |-> TRUE,
              hostname         |-> hostname,
              localKeys        |-> [priv |-> env.LOCAL_PRIVATE_KEY, pub |-> env.LOCAL_PUBLIC_KEY],
              disableRelayData |-> relay.value,
              maxFrameBytes    |-> frame.value,
              maxPendingPerIp  |-> pending.value,
              connectionMode   |-> mode.value]
        ELSE Rejected

-----------------------------------------------------------------------------
(* The environments considered: one that sets what is required, with or    *)
(* without keys, and what becomes of an environment when one variable is   *)
(* changed.                                                                *)

LeastEnv ==
    [NETWORK_NAME |-> 6, NETWORK_SECRET |-> 1, LOCAL_PRIVATE_KEY |-> 0, LOCAL_PUBLIC_KEY |-> 0,
     DISABLE_RELAY_DATA |-> Undefined, EASYTIER_HOSTNAME |-> Unset,
     MAX_FRAME_BYTES |-> Undefined, MAX_PENDING_PER_IP |-> Undefined,
     CONNECTION_MODE |-> Undefined]

Envs ==
    {[LeastEnv EXCEPT !.LOCAL_PRIVATE_KEY = priv, !.LOCAL_PUBLIC_KEY = pub] :
        priv \in {0, 1, BadKey}, pub \in {0, 1, 2, BadKey}}

NumberTexts == {Empty, "0", "1", "_2048_", "2049", "1023", "0x400", "16777216", "16777217", "many"}
WordTexts   == {Empty, "__", "_TRUE_", "yes", "Off", "0", "secure", "_Legacy", "maybe"}

Changes(env) ==
         {[env EXCEPT !.NETWORK_NAME = n] : n \in {Unset, 0, 255, 256}}
    \cup {[env EXCEPT !.NETWORK_SECRET = n] : n \in {Unset, 0}}
    \cup {[env EXCEPT !.EASYTIER_HOSTNAME = n] : n \in {0, 255, 256}}
    \cup {[env EXCEPT !.MAX_FRAME_BYTES = t] : t \in NumberTexts}
    \cup {[env EXCEPT !.MAX_PENDING_PER_IP = t] : t \in NumberTexts}
    \cup {[env EXCEPT !.DISABLE_RELAY_DATA = t] : t \in WordTexts}
    \cup {[env EXCEPT !.CONNECTION_MODE = t] : t \in WordTexts}

-----------------------------------------------------------------------------
(* Reference: the table of README.md (Configuration), and for empty texts  *)
(* the messages of the errors.                                             *)

DocumentedFrame ==
    [text \in {Undefined, "_2048_", "2049", "0x400", "16777216"} |->
        CASE text = Undefined -> 1048576 [] text = "_2048_" -> 2048 [] text = "2049" -> 2049
          [] text = "0x400" -> 1024      [] OTHER -> 16777216]

DocumentedPending ==
    [text \in {Undefined, Empty, "1", "_2048_", "1023", "0x400"} |->
        CASE text \in {Undefined, Empty} -> 17 [] text = "1" -> 1 [] text = "_2048_" -> 2048
          [] text = "1023" -> 1023          [] OTHER -> 1024]

DocumentedRelay == [text \in {Undefined, Empty, "_TRUE_", "yes", "Off", "0"} |->
                        text \in {"_TRUE_", "yes"}]

DocumentedMode == [text \in {Undefined, Empty, "secure", "_Legacy"} |->
                        IF text = "_Legacy" THEN "legacy" ELSE "secure"]

\* Both keys of the table are given and decode, or neither is given
KeysGiven(env) ==
    \/ env.LOCAL_PRIVATE_KEY = 0 /\ env.LOCAL_PUBLIC_KEY = 0
    \/ env.LOCAL_PRIVATE_KEY > 0 /\ env.LOCAL_PUBLIC_KEY > 0

\* The public key is the "matching" one
KeysMatch(env) == env.LOCAL_PRIVATE_KEY = env.LOCAL_PUBLIC_KEY

\* The rows of the table for the other variables
OtherRows(env) ==
    /\ env.NETWORK_NAME \in 1..255 /\ env.NETWORK_SECRET > 0
    /\ env.EASYTIER_HOSTNAME \in {Unset} \cup 1..255
    /\ env.MAX_FRAME_BYTES \in DOMAIN DocumentedFrame
    /\ env.MAX_PENDING_PER_IP \in DOMAIN DocumentedPending
    /\ env.DISABLE_RELAY_DATA \in DOMAIN DocumentedRelay
    /\ env.CONNECTION_MODE \in DOMAIN DocumentedMode

\* The table allows the environment
TableAllows(env) == OtherRows(env) /\ KeysGiven(env) /\ KeysMatch(env)

\* An environment is accepted exactly if the table allows each of its values,
\* except that readServerConfig does not check that the public key matches;
\* and then an omitted value is the documented default: no text slips through
\* a conversion as another value or as 0.
ConfigAsDocumented(env) ==
    LET config == readServerConfig(env)
    IN  /\ config.ok <=> OtherRows(env) /\ KeysGiven(env)
        /\ config.ok =>
             /\ config.maxFrameBytes = DocumentedFrame[env.MAX_FRAME_BYTES]
             /\ config.maxPendingPerIp = DocumentedPending[env.MAX_PENDING_PER_IP]
             /\ config.disableRelayData = DocumentedRelay[env.DISABLE_RELAY_DATA]
             /\ config.connectionMode = DocumentedMode[env.CONNECTION_MODE]
             /\ env.EASYTIER_HOSTNAME = Unset => config.hostname = 4
=============================================================================
