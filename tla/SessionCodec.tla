---------------------------- MODULE SessionCodec ----------------------------
(***************************************************************************)
(* The bytes of a CasinoSession as casino-session-codec.ts writes and      *)
(* reads them: big-endian integers of fixed width, addresses, one byte of  *)
(* flags, and two length-prefixed byte strings.  The base of a byte and    *)
(* the widths are parameters, in the source 256 and the ones of WIDTH.     *)
(***************************************************************************)
EXTENDS Integers, Sequences, SequencesExt

CONSTANTS BYTE,             \* values of a byte
          WIDTH,            \* type -> number of bytes
          Sessions,         \* sessions to encode
          Flags             \* values another writer may put in the flags

Types == {"uint8", "uint16", "uint32", "uint40", "uint64", "uint128", "uint256", "address"}
Bytes == 0..(BYTE - 1)

\* CasinoSessionSnapshot; a caller may give numbers and strings that do not fit.
CasinoSessionSnapshots ==
    [sessionId : Int, player : Seq(Bytes), vault : Seq(Bytes), game : Seq(Bytes),
     token : Seq(Bytes), wagerBase : Int, escrowedStake : Int, reservedProfit : Int,
     maxEscrowStake : Int, maxReservedProfit : Int, deadlineBlock : Int, step : Int,
     phase : Int, riskMaxPayout : Int, riskProbabilityWad : Int,
     riskSubVarianceScaled : Int, riskHeavyTail : BOOLEAN,
     riskHighMultiplierFloor : BOOLEAN, gameData : Seq(Bytes), gameState : Seq(Bytes)]

ASSUME CodecAssumption ==
    /\ BYTE \in Nat /\ BYTE > 3
    /\ WIDTH \in [Types -> Nat \ {0}] /\ WIDTH["uint8"] = 1
    /\ Sessions \subseteq CasinoSessionSnapshots /\ Flags \subseteq Bytes

VARIABLES session,          \* what is to be encoded
          wire,             \* its bytes, or what became of them
          carried           \* "no", "intact", "cut", "extended", "reflagged"

codecVars == <<session, wire, carried>>

FLAG_HEAVY_TAIL == 1
FLAG_HIGH_MULTIPLIER_FLOOR == 2

FIELDS == << <<"sessionId", "uint64">>,
             <<"player", "address">>, <<"vault", "address">>,
             <<"game", "address">>, <<"token", "address">>,
             <<"wagerBase", "uint128">>, <<"escrowedStake", "uint128">>,
             <<"reservedProfit", "uint128">>, <<"maxEscrowStake", "uint128">>,
             <<"maxReservedProfit", "uint128">>, <<"deadlineBlock", "uint40">>,
             <<"step", "uint32">>, <<"phase", "uint8">>,
             <<"riskMaxPayout", "uint128">>, <<"riskProbabilityWad", "uint64">>,
             <<"riskSubVarianceScaled", "uint256">>, <<"flags", "uint8">> >>

FieldWidth(n) == WIDTH[FIELDS[n][2]]

\* Bytes before field n; FIXED_LENGTH is all of them.
OffsetOf[n \in 1..(Len(FIELDS) + 1)] ==
    IF n = 1 THEN 0 ELSE OffsetOf[n - 1] + FieldWidth(n - 1)
FIXED_LENGTH == OffsetOf[Len(FIELDS) + 1]

-----------------------------------------------------------------------------
\* Writing

\* value without its last n digits.
Shifted(value, n) ==
    LET shifted[k \in 0..n] == IF k = 0 THEN value ELSE shifted[k - 1] \div BYTE
    IN  shifted[n]

uintHex(value, width) == [n \in 1..width |-> Shifted(value, width - n) % BYTE]

Fits(value, width) == value >= 0 /\ Shifted(value, width) = 0

FlagsOf(s) == (IF s.riskHeavyTail THEN FLAG_HEAVY_TAIL ELSE 0)
              + (IF s.riskHighMultiplierFloor THEN FLAG_HIGH_MULTIPLIER_FLOOR ELSE 0)

FieldBytes(s, n) ==
    LET name == FIELDS[n][1]
    IN  CASE name = "flags" -> uintHex(FlagsOf(s), FieldWidth(n))
          [] FIELDS[n][2] = "address" -> s[name]
          [] OTHER -> uintHex(s[name], FieldWidth(n))

lengthPrefixed(bytes) == uintHex(Len(bytes), WIDTH["uint16"]) \o bytes

\* encodeCasinoSession throws otherwise.
SessionFits(s) ==
    /\ \A n \in 1..(Len(FIELDS) - 1) :
         IF FIELDS[n][2] = "address" THEN Len(s[FIELDS[n][1]]) = FieldWidth(n)
         ELSE Fits(s[FIELDS[n][1]], FieldWidth(n))
    /\ Fits(Len(s.gameData), WIDTH["uint16"])
    /\ Fits(Len(s.gameState), WIDTH["uint16"])

encodeCasinoSession(s) ==
    FlattenSeq([n \in 1..Len(FIELDS) |-> FieldBytes(s, n)])
      \o lengthPrefixed(s.gameData) \o lengthPrefixed(s.gameState)

-----------------------------------------------------------------------------
\* Reading

\* `bytes` are at least as many as are taken.
take(bytes, offset, width) == SubSeq(bytes, offset + 1, offset + width)

uint(bytes, offset, width) ==
    LET read[n \in 0..width] == IF n = 0 THEN 0 ELSE BYTE * read[n - 1] + bytes[offset + n]
    IN  read[width]

\* Length-prefixed bytes at an offset, and where they end.
PrefixedEnd(bytes, offset) ==
    offset + WIDTH["uint16"] + uint(bytes, offset, WIDTH["uint16"])
Prefixed(bytes, offset) ==
    take(bytes, offset + WIDTH["uint16"], uint(bytes, offset, WIDTH["uint16"]))

DataEnd(bytes) == PrefixedEnd(bytes, FIXED_LENGTH)

\* Mutation: a reader that is content when it has reached the end of the data.
WellFormedClipped(bytes) ==
    /\ Len(bytes) >= FIXED_LENGTH + 2 * WIDTH["uint16"]
    /\ DataEnd(bytes) + WIDTH["uint16"] <= Len(bytes)
    /\ PrefixedEnd(bytes, DataEnd(bytes)) >= Len(bytes)

\* decodeCasinoSession throws otherwise: too short, truncated, or trailing bytes.
WellFormed(bytes) ==
    /\ Len(bytes) >= FIXED_LENGTH + 2 * WIDTH["uint16"]
    /\ DataEnd(bytes) + WIDTH["uint16"] <= Len(bytes)
    /\ PrefixedEnd(bytes, DataEnd(bytes)) = Len(bytes)

FieldIndex(name) == CHOOSE n \in 1..Len(FIELDS) : FIELDS[n][1] = name

decodeCasinoSession(bytes) ==
    LET At(name) == OffsetOf[FieldIndex(name)]
        Width(name) == FieldWidth(FieldIndex(name))
        Uint(name) == uint(bytes, At(name), Width(name))
        Address(name) == take(bytes, At(name), Width(name))
    IN  [sessionId |-> Uint("sessionId"), player |-> Address("player"),
         vault |-> Address("vault"), game |-> Address("game"), token |-> Address("token"),
         wagerBase |-> Uint("wagerBase"), escrowedStake |-> Uint("escrowedStake"),
         reservedProfit |-> Uint("reservedProfit"),
         maxEscrowStake |-> Uint("maxEscrowStake"),
         maxReservedProfit |-> Uint("maxReservedProfit"),
         deadlineBlock |-> Uint("deadlineBlock"), step |-> Uint("step"),
         phase |-> Uint("phase"), riskMaxPayout |-> Uint("riskMaxPayout"),
         riskProbabilityWad |-> Uint("riskProbabilityWad"),
         riskSubVarianceScaled |-> Uint("riskSubVarianceScaled"),
         riskHeavyTail |-> Uint("flags") % 2 = FLAG_HEAVY_TAIL,
         riskHighMultiplierFloor |-> (Uint("flags") \div FLAG_HIGH_MULTIPLIER_FLOOR) % 2 = 1,
         gameData |-> Prefixed(bytes, FIXED_LENGTH),
         gameState |-> Prefixed(bytes, DataEnd(bytes))]

-----------------------------------------------------------------------------
\* Bytes on their way

Encode ==
    /\ carried = "no" /\ SessionFits(session)
    /\ wire' = encodeCasinoSession(session) /\ carried' = "intact"
    /\ UNCHANGED session

Cut(n) ==
    /\ carried = "intact"
    /\ wire' = SubSeq(wire, 1, n) /\ carried' = "cut"
    /\ UNCHANGED session

Extend(byte) ==
    /\ carried = "intact"
    /\ wire' = Append(wire, byte) /\ carried' = "extended"
    /\ UNCHANGED session

\* Another writer of the same format sets flags this one does not know.
Reflag(flags) ==
    /\ carried = "intact"
    /\ wire' = [wire EXCEPT ![FIXED_LENGTH] = flags] /\ carried' = "reflagged"
    /\ UNCHANGED session

CodecInit == session \in Sessions /\ wire = <<>> /\ carried = "no"

CodecNext ==
    \/ Encode
    \/ \E n \in 0..(Len(wire) - 1) : Cut(n)
    \/ \E byte \in 0..(BYTE - 1) : Extend(byte)
    \/ \E flags \in Flags : Reflag(flags)

CodecSpec == CodecInit /\ [][CodecNext]_codecVars

-----------------------------------------------------------------------------
\* Properties

\* "The inverse of decodeCasinoSession": what is encoded is read back as it was,
\* also at the largest value of every field and for empty and full data.
ReadsBack ==
    carried = "intact" => WellFormed(wire) /\ decodeCasinoSession(wire) = session

\* "Throws on any length mismatch": no proper prefix and no extension of an
\* encoded session is taken for a session.
OnlyWholeSessions == carried \in {"cut", "extended"} => ~WellFormed(wire)

\* Whatever is accepted is what would be written: the host stores a hash of the
\* bytes, so bytes that decode alike must be alike.  Only flags unknown to this
\* reader are lost.
AcceptedIsCanonical ==
    WellFormed(wire) =>
        LET s == decodeCasinoSession(wire)
        IN  /\ SessionFits(s)
            /\ encodeCasinoSession(s) = [wire EXCEPT ![FIXED_LENGTH] = @ % 4]

\* So encode and decode are inverse to each other, and nothing but what encode
\* can write is read.
CodecIsExact == ReadsBack /\ OnlyWholeSessions /\ AcceptedIsCanonical
=============================================================================
