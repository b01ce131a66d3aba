--------------------------- MODULE KeyDerivation ----------------------------
(***************************************************************************)
(* From the mnemonic to the address (lib/wallet_core/wallet_core.cpp):     *)
(* HMAC-SHA512, PBKDF2, SLIP-0010 and the Solana path, as programs over    *)
(* memory.  A cell holds the term it was computed as: the hash functions   *)
(* are free constructors, so two terms are equal only when they are the    *)
(* same computation.  Buffers are passed by their names, so an output may  *)
(* be the buffer an input is read from, as PBKDF2 and the callers of       *)
(* wc_slip10_child have it.                                                *)
(***************************************************************************)
EXTENDS Integers, Sequences

CONSTANTS
  Rounds,           \* iterations of PBKDF2 (2048)
  MnemonicLengths,  \* lengths of mnemonics, the longest cut by strnlen
  PassLengths,      \* lengths of passphrases, likewise
  SeedLengths       \* seed_len of a direct call of wc_slip10_master

ASSUME DerivationAssumption ==
  /\ Rounds \in Nat \ {0}
  /\ MnemonicLengths \subseteq 0 .. 240 /\ PassLengths \subseteq 0 .. 64
  /\ SeedLengths \subseteq Nat

VARIABLES
  mem,     \* the buffers
  at,      \* what is done next
  hmac,    \* the arguments of the current hmac_sha512 call
  turn,    \* loop variable of the caller
  task,    \* what was asked for
  answer   \* what the last exported function returned

derivationVars == <<mem, at, hmac, turn, task, answer>>

MNEMONIC_MAX_LEN == 240
PASSPHRASE_MAX_LEN == 64
HashBlock == 128
Path == <<44, 501, 0, 0>>

Cell == {"mnemonic", "ed25519 seed", "seed", "kL", "cc", "nkL", "ncc", "pub", "address",
         "priv_tmp", "salt", "U", "T", "I", "data", "hkey", "k", "ipad", "opad", "inner", "h"}

Zero == <<"zero">>
Garbage == <<"garbage">>
Named(name) == <<"input", name>>
Sha512(term) == <<"sha512", term>>
PadOf(key, pad) == <<pad, key>>
Joined(block, text) == <<block, text>>
Left(term) == <<"left", term>>
Right(term) == <<"right", term>>
XorOf(terms) == <<"xor", terms>>
ChildInput(key, index) == <<"child", key, index>>
PublicKey(term) == <<"public", term>>
PrivateKey(term) == <<"private", term>>
Base58Of(term) == <<"base58", term>>

\* The bytes a call does not use are whatever the stack or the caller had there.
Fresh ==
  [c \in Cell |-> IF c \in {"mnemonic", "ed25519 seed"} THEN Named(c) ELSE Garbage]

NoCall == [key |-> "k", keylen |-> 0, data |-> "k", datalen |-> 0, out |-> "k", ret |-> "none"]
Call(key, keylen, data, datalen, out, ret) ==
  [key |-> key, keylen |-> keylen, data |-> data, datalen |-> datalen, out |-> out, ret |-> ret]

NoTask == [what |-> "none", mlen |-> 0, plen |-> 0, seedLen |-> 0, inPlace |-> FALSE]

\* buildWallet asks for an address; host tests and wallet_core.h also use the
\* parts of it, with other passphrases, other seeds and aliased buffers.
Tasks ==
  [what : {"address"}, mlen : MnemonicLengths, plen : PassLengths, seedLen : {0}, inPlace : {FALSE}]
  \cup [what : {"children"}, mlen : {0}, plen : {0}, seedLen : SeedLengths, inPlace : BOOLEAN]

DerivationInit ==
  /\ task \in Tasks
  /\ mem = [Fresh EXCEPT !["seed"] = IF task.what = "children" THEN Named("seed") ELSE Garbage]
  /\ at = IF task.what = "address" THEN "seed" ELSE "master"
  /\ hmac = NoCall /\ turn = 0 /\ answer = FALSE

DerivationIdle ==
  /\ task = NoTask /\ mem = [c \in Cell |-> Zero] /\ at = "end"
  /\ hmac = NoCall /\ turn = 0 /\ answer = FALSE

-----------------------------------------------------------------------------
(* hmac_sha512 *)

Calls(call) == hmac' = call /\ at' = "hmac" /\ UNCHANGED <<turn, task, answer>>

\* Mutant: the output is cleared first, as the exported functions do.
OutCleared == [mem EXCEPT ![hmac.out] = Zero]
OutUntouched == mem

\* The workspace holds 240 bytes of data; more is refused and the output zeroed.
HmacCheck ==
  /\ at = "hmac"
  /\ IF hmac.datalen > MNEMONIC_MAX_LEN
     THEN mem' = [mem EXCEPT ![hmac.out] = Zero] /\ at' = hmac.ret
     ELSE mem' = OutUntouched /\ at' = "hmac key"
  /\ UNCHANGED <<hmac, turn, task, answer>>

LongKey == hmac.keylen > HashBlock

Wiped(m, cells) == [c \in Cell |-> IF c \in cells THEN Zero ELSE m[c]]

\* A long key is hashed into a buffer of its own, the first of two called h,
\* copied from there and the buffer wiped.
HashLongKey ==
  /\ at = "hmac key" /\ LongKey
  /\ mem' = [mem EXCEPT !["hkey"] = Sha512(mem[hmac.key])]
  /\ at' = "hmac hashed"
  /\ UNCHANGED <<hmac, turn, task, answer>>

CopyLongKey ==
  /\ at = "hmac hashed"
  /\ mem' = Wiped([mem EXCEPT !["k"] = mem["hkey"]], {"hkey"})
  /\ at' = "hmac pads"
  /\ UNCHANGED <<hmac, turn, task, answer>>

HmacKey ==
  /\ at = "hmac key" /\ ~LongKey
  /\ mem' = [mem EXCEPT !["k"] = mem[hmac.key]]
  /\ at' = "hmac pads"
  /\ UNCHANGED <<hmac, turn, task, answer>>

HmacPads ==
  /\ at = "hmac pads"
  /\ mem' = [mem EXCEPT !["ipad"] = PadOf(mem["k"], "ipad"), !["opad"] = PadOf(mem["k"], "opad")]
  /\ at' = "hmac inner"
  /\ UNCHANGED <<hmac, turn, task, answer>>

HmacInner ==
  /\ at = "hmac inner"
  /\ LET inner == Joined(mem["ipad"], mem[hmac.data]) IN
       mem' = [mem EXCEPT !["inner"] = inner, !["h"] = Sha512(inner)]
  /\ at' = "hmac outer"
  /\ UNCHANGED <<hmac, turn, task, answer>>

HmacOuter ==
  /\ at = "hmac outer"
  /\ LET inner == Joined(mem["opad"], mem["h"]) IN
       mem' = [mem EXCEPT !["inner"] = inner, ![hmac.out] = Sha512(inner)]
  /\ at' = "hmac wipe"
  /\ UNCHANGED <<hmac, turn, task, answer>>

\* Mutant: the padded keys, each the key up to a constant, are left on the stack.
WorkspaceButPads == {"k", "inner", "h"}
Workspace == {"k", "ipad", "opad", "inner", "h"}

HmacWipe ==
  /\ at = "hmac wipe"
  /\ mem' = Wiped(mem, Workspace) /\ at' = hmac.ret
  /\ UNCHANGED <<hmac, turn, task, answer>>

-----------------------------------------------------------------------------
(* wc_seed_from_mnemonic *)

SeedStart ==
  /\ at = "seed"
  /\ IF task.mlen = MNEMONIC_MAX_LEN \/ task.plen = PASSPHRASE_MAX_LEN
     THEN /\ mem' = Wiped(mem, {"seed"}) /\ at' = "end" /\ answer' = FALSE
          /\ UNCHANGED <<hmac, turn, task>>
     ELSE /\ mem' = [Wiped(mem, {"seed"}) EXCEPT !["salt"] = Named("salt")]
          /\ Calls(Call("mnemonic", task.mlen, "salt", 8 + task.plen + 4, "U", "seed first"))

SeedFirst ==
  /\ at = "seed first"
  /\ mem' = [mem EXCEPT !["T"] = XorOf({mem["U"]})]
  /\ turn' = 1 /\ at' = "seed loop"
  /\ UNCHANGED <<hmac, task, answer>>

\* The next U is computed into the buffer the last one is read from.
SeedLoop ==
  /\ at = "seed loop" /\ turn < Rounds
  /\ Calls(Call("mnemonic", task.mlen, "U", 64, "U", "seed xor"))
  /\ UNCHANGED mem

SeedXor ==
  /\ at = "seed xor"
  /\ LET terms == mem["T"][2] u == mem["U"] IN
       mem' = [mem EXCEPT !["T"] = XorOf((terms \ {u}) \cup ({u} \ terms))]
  /\ turn' = turn + 1 /\ at' = "seed loop"
  /\ UNCHANGED <<hmac, task, answer>>

SeedEnd ==
  /\ at = "seed loop" /\ turn = Rounds
  /\ mem' = Wiped([mem EXCEPT !["seed"] = mem["T"]], {"salt", "U", "T"})
  /\ answer' = TRUE /\ turn' = 0 /\ at' = "seeded"
  /\ UNCHANGED <<hmac, task>>

-----------------------------------------------------------------------------
(* wc_slip10_master and wc_slip10_child *)

SeedLen == IF task.what = "children" THEN task.seedLen ELSE 64

MasterStart ==
  /\ at \in {"seeded", "master"}
  /\ mem' = Wiped(mem, {"kL", "cc"})
  /\ IF SeedLen \in 1 .. 128
     THEN Calls(Call("ed25519 seed", 12, "seed", SeedLen, "I", "master end"))
     ELSE at' = "end" /\ answer' = FALSE /\ UNCHANGED <<hmac, turn, task>>

MasterEnd ==
  /\ at = "master end"
  /\ mem' = Wiped([mem EXCEPT !["kL"] = Left(mem["I"]), !["cc"] = Right(mem["I"])], {"I"})
  /\ answer' = TRUE /\ at' = "child"
  /\ UNCHANGED <<hmac, turn, task>>

\* index | 0x80000000, the highest bit apart.
Hardened(index) == <<TRUE, index>>

\* The buffers wc_slip10_child writes to.
OutKey == IF task.inPlace THEN "kL" ELSE "nkL"
OutChain == IF task.inPlace THEN "cc" ELSE "ncc"

ChildStart ==
  /\ at = "child" /\ turn < Len(Path)
  /\ mem' = [mem EXCEPT !["data"] = ChildInput(mem["kL"], Hardened(Path[turn + 1]))]
  /\ Calls(Call("cc", 32, "data", 37, "I", "child end"))

ChildEnd ==
  /\ at = "child end"
  /\ mem' = Wiped([mem EXCEPT ![OutKey] = Left(mem["I"]), ![OutChain] = Right(mem["I"])],
                  {"data", "I"})
  /\ at' = "child copy"
  /\ UNCHANGED <<hmac, turn, task, answer>>

\* wc_solana_private_seed copies the child back and wipes its copy.
ChildCopy ==
  /\ at = "child copy"
  /\ mem' = Wiped([mem EXCEPT !["kL"] = mem[OutKey], !["cc"] = mem[OutChain]],
                  IF task.inPlace THEN {} ELSE {"nkL", "ncc"})
  /\ turn' = turn + 1 /\ at' = "child"
  /\ UNCHANGED <<hmac, task, answer>>

PathEnd ==
  /\ at = "child" /\ turn = Len(Path)
  /\ mem' = Wiped(mem, {"cc"})
  /\ at' = IF task.what = "address" THEN "public key" ELSE "end"
  /\ UNCHANGED <<hmac, turn, task, answer>>

\* wc_ed25519_pubkey: the keypair, whose private half is then wiped.
KeypairMade ==
  /\ at = "public key"
  /\ mem' = [mem EXCEPT !["pub"] = PublicKey(mem["kL"]), !["priv_tmp"] = PrivateKey(mem["kL"])]
  /\ at' = "keypair wipe"
  /\ UNCHANGED <<hmac, turn, task, answer>>

KeypairWipe ==
  /\ at = "keypair wipe"
  /\ mem' = Wiped(mem, {"priv_tmp"}) /\ at' = "base58"
  /\ UNCHANGED <<hmac, turn, task, answer>>

\* The rest of wc_solana_address.
AddressEncoded ==
  /\ at = "base58"
  /\ mem' = [mem EXCEPT !["address"] = Base58Of(mem["pub"])] /\ at' = "address wipe"
  /\ UNCHANGED <<hmac, turn, task, answer>>

\* Its own wipes, and that of the seed in buildWallet, which it returns to.
AddressWipe ==
  /\ at = "address wipe"
  /\ mem' = Wiped(mem, {"kL", "pub", "seed"}) /\ at' = "end"
  /\ UNCHANGED <<hmac, turn, task, answer>>

DerivationNext ==
  \/ HmacCheck \/ HashLongKey \/ CopyLongKey \/ HmacKey
  \/ HmacPads \/ HmacInner \/ HmacOuter \/ HmacWipe
  \/ SeedStart \/ SeedFirst \/ SeedLoop \/ SeedXor \/ SeedEnd
  \/ MasterStart \/ MasterEnd \/ ChildStart \/ ChildEnd \/ ChildCopy \/ PathEnd
  \/ KeypairMade \/ KeypairWipe \/ AddressEncoded \/ AddressWipe

DerivationSpec == DerivationInit /\ [][DerivationNext]_derivationVars

-----------------------------------------------------------------------------
\* RFC 2104: a key longer than the block is hashed first.
Rfc2104(key, long, text) ==
  LET k == IF long THEN Sha512(key) ELSE key
  IN  Sha512(Joined(PadOf(k, "opad"), Sha512(Joined(PadOf(k, "ipad"), text))))

\* RFC 8018, one block: the exclusive or of U_1 to U_c.
Rfc8018(password, long, salt) ==
  LET U[n \in 1 .. Rounds] ==
        Rfc2104(password, long, IF n = 1 THEN salt ELSE U[n - 1])
  IN  XorOf({U[n] : n \in 1 .. Rounds})

\* SLIP-0010: key and chain code after n hardened steps of the path.
Slip10(seed) ==
  LET master == Rfc2104(Named("ed25519 seed"), FALSE, seed)
      step[n \in 0 .. Len(Path)] ==
        IF n = 0 THEN <<Left(master), Right(master)>>
        ELSE LET I == Rfc2104(step[n - 1][2], FALSE, ChildInput(step[n - 1][1], <<TRUE, Path[n]>>))
             IN  <<Left(I), Right(I)>>
  IN  step

TheSeed ==
  IF task.what = "children" THEN Named("seed")
  ELSE Rfc8018(Named("mnemonic"), task.mlen > 128, Named("salt"))

\* PBKDF2 over one buffer U, whose next value is computed from where it stands,
\* is the function of RFC 8018 for every mnemonic and passphrase that fits,
\* although the result of hmac_sha512 is never looked at; whatever does not fit
\* leaves a zero seed and no TRUE.
SeedIsPbkdf2 ==
  task.what = "address" =>
    /\ at = "seeded" => answer /\ mem["seed"] = TheSeed
    /\ at = "end" /\ ~ answer => mem["seed"] = Zero /\ mem["address"] = Garbage

\* After every turn of the loop of wc_solana_private_seed the key is that of
\* SLIP-0010 that many hardened steps down m/44'/501'/0'/0', also when a caller
\* lets wc_slip10_child write over its own inputs; and the address is that of
\* the last key.
KeyIsDerived ==
  /\ at = "child" => <<mem["kL"], mem["cc"]>> = Slip10(TheSeed)[turn]
  /\ at = "end" /\ answer =>
       LET key == Slip10(TheSeed)[Len(Path)][1] IN
       IF task.what = "address" THEN mem["address"] = Base58Of(PublicKey(key)) ELSE mem["kL"] = key

\* Whichever way a function of wallet_core.cpp returns, no buffer it declared
\* keeps key material: not the hashed or padded keys of hmac_sha512, the private
\* half of the keypair or the parent's key; and when the address is made the
\* private key and the seed are gone too.  A buffer that was not used holds what
\* the stack held before; the insides of the hash and curve libraries are not
\* buffers of these functions.
TemporariesWiped ==
  /\ at \in {"seeded", "end"} =>
       \A c \in {"salt", "U", "T", "I", "data", "hkey", "k", "ipad", "opad", "inner", "h",
                 "cc", "nkL", "ncc", "pub", "priv_tmp"} : mem[c] \in {Zero, Garbage}
  /\ at = "end" /\ task.what = "address" =>
       \A c \in {"kL", "seed"} : mem[c] \in {Zero, Garbage}

\* From words to address the device computes what other wallets compute.
AddressIsDerived == SeedIsPbkdf2 /\ KeyIsDerived
=============================================================================
