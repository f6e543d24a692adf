---------------------------- MODULE CosmosCrypto ----------------------------
(****************************************************************************)
(* Schemas of public and private keys of cosmos and ethermint.              *)
(****************************************************************************)
EXTENDS ProtoSchema

\* cosmos/crypto/ed25519/keys.ts
Ed25519PubKey == MessageType("cosmos.crypto.ed25519.PubKey", <<
  Bytes(1, "key")>>)
Ed25519PrivKey == MessageType("cosmos.crypto.ed25519.PrivKey", <<
  Bytes(1, "key")>>)

\* cosmos/crypto/multisig/keys.ts
LegacyAminoPubKey == MessageType("cosmos.crypto.multisig.LegacyAminoPubKey", <<
  Uint32(1, "threshold"),
  Repeated(Nested(2, "public_keys", "google.protobuf.Any"))>>)

\* cosmos/crypto/multisig/v1beta1/multisig.ts
MultiSignature == MessageType("cosmos.crypto.multisig.v1beta1.MultiSignature", <<
  Repeated(Bytes(1, "signatures"))>>)
CompactBitArray == MessageType("cosmos.crypto.multisig.v1beta1.CompactBitArray", <<
  Uint32(1, "extra_bits_stored"), Bytes(2, "elems")>>)

\* cosmos/crypto/secp256k1/keys.ts
Secp256k1PubKey == MessageType("cosmos.crypto.secp256k1.PubKey", <<
  Bytes(1, "key")>>)
Secp256k1PrivKey == MessageType("cosmos.crypto.secp256k1.PrivKey", <<
  Bytes(1, "key")>>)

\* cosmos/crypto/secp256r1/keys.ts
Secp256r1PubKey == MessageType("cosmos.crypto.secp256r1.PubKey", <<
  Bytes(1, "key")>>)
Secp256r1PrivKey == MessageType("cosmos.crypto.secp256r1.PrivKey", <<
  Bytes(1, "secret")>>)

\* ethermint/crypto/v1/ethsecp256k1/keys.ts
EthSecp256k1PubKey == MessageType("ethermint.crypto.v1.ethsecp256k1.PubKey", <<
  Bytes(1, "key")>>)
EthSecp256k1PrivKey == MessageType("ethermint.crypto.v1.ethsecp256k1.PrivKey", <<
  Bytes(1, "key")>>)

Types == {
   Ed25519PubKey, Ed25519PrivKey, LegacyAminoPubKey, MultiSignature,
   CompactBitArray, Secp256k1PubKey, Secp256k1PrivKey, Secp256r1PubKey,
   Secp256r1PrivKey, EthSecp256k1PubKey, EthSecp256k1PrivKey}
=============================================================================
