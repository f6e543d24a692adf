----------------------------- MODULE ProtoTypes -----------------------------
(***************************************************************************)
(* Every message type of @merjs/proto.                                     *)
(***************************************************************************)
EXTENDS ProtoSchema, TLC

Base == INSTANCE CosmosBase
Crypto == INSTANCE CosmosCrypto
Auth == INSTANCE CosmosAuth
Transaction == INSTANCE CosmosTx
Bank == INSTANCE CosmosBank
Staking == INSTANCE CosmosStaking
Distribution == INSTANCE CosmosDistribution
Gov == INSTANCE CosmosGov
Modules == INSTANCE CosmosModules
Google == INSTANCE GoogleProtobuf
Maker == INSTANCE MerlionMaker
Oracle == INSTANCE MerlionOracle
Merlion == INSTANCE MerlionTypes
Abci == INSTANCE TendermintAbci
Tendermint == INSTANCE TendermintTypes
Evm == INSTANCE Ethermint
Ibc == INSTANCE IbcTypes

AllTypes ==
  UNION {Base!Types, Crypto!Types, Auth!Types, Transaction!Types, Bank!Types,
         Staking!Types, Distribution!Types, Gov!Types, Modules!Types,
         Google!Types, Maker!Types, Oracle!Types, Merlion!Types, Abci!Types,
         Tendermint!Types, Evm!Types, Ibc!Types}

\* The fields of each type, by its name (@@ has TLC compute the table once).
AllSchemas ==
  LET types == AllTypes IN
  [name \in {NameOf(type) : type \in types} |->
    FieldList(CHOOSE type \in types : NameOf(type) = name)] @@ <<>>
=============================================================================
