------------------------------ MODULE IbcTypes ------------------------------
(****************************************************************************)
(* Schemas of ibc and ics23.                                                *)
(****************************************************************************)
EXTENDS ProtoSchema

\* ibc/applications/interchain_accounts/controller/v1/controller.ts
Params == MessageType("ibc.applications.interchain_accounts.controller.v1.Params", <<
  Bool(1, "controller_enabled")>>)

\* ibc/applications/interchain_accounts/controller/v1/query.ts
QueryParamsRequest == MessageType("ibc.applications.interchain_accounts.controller.v1.QueryParamsRequest", <<>>)
QueryParamsResponse == MessageType("ibc.applications.interchain_accounts.controller.v1.QueryParamsResponse", <<
  Nested(1, "params", "ibc.applications.interchain_accounts.controller.v1.Params")>>)

\* ibc/applications/interchain_accounts/host/v1/host.ts
HostParams == MessageType("ibc.applications.interchain_accounts.host.v1.Params", <<
  Bool(1, "host_enabled"), Repeated(Str(2, "allow_messages"))>>)

\* ibc/applications/interchain_accounts/host/v1/query.ts
HostQueryParamsRequest == MessageType("ibc.applications.interchain_accounts.host.v1.QueryParamsRequest", <<>>)
HostQueryParamsResponse == MessageType("ibc.applications.interchain_accounts.host.v1.QueryParamsResponse", <<
  Nested(1, "params", "ibc.applications.interchain_accounts.host.v1.Params")>>)

\* ibc/applications/interchain_accounts/v1/account.ts
InterchainAccount == MessageType("ibc.applications.interchain_accounts.v1.InterchainAccount", <<
  Nested(1, "base_account", "cosmos.auth.v1beta1.BaseAccount"),
  Str(2, "account_owner")>>)

\* ibc/applications/interchain_accounts/v1/genesis.ts
GenesisState == MessageType("ibc.applications.interchain_accounts.v1.GenesisState", <<
  Nested(1, "controller_genesis_state", "ibc.applications.interchain_accounts.v1.ControllerGenesisState"),
  Nested(2, "host_genesis_state", "ibc.applications.interchain_accounts.v1.HostGenesisState")>>)
ControllerGenesisState == MessageType("ibc.applications.interchain_accounts.v1.ControllerGenesisState", <<
  Repeated(Nested(1, "active_channels", "ibc.applications.interchain_accounts.v1.ActiveChannel")),
  Repeated(Nested(2, "interchain_accounts", "ibc.applications.interchain_accounts.v1.RegisteredInterchainAccount")),
  Repeated(Str(3, "ports")),
  Nested(4, "params", "ibc.applications.interchain_accounts.controller.v1.Params")>>)
HostGenesisState == MessageType("ibc.applications.interchain_accounts.v1.HostGenesisState", <<
  Repeated(Nested(1, "active_channels", "ibc.applications.interchain_accounts.v1.ActiveChannel")),
  Repeated(Nested(2, "interchain_accounts", "ibc.applications.interchain_accounts.v1.RegisteredInterchainAccount")),
  Str(3, "port"),
  Nested(4, "params", "ibc.applications.interchain_accounts.host.v1.Params")>>)
ActiveChannel == MessageType("ibc.applications.interchain_accounts.v1.ActiveChannel", <<
  Str(1, "connection_id"), Str(2, "port_id"), Str(3, "channel_id")>>)
RegisteredInterchainAccount == MessageType("ibc.applications.interchain_accounts.v1.RegisteredInterchainAccount", <<
  Str(1, "connection_id"), Str(2, "port_id"), Str(3, "account_address")>>)

\* ibc/applications/interchain_accounts/v1/metadata.ts
Metadata == MessageType("ibc.applications.interchain_accounts.v1.Metadata", <<
  Str(1, "version"), Str(2, "controller_connection_id"),
  Str(3, "host_connection_id"), Str(4, "address"), Str(5, "encoding"),
  Str(6, "tx_type")>>)

\* ibc/applications/interchain_accounts/v1/packet.ts
InterchainAccountPacketData == MessageType("ibc.applications.interchain_accounts.v1.InterchainAccountPacketData", <<
  Enum(1, "type"), Bytes(2, "data"), Str(3, "memo")>>)
CosmosTx == MessageType("ibc.applications.interchain_accounts.v1.CosmosTx", <<
  Repeated(Nested(1, "messages", "google.protobuf.Any"))>>)

\* ibc/applications/transfer/v1/genesis.ts
TransferGenesisState == MessageType("ibc.applications.transfer.v1.GenesisState", <<
  Str(1, "port_id"),
  Repeated(Nested(2, "denom_traces", "ibc.applications.transfer.v1.DenomTrace")),
  Nested(3, "params", "ibc.applications.transfer.v1.Params")>>)

\* ibc/applications/transfer/v1/query.ts
QueryDenomTraceRequest == MessageType("ibc.applications.transfer.v1.QueryDenomTraceRequest", <<
  Str(1, "hash")>>)
QueryDenomTraceResponse == MessageType("ibc.applications.transfer.v1.QueryDenomTraceResponse", <<
  Nested(1, "denom_trace", "ibc.applications.transfer.v1.DenomTrace")>>)
QueryDenomTracesRequest == MessageType("ibc.applications.transfer.v1.QueryDenomTracesRequest", <<
  Nested(1, "pagination", "cosmos.base.query.v1beta1.PageRequest")>>)
QueryDenomTracesResponse == MessageType("ibc.applications.transfer.v1.QueryDenomTracesResponse", <<
  Repeated(Nested(1, "denom_traces", "ibc.applications.transfer.v1.DenomTrace")),
  Nested(2, "pagination", "cosmos.base.query.v1beta1.PageResponse")>>)
TransferQueryParamsRequest == MessageType("ibc.applications.transfer.v1.QueryParamsRequest", <<>>)
TransferQueryParamsResponse == MessageType("ibc.applications.transfer.v1.QueryParamsResponse", <<
  Nested(1, "params", "ibc.applications.transfer.v1.Params")>>)
QueryDenomHashRequest == MessageType("ibc.applications.transfer.v1.QueryDenomHashRequest", <<
  Str(1, "trace")>>)
QueryDenomHashResponse == MessageType("ibc.applications.transfer.v1.QueryDenomHashResponse", <<
  Str(1, "hash")>>)

\* ibc/applications/transfer/v1/transfer.ts
DenomTrace == MessageType("ibc.applications.transfer.v1.DenomTrace", <<
  Str(1, "path"), Str(2, "base_denom")>>)
TransferParams == MessageType("ibc.applications.transfer.v1.Params", <<
  Bool(1, "send_enabled"), Bool(2, "receive_enabled")>>)

\* ibc/applications/transfer/v1/tx.ts
MsgTransfer == MessageType("ibc.applications.transfer.v1.MsgTransfer", <<
  Str(1, "source_port"), Str(2, "source_channel"),
  Nested(3, "token", "cosmos.base.v1beta1.Coin"), Str(4, "sender"),
  Str(5, "receiver"), Nested(6, "timeout_height", "ibc.core.client.v1.Height"),
  Uint64(7, "timeout_timestamp")>>)
MsgTransferResponse == MessageType("ibc.applications.transfer.v1.MsgTransferResponse", <<>>)

\* ibc/applications/transfer/v2/packet.ts
FungibleTokenPacketData == MessageType("ibc.applications.transfer.v2.FungibleTokenPacketData", <<
  Str(1, "denom"), Str(2, "amount"), Str(3, "sender"), Str(4, "receiver")>>)

\* ibc/core/channel/v1/channel.ts
Channel == MessageType("ibc.core.channel.v1.Channel", <<
  Enum(1, "state"), Enum(2, "ordering"),
  Nested(3, "counterparty", "ibc.core.channel.v1.Counterparty"),
  Repeated(Str(4, "connection_hops")), Str(5, "version")>>)
IdentifiedChannel == MessageType("ibc.core.channel.v1.IdentifiedChannel", <<
  Enum(1, "state"), Enum(2, "ordering"),
  Nested(3, "counterparty", "ibc.core.channel.v1.Counterparty"),
  Repeated(Str(4, "connection_hops")), Str(5, "version"), Str(6, "port_id"),
  Str(7, "channel_id")>>)
Counterparty == MessageType("ibc.core.channel.v1.Counterparty", <<
  Str(1, "port_id"), Str(2, "channel_id")>>)
Packet == MessageType("ibc.core.channel.v1.Packet", <<
  Uint64(1, "sequence"), Str(2, "source_port"), Str(3, "source_channel"),
  Str(4, "destination_port"), Str(5, "destination_channel"), Bytes(6, "data"),
  Nested(7, "timeout_height", "ibc.core.client.v1.Height"),
  Uint64(8, "timeout_timestamp")>>)
PacketState == MessageType("ibc.core.channel.v1.PacketState", <<
  Str(1, "port_id"), Str(2, "channel_id"), Uint64(3, "sequence"),
  Bytes(4, "data")>>)
Acknowledgement == MessageType("ibc.core.channel.v1.Acknowledgement", <<
  OneOf("response", Bytes(21, "result")),
  OneOf("response", Str(22, "error"))>>)

\* ibc/core/channel/v1/genesis.ts
ChannelGenesisState == MessageType("ibc.core.channel.v1.GenesisState", <<
  Repeated(Nested(1, "channels", "ibc.core.channel.v1.IdentifiedChannel")),
  Repeated(Nested(2, "acknowledgements", "ibc.core.channel.v1.PacketState")),
  Repeated(Nested(3, "commitments", "ibc.core.channel.v1.PacketState")),
  Repeated(Nested(4, "receipts", "ibc.core.channel.v1.PacketState")),
  Repeated(Nested(5, "send_sequences", "ibc.core.channel.v1.PacketSequence")),
  Repeated(Nested(6, "recv_sequences", "ibc.core.channel.v1.PacketSequence")),
  Repeated(Nested(7, "ack_sequences", "ibc.core.channel.v1.PacketSequence")),
  Uint64(8, "next_channel_sequence")>>)
PacketSequence == MessageType("ibc.core.channel.v1.PacketSequence", <<
  Str(1, "port_id"), Str(2, "channel_id"), Uint64(3, "sequence")>>)

\* ibc/core/channel/v1/query.ts
QueryChannelRequest == MessageType("ibc.core.channel.v1.QueryChannelRequest", <<
  Str(1, "port_id"), Str(2, "channel_id")>>)
QueryChannelResponse == MessageType("ibc.core.channel.v1.QueryChannelResponse", <<
  Nested(1, "channel", "ibc.core.channel.v1.Channel"), Bytes(2, "proof"),
  Nested(3, "proof_height", "ibc.core.client.v1.Height")>>)
QueryChannelsRequest == MessageType("ibc.core.channel.v1.QueryChannelsRequest", <<
  Nested(1, "pagination", "cosmos.base.query.v1beta1.PageRequest")>>)
QueryChannelsResponse == MessageType("ibc.core.channel.v1.QueryChannelsResponse", <<
  Repeated(Nested(1, "channels", "ibc.core.channel.v1.IdentifiedChannel")),
  Nested(2, "pagination", "cosmos.base.query.v1beta1.PageResponse"),
  Nested(3, "height", "ibc.core.client.v1.Height")>>)
QueryConnectionChannelsRequest == MessageType("ibc.core.channel.v1.QueryConnectionChannelsRequest", <<
  Str(1, "connection"),
  Nested(2, "pagination", "cosmos.base.query.v1beta1.PageRequest")>>)
QueryConnectionChannelsResponse == MessageType("ibc.core.channel.v1.QueryConnectionChannelsResponse", <<
  Repeated(Nested(1, "channels", "ibc.core.channel.v1.IdentifiedChannel")),
  Nested(2, "pagination", "cosmos.base.query.v1beta1.PageResponse"),
  Nested(3, "height", "ibc.core.client.v1.Height")>>)
QueryChannelClientStateRequest == MessageType("ibc.core.channel.v1.QueryChannelClientStateRequest", <<
  Str(1, "port_id"), Str(2, "channel_id")>>)
QueryChannelClientStateResponse == MessageType("ibc.core.channel.v1.QueryChannelClientStateResponse", <<
  Nested(1, "identified_client_state", "ibc.core.client.v1.IdentifiedClientState"),
  Bytes(2, "proof"), Nested(3, "proof_height", "ibc.core.client.v1.Height")>>)
QueryChannelConsensusStateRequest == MessageType("ibc.core.channel.v1.QueryChannelConsensusStateRequest", <<
  Str(1, "port_id"), Str(2, "channel_id"), Uint64(3, "revision_number"),
  Uint64(4, "revision_height")>>)
QueryChannelConsensusStateResponse == MessageType("ibc.core.channel.v1.QueryChannelConsensusStateResponse", <<
  Nested(1, "consensus_state", "google.protobuf.Any"), Str(2, "client_id"),
  Bytes(3, "proof"), Nested(4, "proof_height", "ibc.core.client.v1.Height")>>)
QueryPacketCommitmentRequest == MessageType("ibc.core.channel.v1.QueryPacketCommitmentRequest", <<
  Str(1, "port_id"), Str(2, "channel_id"), Uint64(3, "sequence")>>)
QueryPacketCommitmentResponse == MessageType("ibc.core.channel.v1.QueryPacketCommitmentResponse", <<
  Bytes(1, "commitment"), Bytes(2, "proof"),
  Nested(3, "proof_height", "ibc.core.client.v1.Height")>>)
QueryPacketCommitmentsRequest == MessageType("ibc.core.channel.v1.QueryPacketCommitmentsRequest", <<
  Str(1, "port_id"), Str(2, "channel_id"),
  Nested(3, "pagination", "cosmos.base.query.v1beta1.PageRequest")>>)
QueryPacketCommitmentsResponse == MessageType("ibc.core.channel.v1.QueryPacketCommitmentsResponse", <<
  Repeated(Nested(1, "commitments", "ibc.core.channel.v1.PacketState")),
  Nested(2, "pagination", "cosmos.base.query.v1beta1.PageResponse"),
  Nested(3, "height", "ibc.core.client.v1.Height")>>)
QueryPacketReceiptRequest == MessageType("ibc.core.channel.v1.QueryPacketReceiptRequest", <<
  Str(1, "port_id"), Str(2, "channel_id"), Uint64(3, "sequence")>>)
QueryPacketReceiptResponse == MessageType("ibc.core.channel.v1.QueryPacketReceiptResponse", <<
  Bool(2, "received"), Bytes(3, "proof"),
  Nested(4, "proof_height", "ibc.core.client.v1.Height")>>)
QueryPacketAcknowledgementRequest == MessageType("ibc.core.channel.v1.QueryPacketAcknowledgementRequest", <<
  Str(1, "port_id"), Str(2, "channel_id"), Uint64(3, "sequence")>>)
QueryPacketAcknowledgementResponse == MessageType("ibc.core.channel.v1.QueryPacketAcknowledgementResponse", <<
  Bytes(1, "acknowledgement"), Bytes(2, "proof"),
  Nested(3, "proof_height", "ibc.core.client.v1.Height")>>)
QueryPacketAcknowledgementsRequest == MessageType("ibc.core.channel.v1.QueryPacketAcknowledgementsRequest", <<
  Str(1, "port_id"), Str(2, "channel_id"),
  Nested(3, "pagination", "cosmos.base.query.v1beta1.PageRequest"),
  Packed(Uint64(4, "packet_commitment_sequences"))>>)
QueryPacketAcknowledgementsResponse == MessageType("ibc.core.channel.v1.QueryPacketAcknowledgementsResponse", <<
  Repeated(Nested(1, "acknowledgements", "ibc.core.channel.v1.PacketState")),
  Nested(2, "pagination", "cosmos.base.query.v1beta1.PageResponse"),
  Nested(3, "height", "ibc.core.client.v1.Height")>>)
QueryUnreceivedPacketsRequest == MessageType("ibc.core.channel.v1.QueryUnreceivedPacketsRequest", <<
  Str(1, "port_id"), Str(2, "channel_id"),
  Packed(Uint64(3, "packet_commitment_sequences"))>>)
QueryUnreceivedPacketsResponse == MessageType("ibc.core.channel.v1.QueryUnreceivedPacketsResponse", <<
  Packed(Uint64(1, "sequences")),
  Nested(2, "height", "ibc.core.client.v1.Height")>>)
QueryUnreceivedAcksRequest == MessageType("ibc.core.channel.v1.QueryUnreceivedAcksRequest", <<
  Str(1, "port_id"), Str(2, "channel_id"),
  Packed(Uint64(3, "packet_ack_sequences"))>>)
QueryUnreceivedAcksResponse == MessageType("ibc.core.channel.v1.QueryUnreceivedAcksResponse", <<
  Packed(Uint64(1, "sequences")),
  Nested(2, "height", "ibc.core.client.v1.Height")>>)
QueryNextSequenceReceiveRequest == MessageType("ibc.core.channel.v1.QueryNextSequenceReceiveRequest", <<
  Str(1, "port_id"), Str(2, "channel_id")>>)
QueryNextSequenceReceiveResponse == MessageType("ibc.core.channel.v1.QueryNextSequenceReceiveResponse", <<
  Uint64(1, "next_sequence_receive"), Bytes(2, "proof"),
  Nested(3, "proof_height", "ibc.core.client.v1.Height")>>)

\* ibc/core/channel/v1/tx.ts
MsgChannelOpenInit == MessageType("ibc.core.channel.v1.MsgChannelOpenInit", <<
  Str(1, "port_id"), Nested(2, "channel", "ibc.core.channel.v1.Channel"),
  Str(3, "signer")>>)
MsgChannelOpenInitResponse == MessageType("ibc.core.channel.v1.MsgChannelOpenInitResponse", <<
  Str(1, "channel_id")>>)
MsgChannelOpenTry == MessageType("ibc.core.channel.v1.MsgChannelOpenTry", <<
  Str(1, "port_id"), Str(2, "previous_channel_id"),
  Nested(3, "channel", "ibc.core.channel.v1.Channel"),
  Str(4, "counterparty_version"), Bytes(5, "proof_init"),
  Nested(6, "proof_height", "ibc.core.client.v1.Height"), Str(7, "signer")>>)
MsgChannelOpenTryResponse == MessageType("ibc.core.channel.v1.MsgChannelOpenTryResponse", <<>>)
MsgChannelOpenAck == MessageType("ibc.core.channel.v1.MsgChannelOpenAck", <<
  Str(1, "port_id"), Str(2, "channel_id"), Str(3, "counterparty_channel_id"),
  Str(4, "counterparty_version"), Bytes(5, "proof_try"),
  Nested(6, "proof_height", "ibc.core.client.v1.Height"), Str(7, "signer")>>)
MsgChannelOpenAckResponse == MessageType("ibc.core.channel.v1.MsgChannelOpenAckResponse", <<>>)
MsgChannelOpenConfirm == MessageType("ibc.core.channel.v1.MsgChannelOpenConfirm", <<
  Str(1, "port_id"), Str(2, "channel_id"), Bytes(3, "proof_ack"),
  Nested(4, "proof_height", "ibc.core.client.v1.Height"), Str(5, "signer")>>)
MsgChannelOpenConfirmResponse == MessageType("ibc.core.channel.v1.MsgChannelOpenConfirmResponse", <<>>)
MsgChannelCloseInit == MessageType("ibc.core.channel.v1.MsgChannelCloseInit", <<
  Str(1, "port_id"), Str(2, "channel_id"), Str(3, "signer")>>)
MsgChannelCloseInitResponse == MessageType("ibc.core.channel.v1.MsgChannelCloseInitResponse", <<>>)
MsgChannelCloseConfirm == MessageType("ibc.core.channel.v1.MsgChannelCloseConfirm", <<
  Str(1, "port_id"), Str(2, "channel_id"), Bytes(3, "proof_init"),
  Nested(4, "proof_height", "ibc.core.client.v1.Height"), Str(5, "signer")>>)
MsgChannelCloseConfirmResponse == MessageType("ibc.core.channel.v1.MsgChannelCloseConfirmResponse", <<>>)
MsgRecvPacket == MessageType("ibc.core.channel.v1.MsgRecvPacket", <<
  Nested(1, "packet", "ibc.core.channel.v1.Packet"),
  Bytes(2, "proof_commitment"),
  Nested(3, "proof_height", "ibc.core.client.v1.Height"), Str(4, "signer")>>)
MsgRecvPacketResponse == MessageType("ibc.core.channel.v1.MsgRecvPacketResponse", <<>>)
MsgTimeout == MessageType("ibc.core.channel.v1.MsgTimeout", <<
  Nested(1, "packet", "ibc.core.channel.v1.Packet"),
  Bytes(2, "proof_unreceived"),
  Nested(3, "proof_height", "ibc.core.client.v1.Height"),
  Uint64(4, "next_sequence_recv"), Str(5, "signer")>>)
MsgTimeoutResponse == MessageType("ibc.core.channel.v1.MsgTimeoutResponse", <<>>)
MsgTimeoutOnClose == MessageType("ibc.core.channel.v1.MsgTimeoutOnClose", <<
  Nested(1, "packet", "ibc.core.channel.v1.Packet"),
  Bytes(2, "proof_unreceived"), Bytes(3, "proof_close"),
  Nested(4, "proof_height", "ibc.core.client.v1.Height"),
  Uint64(5, "next_sequence_recv"), Str(6, "signer")>>)
MsgTimeoutOnCloseResponse == MessageType("ibc.core.channel.v1.MsgTimeoutOnCloseResponse", <<>>)
MsgAcknowledgement == MessageType("ibc.core.channel.v1.MsgAcknowledgement", <<
  Nested(1, "packet", "ibc.core.channel.v1.Packet"),
  Bytes(2, "acknowledgement"), Bytes(3, "proof_acked"),
  Nested(4, "proof_height", "ibc.core.client.v1.Height"), Str(5, "signer")>>)
MsgAcknowledgementResponse == MessageType("ibc.core.channel.v1.MsgAcknowledgementResponse", <<>>)

\* ibc/core/client/v1/client.ts
IdentifiedClientState == MessageType("ibc.core.client.v1.IdentifiedClientState", <<
  Str(1, "client_id"), Nested(2, "client_state", "google.protobuf.Any")>>)
ConsensusStateWithHeight == MessageType("ibc.core.client.v1.ConsensusStateWithHeight", <<
  Nested(1, "height", "ibc.core.client.v1.Height"),
  Nested(2, "consensus_state", "google.protobuf.Any")>>)
ClientConsensusStates == MessageType("ibc.core.client.v1.ClientConsensusStates", <<
  Str(1, "client_id"),
  Repeated(Nested(2, "consensus_states", "ibc.core.client.v1.ConsensusStateWithHeight"))>>)
ClientUpdateProposal == MessageType("ibc.core.client.v1.ClientUpdateProposal", <<
  Str(1, "title"), Str(2, "description"), Str(3, "subject_client_id"),
  Str(4, "substitute_client_id")>>)
UpgradeProposal == MessageType("ibc.core.client.v1.UpgradeProposal", <<
  Str(1, "title"), Str(2, "description"),
  Nested(3, "plan", "cosmos.upgrade.v1beta1.Plan"),
  Nested(4, "upgraded_client_state", "google.protobuf.Any")>>)
Height == MessageType("ibc.core.client.v1.Height", <<
  Uint64(1, "revision_number"), Uint64(2, "revision_height")>>)
ClientParams == MessageType("ibc.core.client.v1.Params", <<
  Repeated(Str(1, "allowed_clients"))>>)

\* ibc/core/client/v1/genesis.ts
ClientGenesisState == MessageType("ibc.core.client.v1.GenesisState", <<
  Repeated(Nested(1, "clients", "ibc.core.client.v1.IdentifiedClientState")),
  Repeated(Nested(2, "clients_consensus", "ibc.core.client.v1.ClientConsensusStates")),
  Repeated(Nested(3, "clients_metadata", "ibc.core.client.v1.IdentifiedGenesisMetadata")),
  Nested(4, "params", "ibc.core.client.v1.Params"),
  Bool(5, "create_localhost"), Uint64(6, "next_client_sequence")>>)
GenesisMetadata == MessageType("ibc.core.client.v1.GenesisMetadata", <<
  Bytes(1, "key"), Bytes(2, "value")>>)
IdentifiedGenesisMetadata == MessageType("ibc.core.client.v1.IdentifiedGenesisMetadata", <<
  Str(1, "client_id"),
  Repeated(Nested(2, "client_metadata", "ibc.core.client.v1.GenesisMetadata"))>>)

\* ibc/core/client/v1/query.ts
QueryClientStateRequest == MessageType("ibc.core.client.v1.QueryClientStateRequest", <<
  Str(1, "client_id")>>)
QueryClientStateResponse == MessageType("ibc.core.client.v1.QueryClientStateResponse", <<
  Nested(1, "client_state", "google.protobuf.Any"), Bytes(2, "proof"),
  Nested(3, "proof_height", "ibc.core.client.v1.Height")>>)
QueryClientStatesRequest == MessageType("ibc.core.client.v1.QueryClientStatesRequest", <<
  Nested(1, "pagination", "cosmos.base.query.v1beta1.PageRequest")>>)
QueryClientStatesResponse == MessageType("ibc.core.client.v1.QueryClientStatesResponse", <<
  Repeated(Nested(1, "client_states", "ibc.core.client.v1.IdentifiedClientState")),
  Nested(2, "pagination", "cosmos.base.query.v1beta1.PageResponse")>>)
QueryConsensusStateRequest == MessageType("ibc.core.client.v1.QueryConsensusStateRequest", <<
  Str(1, "client_id"), Uint64(2, "revision_number"),
  Uint64(3, "revision_height"), Bool(4, "latest_height")>>)
QueryConsensusStateResponse == MessageType("ibc.core.client.v1.QueryConsensusStateResponse", <<
  Nested(1, "consensus_state", "google.protobuf.Any"), Bytes(2, "proof"),
  Nested(3, "proof_height", "ibc.core.client.v1.Height")>>)
QueryConsensusStatesRequest == MessageType("ibc.core.client.v1.QueryConsensusStatesRequest", <<
  Str(1, "client_id"),
  Nested(2, "pagination", "cosmos.base.query.v1beta1.PageRequest")>>)
QueryConsensusStatesResponse == MessageType("ibc.core.client.v1.QueryConsensusStatesResponse", <<
  Repeated(Nested(1, "consensus_states", "ibc.core.client.v1.ConsensusStateWithHeight")),
  Nested(2, "pagination", "cosmos.base.query.v1beta1.PageResponse")>>)
QueryClientStatusRequest == MessageType("ibc.core.client.v1.QueryClientStatusRequest", <<
  Str(1, "client_id")>>)
QueryClientStatusResponse == MessageType("ibc.core.client.v1.QueryClientStatusResponse", <<
  Str(1, "status")>>)
QueryClientParamsRequest == MessageType("ibc.core.client.v1.QueryClientParamsRequest", <<>>)
QueryClientParamsResponse == MessageType("ibc.core.client.v1.QueryClientParamsResponse", <<
  Nested(1, "params", "ibc.core.client.v1.Params")>>)
QueryUpgradedClientStateRequest == MessageType("ibc.core.client.v1.QueryUpgradedClientStateRequest", <<>>)
QueryUpgradedClientStateResponse == MessageType("ibc.core.client.v1.QueryUpgradedClientStateResponse", <<
  Nested(1, "upgraded_client_state", "google.protobuf.Any")>>)
QueryUpgradedConsensusStateRequest == MessageType("ibc.core.client.v1.QueryUpgradedConsensusStateRequest", <<>>)
QueryUpgradedConsensusStateResponse == MessageType("ibc.core.client.v1.QueryUpgradedConsensusStateResponse", <<
  Nested(1, "upgraded_consensus_state", "google.protobuf.Any")>>)

\* ibc/core/client/v1/tx.ts
MsgCreateClient == MessageType("ibc.core.client.v1.MsgCreateClient", <<
  Nested(1, "client_state", "google.protobuf.Any"),
  Nested(2, "consensus_state", "google.protobuf.Any"), Str(3, "signer")>>)
MsgCreateClientResponse == MessageType("ibc.core.client.v1.MsgCreateClientResponse", <<>>)
MsgUpdateClient == MessageType("ibc.core.client.v1.MsgUpdateClient", <<
  Str(1, "client_id"), Nested(2, "header", "google.protobuf.Any"),
  Str(3, "signer")>>)
MsgUpdateClientResponse == MessageType("ibc.core.client.v1.MsgUpdateClientResponse", <<>>)
MsgUpgradeClient == MessageType("ibc.core.client.v1.MsgUpgradeClient", <<
  Str(1, "client_id"), Nested(2, "client_state", "google.protobuf.Any"),
  Nested(3, "consensus_state", "google.protobuf.Any"),
  Bytes(4, "proof_upgrade_client"), Bytes(5, "proof_upgrade_consensus_state"),
  Str(6, "signer")>>)
MsgUpgradeClientResponse == MessageType("ibc.core.client.v1.MsgUpgradeClientResponse", <<>>)
MsgSubmitMisbehaviour == MessageType("ibc.core.client.v1.MsgSubmitMisbehaviour", <<
  Str(1, "client_id"), Nested(2, "misbehaviour", "google.protobuf.Any"),
  Str(3, "signer")>>)
MsgSubmitMisbehaviourResponse == MessageType("ibc.core.client.v1.MsgSubmitMisbehaviourResponse", <<>>)

\* ibc/core/commitment/v1/commitment.ts
MerkleRoot == MessageType("ibc.core.commitment.v1.MerkleRoot", <<
  Bytes(1, "hash")>>)
MerklePrefix == MessageType("ibc.core.commitment.v1.MerklePrefix", <<
  Bytes(1, "key_prefix")>>)
MerklePath == MessageType("ibc.core.commitment.v1.MerklePath", <<
  Repeated(Str(1, "key_path"))>>)
MerkleProof == MessageType("ibc.core.commitment.v1.MerkleProof", <<
  Repeated(Nested(1, "proofs", "ics23.CommitmentProof"))>>)

\* ibc/core/connection/v1/connection.ts
ConnectionEnd == MessageType("ibc.core.connection.v1.ConnectionEnd", <<
  Str(1, "client_id"),
  Repeated(Nested(2, "versions", "ibc.core.connection.v1.Version")),
  Enum(3, "state"),
  Nested(4, "counterparty", "ibc.core.connection.v1.Counterparty"),
  Uint64(5, "delay_period")>>)
IdentifiedConnection == MessageType("ibc.core.connection.v1.IdentifiedConnection", <<
  Str(1, "id"), Str(2, "client_id"),
  Repeated(Nested(3, "versions", "ibc.core.connection.v1.Version")),
  Enum(4, "state"),
  Nested(5, "counterparty", "ibc.core.connection.v1.Counterparty"),
  Uint64(6, "delay_period")>>)
ConnectionCounterparty == MessageType("ibc.core.connection.v1.Counterparty", <<
  Str(1, "client_id"), Str(2, "connection_id"),
  Nested(3, "prefix", "ibc.core.commitment.v1.MerklePrefix")>>)
ClientPaths == MessageType("ibc.core.connection.v1.ClientPaths", <<
  Repeated(Str(1, "paths"))>>)
ConnectionPaths == MessageType("ibc.core.connection.v1.ConnectionPaths", <<
  Str(1, "client_id"), Repeated(Str(2, "paths"))>>)
Version == MessageType("ibc.core.connection.v1.Version", <<
  Str(1, "identifier"), Repeated(Str(2, "features"))>>)
ConnectionParams == MessageType("ibc.core.connection.v1.Params", <<
  Uint64(1, "max_expected_time_per_block")>>)

\* ibc/core/connection/v1/genesis.ts
ConnectionGenesisState == MessageType("ibc.core.connection.v1.GenesisState", <<
  Repeated(Nested(1, "connections", "ibc.core.connection.v1.IdentifiedConnection")),
  Repeated(Nested(2, "client_connection_paths", "ibc.core.connection.v1.ConnectionPaths")),
  Uint64(3, "next_connection_sequence"),
  Nested(4, "params", "ibc.core.connection.v1.Params")>>)

\* ibc/core/connection/v1/query.ts
QueryConnectionRequest == MessageType("ibc.core.connection.v1.QueryConnectionRequest", <<
  Str(1, "connection_id")>>)
QueryConnectionResponse == MessageType("ibc.core.connection.v1.QueryConnectionResponse", <<
  Nested(1, "connection", "ibc.core.connection.v1.ConnectionEnd"),
  Bytes(2, "proof"), Nested(3, "proof_height", "ibc.core.client.v1.Height")>>)
QueryConnectionsRequest == MessageType("ibc.core.connection.v1.QueryConnectionsRequest", <<
  Nested(1, "pagination", "cosmos.base.query.v1beta1.PageRequest")>>)
QueryConnectionsResponse == MessageType("ibc.core.connection.v1.QueryConnectionsResponse", <<
  Repeated(Nested(1, "connections", "ibc.core.connection.v1.IdentifiedConnection")),
  Nested(2, "pagination", "cosmos.base.query.v1beta1.PageResponse"),
  Nested(3, "height", "ibc.core.client.v1.Height")>>)
QueryClientConnectionsRequest == MessageType("ibc.core.connection.v1.QueryClientConnectionsRequest", <<
  Str(1, "client_id")>>)
QueryClientConnectionsResponse == MessageType("ibc.core.connection.v1.QueryClientConnectionsResponse", <<
  Repeated(Str(1, "connection_paths")), Bytes(2, "proof"),
  Nested(3, "proof_height", "ibc.core.client.v1.Height")>>)
QueryConnectionClientStateRequest == MessageType("ibc.core.connection.v1.QueryConnectionClientStateRequest", <<
  Str(1, "connection_id")>>)
QueryConnectionClientStateResponse == MessageType("ibc.core.connection.v1.QueryConnectionClientStateResponse", <<
  Nested(1, "identified_client_state", "ibc.core.client.v1.IdentifiedClientState"),
  Bytes(2, "proof"), Nested(3, "proof_height", "ibc.core.client.v1.Height")>>)
QueryConnectionConsensusStateRequest == MessageType("ibc.core.connection.v1.QueryConnectionConsensusStateRequest", <<
  Str(1, "connection_id"), Uint64(2, "revision_number"),
  Uint64(3, "revision_height")>>)
QueryConnectionConsensusStateResponse == MessageType("ibc.core.connection.v1.QueryConnectionConsensusStateResponse", <<
  Nested(1, "consensus_state", "google.protobuf.Any"), Str(2, "client_id"),
  Bytes(3, "proof"), Nested(4, "proof_height", "ibc.core.client.v1.Height")>>)

\* ibc/core/connection/v1/tx.ts
MsgConnectionOpenInit == MessageType("ibc.core.connection.v1.MsgConnectionOpenInit", <<
  Str(1, "client_id"),
  Nested(2, "counterparty", "ibc.core.connection.v1.Counterparty"),
  Nested(3, "version", "ibc.core.connection.v1.Version"),
  Uint64(4, "delay_period"), Str(5, "signer")>>)
MsgConnectionOpenInitResponse == MessageType("ibc.core.connection.v1.MsgConnectionOpenInitResponse", <<>>)
MsgConnectionOpenTry == MessageType("ibc.core.connection.v1.MsgConnectionOpenTry", <<
  Str(1, "client_id"), Str(2, "previous_connection_id"),
  Nested(3, "client_state", "google.protobuf.Any"),
  Nested(4, "counterparty", "ibc.core.connection.v1.Counterparty"),
  Uint64(5, "delay_period"),
  Repeated(Nested(6, "counterparty_versions", "ibc.core.connection.v1.Version")),
  Nested(7, "proof_height", "ibc.core.client.v1.Height"),
  Bytes(8, "proof_init"), Bytes(9, "proof_client"),
  Bytes(10, "proof_consensus"),
  Nested(11, "consensus_height", "ibc.core.client.v1.Height"),
  Str(12, "signer")>>)
MsgConnectionOpenTryResponse == MessageType("ibc.core.connection.v1.MsgConnectionOpenTryResponse", <<>>)
MsgConnectionOpenAck == MessageType("ibc.core.connection.v1.MsgConnectionOpenAck", <<
  Str(1, "connection_id"), Str(2, "counterparty_connection_id"),
  Nested(3, "version", "ibc.core.connection.v1.Version"),
  Nested(4, "client_state", "google.protobuf.Any"),
  Nested(5, "proof_height", "ibc.core.client.v1.Height"),
  Bytes(6, "proof_try"), Bytes(7, "proof_client"), Bytes(8, "proof_consensus"),
  Nested(9, "consensus_height", "ibc.core.client.v1.Height"),
  Str(10, "signer")>>)
MsgConnectionOpenAckResponse == MessageType("ibc.core.connection.v1.MsgConnectionOpenAckResponse", <<>>)
MsgConnectionOpenConfirm == MessageType("ibc.core.connection.v1.MsgConnectionOpenConfirm", <<
  Str(1, "connection_id"), Bytes(2, "proof_ack"),
  Nested(3, "proof_height", "ibc.core.client.v1.Height"), Str(4, "signer")>>)
MsgConnectionOpenConfirmResponse == MessageType("ibc.core.connection.v1.MsgConnectionOpenConfirmResponse", <<>>)

\* ibc/core/types/v1/genesis.ts
TypesGenesisState == MessageType("ibc.core.types.v1.GenesisState", <<
  Nested(1, "client_genesis", "ibc.core.client.v1.GenesisState"),
  Nested(2, "connection_genesis", "ibc.core.connection.v1.GenesisState"),
  Nested(3, "channel_genesis", "ibc.core.channel.v1.GenesisState")>>)

\* ibc/lightclients/localhost/v1/localhost.ts
ClientState == MessageType("ibc.lightclients.localhost.v1.ClientState", <<
  Str(1, "chain_id"), Nested(2, "height", "ibc.core.client.v1.Height")>>)

\* ibc/lightclients/solomachine/v1/solomachine.ts
SolomachineClientState == MessageType("ibc.lightclients.solomachine.v1.ClientState", <<
  Uint64(1, "sequence"), Uint64(2, "frozen_sequence"),
  Nested(3, "consensus_state", "ibc.lightclients.solomachine.v1.ConsensusState"),
  Bool(4, "allow_update_after_proposal")>>)
ConsensusState == MessageType("ibc.lightclients.solomachine.v1.ConsensusState", <<
  Nested(1, "public_key", "google.protobuf.Any"), Str(2, "diversifier"),
  Uint64(3, "timestamp")>>)
Header == MessageType("ibc.lightclients.solomachine.v1.Header", <<
  Uint64(1, "sequence"), Uint64(2, "timestamp"), Bytes(3, "signature"),
  Nested(4, "new_public_key", "google.protobuf.Any"),
  Str(5, "new_diversifier")>>)
Misbehaviour == MessageType("ibc.lightclients.solomachine.v1.Misbehaviour", <<
  Str(1, "client_id"), Uint64(2, "sequence"),
  Nested(3, "signature_one", "ibc.lightclients.solomachine.v1.SignatureAndData"),
  Nested(4, "signature_two", "ibc.lightclients.solomachine.v1.SignatureAndData")>>)
SignatureAndData == MessageType("ibc.lightclients.solomachine.v1.SignatureAndData", <<
  Bytes(1, "signature"), Enum(2, "data_type"), Bytes(3, "data"),
  Uint64(4, "timestamp")>>)
TimestampedSignatureData == MessageType("ibc.lightclients.solomachine.v1.TimestampedSignatureData", <<
  Bytes(1, "signature_data"), Uint64(2, "timestamp")>>)
SignBytes == MessageType("ibc.lightclients.solomachine.v1.SignBytes", <<
  Uint64(1, "sequence"), Uint64(2, "timestamp"), Str(3, "diversifier"),
  Enum(4, "data_type"), Bytes(5, "data")>>)
HeaderData == MessageType("ibc.lightclients.solomachine.v1.HeaderData", <<
  Nested(1, "new_pub_key", "google.protobuf.Any"), Str(2, "new_diversifier")>>)
ClientStateData == MessageType("ibc.lightclients.solomachine.v1.ClientStateData", <<
  Bytes(1, "path"), Nested(2, "client_state", "google.protobuf.Any")>>)
ConsensusStateData == MessageType("ibc.lightclients.solomachine.v1.ConsensusStateData", <<
  Bytes(1, "path"), Nested(2, "consensus_state", "google.protobuf.Any")>>)
ConnectionStateData == MessageType("ibc.lightclients.solomachine.v1.ConnectionStateData", <<
  Bytes(1, "path"),
  Nested(2, "connection", "ibc.core.connection.v1.ConnectionEnd")>>)
ChannelStateData == MessageType("ibc.lightclients.solomachine.v1.ChannelStateData", <<
  Bytes(1, "path"), Nested(2, "channel", "ibc.core.channel.v1.Channel")>>)
PacketCommitmentData == MessageType("ibc.lightclients.solomachine.v1.PacketCommitmentData", <<
  Bytes(1, "path"), Bytes(2, "commitment")>>)
PacketAcknowledgementData == MessageType("ibc.lightclients.solomachine.v1.PacketAcknowledgementData", <<
  Bytes(1, "path"), Bytes(2, "acknowledgement")>>)
PacketReceiptAbsenceData == MessageType("ibc.lightclients.solomachine.v1.PacketReceiptAbsenceData", <<
  Bytes(1, "path")>>)
NextSequenceRecvData == MessageType("ibc.lightclients.solomachine.v1.NextSequenceRecvData", <<
  Bytes(1, "path"), Uint64(2, "next_seq_recv")>>)

\* ibc/lightclients/solomachine/v2/solomachine.ts
ClientStateV2 == MessageType("ibc.lightclients.solomachine.v2.ClientState", <<
  Uint64(1, "sequence"), Bool(2, "is_frozen"),
  Nested(3, "consensus_state", "ibc.lightclients.solomachine.v2.ConsensusState"),
  Bool(4, "allow_update_after_proposal")>>)
ConsensusStateV2 == MessageType("ibc.lightclients.solomachine.v2.ConsensusState", <<
  Nested(1, "public_key", "google.protobuf.Any"), Str(2, "diversifier"),
  Uint64(3, "timestamp")>>)
HeaderV2 == MessageType("ibc.lightclients.solomachine.v2.Header", <<
  Uint64(1, "sequence"), Uint64(2, "timestamp"), Bytes(3, "signature"),
  Nested(4, "new_public_key", "google.protobuf.Any"),
  Str(5, "new_diversifier")>>)
MisbehaviourV2 == MessageType("ibc.lightclients.solomachine.v2.Misbehaviour", <<
  Str(1, "client_id"), Uint64(2, "sequence"),
  Nested(3, "signature_one", "ibc.lightclients.solomachine.v2.SignatureAndData"),
  Nested(4, "signature_two", "ibc.lightclients.solomachine.v2.SignatureAndData")>>)
SignatureAndDataV2 == MessageType("ibc.lightclients.solomachine.v2.SignatureAndData", <<
  Bytes(1, "signature"), Enum(2, "data_type"), Bytes(3, "data"),
  Uint64(4, "timestamp")>>)
TimestampedSignatureDataV2 == MessageType("ibc.lightclients.solomachine.v2.TimestampedSignatureData", <<
  Bytes(1, "signature_data"), Uint64(2, "timestamp")>>)
SignBytesV2 == MessageType("ibc.lightclients.solomachine.v2.SignBytes", <<
  Uint64(1, "sequence"), Uint64(2, "timestamp"), Str(3, "diversifier"),
  Enum(4, "data_type"), Bytes(5, "data")>>)
HeaderDataV2 == MessageType("ibc.lightclients.solomachine.v2.HeaderData", <<
  Nested(1, "new_pub_key", "google.protobuf.Any"), Str(2, "new_diversifier")>>)
ClientStateDataV2 == MessageType("ibc.lightclients.solomachine.v2.ClientStateData", <<
  Bytes(1, "path"), Nested(2, "client_state", "google.protobuf.Any")>>)
ConsensusStateDataV2 == MessageType("ibc.lightclients.solomachine.v2.ConsensusStateData", <<
  Bytes(1, "path"), Nested(2, "consensus_state", "google.protobuf.Any")>>)
ConnectionStateDataV2 == MessageType("ibc.lightclients.solomachine.v2.ConnectionStateData", <<
  Bytes(1, "path"),
  Nested(2, "connection", "ibc.core.connection.v1.ConnectionEnd")>>)
ChannelStateDataV2 == MessageType("ibc.lightclients.solomachine.v2.ChannelStateData", <<
  Bytes(1, "path"), Nested(2, "channel", "ibc.core.channel.v1.Channel")>>)
PacketCommitmentDataV2 == MessageType("ibc.lightclients.solomachine.v2.PacketCommitmentData", <<
  Bytes(1, "path"), Bytes(2, "commitment")>>)
PacketAcknowledgementDataV2 == MessageType("ibc.lightclients.solomachine.v2.PacketAcknowledgementData", <<
  Bytes(1, "path"), Bytes(2, "acknowledgement")>>)
PacketReceiptAbsenceDataV2 == MessageType("ibc.lightclients.solomachine.v2.PacketReceiptAbsenceData", <<
  Bytes(1, "path")>>)
NextSequenceRecvDataV2 == MessageType("ibc.lightclients.solomachine.v2.NextSequenceRecvData", <<
  Bytes(1, "path"), Uint64(2, "next_seq_recv")>>)

\* ibc/lightclients/tendermint/v1/tendermint.ts
TendermintClientState == MessageType("ibc.lightclients.tendermint.v1.ClientState", <<
  Str(1, "chain_id"),
  Nested(2, "trust_level", "ibc.lightclients.tendermint.v1.Fraction"),
  Nested(3, "trusting_period", "google.protobuf.Duration"),
  Nested(4, "unbonding_period", "google.protobuf.Duration"),
  Nested(5, "max_clock_drift", "google.protobuf.Duration"),
  Nested(6, "frozen_height", "ibc.core.client.v1.Height"),
  Nested(7, "latest_height", "ibc.core.client.v1.Height"),
  Repeated(Nested(8, "proof_specs", "ics23.ProofSpec")),
  Repeated(Str(9, "upgrade_path")), Bool(10, "allow_update_after_expiry"),
  Bool(11, "allow_update_after_misbehaviour")>>)
TendermintConsensusState == MessageType("ibc.lightclients.tendermint.v1.ConsensusState", <<
  Nested(1, "timestamp", "google.protobuf.Timestamp"),
  Nested(2, "root", "ibc.core.commitment.v1.MerkleRoot"),
  Bytes(3, "next_validators_hash")>>)
TendermintMisbehaviour == MessageType("ibc.lightclients.tendermint.v1.Misbehaviour", <<
  Str(1, "client_id"),
  Nested(2, "header_1", "ibc.lightclients.tendermint.v1.Header"),
  Nested(3, "header_2", "ibc.lightclients.tendermint.v1.Header")>>)
TendermintHeader == MessageType("ibc.lightclients.tendermint.v1.Header", <<
  Nested(1, "signed_header", "tendermint.types.SignedHeader"),
  Nested(2, "validator_set", "tendermint.types.ValidatorSet"),
  Nested(3, "trusted_height", "ibc.core.client.v1.Height"),
  Nested(4, "trusted_validators", "tendermint.types.ValidatorSet")>>)
Fraction == MessageType("ibc.lightclients.tendermint.v1.Fraction", <<
  Uint64(1, "numerator"), Uint64(2, "denominator")>>)

\* proofs.ts
ExistenceProof == MessageType("ics23.ExistenceProof", <<
  Bytes(1, "key"), Bytes(2, "value"), Nested(3, "leaf", "ics23.LeafOp"),
  Repeated(Nested(4, "path", "ics23.InnerOp"))>>)
NonExistenceProof == MessageType("ics23.NonExistenceProof", <<
  Bytes(1, "key"), Nested(2, "left", "ics23.ExistenceProof"),
  Nested(3, "right", "ics23.ExistenceProof")>>)
CommitmentProof == MessageType("ics23.CommitmentProof", <<
  OneOf("proof", Nested(1, "exist", "ics23.ExistenceProof")),
  OneOf("proof", Nested(2, "nonexist", "ics23.NonExistenceProof")),
  OneOf("proof", Nested(3, "batch", "ics23.BatchProof")),
  OneOf("proof", Nested(4, "compressed", "ics23.CompressedBatchProof"))>>)
LeafOp == MessageType("ics23.LeafOp", <<
  Enum(1, "hash"), Enum(2, "prehash_key"), Enum(3, "prehash_value"),
  Enum(4, "length"), Bytes(5, "prefix")>>)
InnerOp == MessageType("ics23.InnerOp", <<
  Enum(1, "hash"), Bytes(2, "prefix"), Bytes(3, "suffix")>>)
ProofSpec == MessageType("ics23.ProofSpec", <<
  Nested(1, "leaf_spec", "ics23.LeafOp"),
  Nested(2, "inner_spec", "ics23.InnerSpec"), Int32(3, "max_depth"),
  Int32(4, "min_depth")>>)
InnerSpec == MessageType("ics23.InnerSpec", <<
  Packed(Int32(1, "child_order")), Int32(2, "child_size"),
  Int32(3, "min_prefix_length"), Int32(4, "max_prefix_length"),
  Bytes(5, "empty_child"), Enum(6, "hash")>>)
BatchProof == MessageType("ics23.BatchProof", <<
  Repeated(Nested(1, "entries", "ics23.BatchEntry"))>>)
BatchEntry == MessageType("ics23.BatchEntry", <<
  OneOf("proof", Nested(1, "exist", "ics23.ExistenceProof")),
  OneOf("proof", Nested(2, "nonexist", "ics23.NonExistenceProof"))>>)
CompressedBatchProof == MessageType("ics23.CompressedBatchProof", <<
  Repeated(Nested(1, "entries", "ics23.CompressedBatchEntry")),
  Repeated(Nested(2, "lookup_inners", "ics23.InnerOp"))>>)
CompressedBatchEntry == MessageType("ics23.CompressedBatchEntry", <<
  OneOf("proof", Nested(1, "exist", "ics23.CompressedExistenceProof")),
  OneOf("proof", Nested(2, "nonexist", "ics23.CompressedNonExistenceProof"))>>)
CompressedExistenceProof == MessageType("ics23.CompressedExistenceProof", <<
  Bytes(1, "key"), Bytes(2, "value"), Nested(3, "leaf", "ics23.LeafOp"),
  Packed(Int32(4, "path"))>>)
CompressedNonExistenceProof == MessageType("ics23.CompressedNonExistenceProof", <<
  Bytes(1, "key"), Nested(2, "left", "ics23.CompressedExistenceProof"),
  Nested(3, "right", "ics23.CompressedExistenceProof")>>)

Types == {
   Params, QueryParamsRequest, QueryParamsResponse, HostParams,
   HostQueryParamsRequest, HostQueryParamsResponse, InterchainAccount,
   GenesisState, ControllerGenesisState, HostGenesisState, ActiveChannel,
   RegisteredInterchainAccount, Metadata, InterchainAccountPacketData,
   CosmosTx, TransferGenesisState, QueryDenomTraceRequest,
   QueryDenomTraceResponse, QueryDenomTracesRequest,
   QueryDenomTracesResponse, TransferQueryParamsRequest,
   TransferQueryParamsResponse, QueryDenomHashRequest,
   QueryDenomHashResponse, DenomTrace, TransferParams, MsgTransfer,
   MsgTransferResponse, FungibleTokenPacketData, Channel,
   IdentifiedChannel, Counterparty, Packet, PacketState, Acknowledgement,
   ChannelGenesisState, PacketSequence, QueryChannelRequest,
   QueryChannelResponse, QueryChannelsRequest, QueryChannelsResponse,
   QueryConnectionChannelsRequest, QueryConnectionChannelsResponse,
   QueryChannelClientStateRequest, QueryChannelClientStateResponse,
   QueryChannelConsensusStateRequest, QueryChannelConsensusStateResponse,
   QueryPacketCommitmentRequest, QueryPacketCommitmentResponse,
   QueryPacketCommitmentsRequest, QueryPacketCommitmentsResponse,
   QueryPacketReceiptRequest, QueryPacketReceiptResponse,
   QueryPacketAcknowledgementRequest, QueryPacketAcknowledgementResponse,
   QueryPacketAcknowledgementsRequest,
   QueryPacketAcknowledgementsResponse, QueryUnreceivedPacketsRequest,
   QueryUnreceivedPacketsResponse, QueryUnreceivedAcksRequest,
   QueryUnreceivedAcksResponse, QueryNextSequenceReceiveRequest,
   QueryNextSequenceReceiveResponse, MsgChannelOpenInit,
   MsgChannelOpenInitResponse, MsgChannelOpenTry,
   MsgChannelOpenTryResponse, MsgChannelOpenAck,
   MsgChannelOpenAckResponse, MsgChannelOpenConfirm,
   MsgChannelOpenConfirmResponse, MsgChannelCloseInit,
   MsgChannelCloseInitResponse, MsgChannelCloseConfirm,
   MsgChannelCloseConfirmResponse, MsgRecvPacket, MsgRecvPacketResponse,
   MsgTimeout, MsgTimeoutResponse, MsgTimeoutOnClose,
   MsgTimeoutOnCloseResponse, MsgAcknowledgement,
   MsgAcknowledgementResponse, IdentifiedClientState,
   ConsensusStateWithHeight, ClientConsensusStates, ClientUpdateProposal,
   UpgradeProposal, Height, ClientParams, ClientGenesisState,
   GenesisMetadata, IdentifiedGenesisMetadata, QueryClientStateRequest,
   QueryClientStateResponse, QueryClientStatesRequest,
   QueryClientStatesResponse, QueryConsensusStateRequest,
   QueryConsensusStateResponse, QueryConsensusStatesRequest,
   QueryConsensusStatesResponse, QueryClientStatusRequest,
   QueryClientStatusResponse, QueryClientParamsRequest,
   QueryClientParamsResponse, QueryUpgradedClientStateRequest,
   QueryUpgradedClientStateResponse, QueryUpgradedConsensusStateRequest,
   QueryUpgradedConsensusStateResponse, MsgCreateClient,
   MsgCreateClientResponse, MsgUpdateClient, MsgUpdateClientResponse,
   MsgUpgradeClient, MsgUpgradeClientResponse, MsgSubmitMisbehaviour,
   MsgSubmitMisbehaviourResponse, MerkleRoot, MerklePrefix, MerklePath,
   MerkleProof, ConnectionEnd, IdentifiedConnection,
   ConnectionCounterparty, ClientPaths, ConnectionPaths, Version,
   ConnectionParams, ConnectionGenesisState, QueryConnectionRequest,
   QueryConnectionResponse, QueryConnectionsRequest,
   QueryConnectionsResponse, QueryClientConnectionsRequest,
   QueryClientConnectionsResponse, QueryConnectionClientStateRequest,
   QueryConnectionClientStateResponse,
   QueryConnectionConsensusStateRequest,
   QueryConnectionConsensusStateResponse, MsgConnectionOpenInit,
   MsgConnectionOpenInitResponse, MsgConnectionOpenTry,
   MsgConnectionOpenTryResponse, MsgConnectionOpenAck,
   MsgConnectionOpenAckResponse, MsgConnectionOpenConfirm,
   MsgConnectionOpenConfirmResponse, TypesGenesisState, ClientState,
   SolomachineClientState, ConsensusState, Header, Misbehaviour,
   SignatureAndData, TimestampedSignatureData, SignBytes, HeaderData,
   ClientStateData, ConsensusStateData, ConnectionStateData,
   ChannelStateData, PacketCommitmentData, PacketAcknowledgementData,
   PacketReceiptAbsenceData, NextSequenceRecvData, ClientStateV2,
   ConsensusStateV2, HeaderV2, MisbehaviourV2, SignatureAndDataV2,
   TimestampedSignatureDataV2, SignBytesV2, HeaderDataV2,
   ClientStateDataV2, ConsensusStateDataV2, ConnectionStateDataV2,
   ChannelStateDataV2, PacketCommitmentDataV2,
   PacketAcknowledgementDataV2, PacketReceiptAbsenceDataV2,
   NextSequenceRecvDataV2, TendermintClientState,
   TendermintConsensusState, TendermintMisbehaviour, TendermintHeader,
   Fraction, ExistenceProof, NonExistenceProof, CommitmentProof, LeafOp,
   InnerOp, ProofSpec, InnerSpec, BatchProof, BatchEntry,
   CompressedBatchProof, CompressedBatchEntry, CompressedExistenceProof,
   CompressedNonExistenceProof}
=============================================================================
