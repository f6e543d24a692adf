--------------------------- MODULE GoogleProtobuf ---------------------------
(****************************************************************************)
(* Schemas of google.protobuf and google.api.                               *)
(****************************************************************************)
EXTENDS ProtoSchema

\* google/api/http.ts
Http == MessageType("google.api.Http", <<
  Repeated(Nested(1, "rules", "google.api.HttpRule")),
  Bool(2, "fully_decode_reserved_expansion")>>)
HttpRule == MessageType("google.api.HttpRule", <<
  Str(1, "selector"), OneOf("pattern", Str(2, "get")),
  OneOf("pattern", Str(3, "put")), OneOf("pattern", Str(4, "post")),
  OneOf("pattern", Str(5, "delete")), OneOf("pattern", Str(6, "patch")),
  OneOf("pattern", Nested(8, "custom", "google.api.CustomHttpPattern")),
  Str(7, "body"), Str(12, "response_body"),
  Repeated(Nested(11, "additional_bindings", "google.api.HttpRule"))>>)
CustomHttpPattern == MessageType("google.api.CustomHttpPattern", <<
  Str(1, "kind"), Str(2, "path")>>)

\* google/api/httpbody.ts
HttpBody == MessageType("google.api.HttpBody", <<
  Str(1, "content_type"), Bytes(2, "data"),
  Repeated(Nested(3, "extensions", "google.protobuf.Any"))>>)

\* google/protobuf/any.ts
Any == MessageType("google.protobuf.Any", <<
  Str(1, "type_url"), Bytes(2, "value")>>)

\* google/protobuf/descriptor.ts
FileDescriptorSet == MessageType("google.protobuf.FileDescriptorSet", <<
  Repeated(Nested(1, "file", "google.protobuf.FileDescriptorProto"))>>)
FileDescriptorProto == MessageType("google.protobuf.FileDescriptorProto", <<
  Optional(Str(1, "name")), Optional(Str(2, "package")),
  Repeated(Str(3, "dependency")), Repeated(Int32(10, "public_dependency")),
  Repeated(Int32(11, "weak_dependency")),
  Repeated(Nested(4, "message_type", "google.protobuf.DescriptorProto")),
  Repeated(Nested(5, "enum_type", "google.protobuf.EnumDescriptorProto")),
  Repeated(Nested(6, "service", "google.protobuf.ServiceDescriptorProto")),
  Repeated(Nested(7, "extension", "google.protobuf.FieldDescriptorProto")),
  Nested(8, "options", "google.protobuf.FileOptions"),
  Nested(9, "source_code_info", "google.protobuf.SourceCodeInfo"),
  Optional(Str(12, "syntax"))>>)
DescriptorProto == MessageType("google.protobuf.DescriptorProto", <<
  Optional(Str(1, "name")),
  Repeated(Nested(2, "field", "google.protobuf.FieldDescriptorProto")),
  Repeated(Nested(6, "extension", "google.protobuf.FieldDescriptorProto")),
  Repeated(Nested(3, "nested_type", "google.protobuf.DescriptorProto")),
  Repeated(Nested(4, "enum_type", "google.protobuf.EnumDescriptorProto")),
  Repeated(Nested(5, "extension_range", "google.protobuf.DescriptorProto.ExtensionRange")),
  Repeated(Nested(8, "oneof_decl", "google.protobuf.OneofDescriptorProto")),
  Nested(7, "options", "google.protobuf.MessageOptions"),
  Repeated(Nested(9, "reserved_range", "google.protobuf.DescriptorProto.ReservedRange")),
  Repeated(Str(10, "reserved_name"))>>)
DescriptorProto_ExtensionRange == MessageType("google.protobuf.DescriptorProto.ExtensionRange", <<
  Optional(Int32(1, "start")), Optional(Int32(2, "end")),
  Nested(3, "options", "google.protobuf.ExtensionRangeOptions")>>)
DescriptorProto_ReservedRange == MessageType("google.protobuf.DescriptorProto.ReservedRange", <<
  Optional(Int32(1, "start")), Optional(Int32(2, "end"))>>)
ExtensionRangeOptions == MessageType("google.protobuf.ExtensionRangeOptions", <<
  Repeated(Nested(999, "uninterpreted_option", "google.protobuf.UninterpretedOption"))>>)
FieldDescriptorProto == MessageType("google.protobuf.FieldDescriptorProto", <<
  Optional(Str(1, "name")), Optional(Int32(3, "number")),
  Optional(Enum(4, "label")), Optional(Enum(5, "type")),
  Optional(Str(6, "type_name")), Optional(Str(2, "extendee")),
  Optional(Str(7, "default_value")), Optional(Int32(9, "oneof_index")),
  Optional(Str(10, "json_name")),
  Nested(8, "options", "google.protobuf.FieldOptions"),
  Optional(Bool(17, "proto3_optional"))>>)
OneofDescriptorProto == MessageType("google.protobuf.OneofDescriptorProto", <<
  Optional(Str(1, "name")),
  Nested(2, "options", "google.protobuf.OneofOptions")>>)
EnumDescriptorProto == MessageType("google.protobuf.EnumDescriptorProto", <<
  Optional(Str(1, "name")),
  Repeated(Nested(2, "value", "google.protobuf.EnumValueDescriptorProto")),
  Nested(3, "options", "google.protobuf.EnumOptions"),
  Repeated(Nested(4, "reserved_range", "google.protobuf.EnumDescriptorProto.EnumReservedRange")),
  Repeated(Str(5, "reserved_name"))>>)
EnumDescriptorProto_EnumReservedRange == MessageType("google.protobuf.EnumDescriptorProto.EnumReservedRange", <<
  Optional(Int32(1, "start")), Optional(Int32(2, "end"))>>)
EnumValueDescriptorProto == MessageType("google.protobuf.EnumValueDescriptorProto", <<
  Optional(Str(1, "name")), Optional(Int32(2, "number")),
  Nested(3, "options", "google.protobuf.EnumValueOptions")>>)
ServiceDescriptorProto == MessageType("google.protobuf.ServiceDescriptorProto", <<
  Optional(Str(1, "name")),
  Repeated(Nested(2, "method", "google.protobuf.MethodDescriptorProto")),
  Nested(3, "options", "google.protobuf.ServiceOptions")>>)
MethodDescriptorProto == MessageType("google.protobuf.MethodDescriptorProto", <<
  Optional(Str(1, "name")), Optional(Str(2, "input_type")),
  Optional(Str(3, "output_type")),
  Nested(4, "options", "google.protobuf.MethodOptions"),
  Optional(Bool(5, "client_streaming")),
  Optional(Bool(6, "server_streaming"))>>)
FileOptions == MessageType("google.protobuf.FileOptions", <<
  Optional(Str(1, "java_package")), Optional(Str(8, "java_outer_classname")),
  Optional(Bool(10, "java_multiple_files")),
  Optional(Bool(20, "java_generate_equals_and_hash")),
  Optional(Bool(27, "java_string_check_utf8")),
  Optional(Enum(9, "optimize_for")), Optional(Str(11, "go_package")),
  Optional(Bool(16, "cc_generic_services")),
  Optional(Bool(17, "java_generic_services")),
  Optional(Bool(18, "py_generic_services")),
  Optional(Bool(42, "php_generic_services")), Optional(Bool(23, "deprecated")),
  Optional(Bool(31, "cc_enable_arenas")),
  Optional(Str(36, "objc_class_prefix")),
  Optional(Str(37, "csharp_namespace")), Optional(Str(39, "swift_prefix")),
  Optional(Str(40, "php_class_prefix")), Optional(Str(41, "php_namespace")),
  Optional(Str(44, "php_metadata_namespace")),
  Optional(Str(45, "ruby_package")),
  Repeated(Nested(999, "uninterpreted_option", "google.protobuf.UninterpretedOption"))>>)
MessageOptions == MessageType("google.protobuf.MessageOptions", <<
  Optional(Bool(1, "message_set_wire_format")),
  Optional(Bool(2, "no_standard_descriptor_accessor")),
  Optional(Bool(3, "deprecated")), Optional(Bool(7, "map_entry")),
  Repeated(Nested(999, "uninterpreted_option", "google.protobuf.UninterpretedOption"))>>)
FieldOptions == MessageType("google.protobuf.FieldOptions", <<
  Optional(Enum(1, "ctype")), Optional(Bool(2, "packed")),
  Optional(Enum(6, "jstype")), Optional(Bool(5, "lazy")),
  Optional(Bool(3, "deprecated")), Optional(Bool(10, "weak")),
  Repeated(Nested(999, "uninterpreted_option", "google.protobuf.UninterpretedOption"))>>)
OneofOptions == MessageType("google.protobuf.OneofOptions", <<
  Repeated(Nested(999, "uninterpreted_option", "google.protobuf.UninterpretedOption"))>>)
EnumOptions == MessageType("google.protobuf.EnumOptions", <<
  Optional(Bool(2, "allow_alias")), Optional(Bool(3, "deprecated")),
  Repeated(Nested(999, "uninterpreted_option", "google.protobuf.UninterpretedOption"))>>)
EnumValueOptions == MessageType("google.protobuf.EnumValueOptions", <<
  Optional(Bool(1, "deprecated")),
  Repeated(Nested(999, "uninterpreted_option", "google.protobuf.UninterpretedOption"))>>)
ServiceOptions == MessageType("google.protobuf.ServiceOptions", <<
  Optional(Bool(33, "deprecated")),
  Repeated(Nested(999, "uninterpreted_option", "google.protobuf.UninterpretedOption"))>>)
MethodOptions == MessageType("google.protobuf.MethodOptions", <<
  Optional(Bool(33, "deprecated")), Optional(Enum(34, "idempotency_level")),
  Repeated(Nested(999, "uninterpreted_option", "google.protobuf.UninterpretedOption"))>>)
UninterpretedOption == MessageType("google.protobuf.UninterpretedOption", <<
  Repeated(Nested(2, "name", "google.protobuf.UninterpretedOption.NamePart")),
  Optional(Str(3, "identifier_value")),
  Optional(Uint64(4, "positive_int_value")),
  Optional(Int64(5, "negative_int_value")),
  Optional(Double(6, "double_value")), Optional(Bytes(7, "string_value")),
  Optional(Str(8, "aggregate_value"))>>)
UninterpretedOption_NamePart == MessageType("google.protobuf.UninterpretedOption.NamePart", <<
  Str(1, "name_part"), Bool(2, "is_extension")>>)
SourceCodeInfo == MessageType("google.protobuf.SourceCodeInfo", <<
  Repeated(Nested(1, "location", "google.protobuf.SourceCodeInfo.Location"))>>)
SourceCodeInfo_Location == MessageType("google.protobuf.SourceCodeInfo.Location", <<
  Packed(Int32(1, "path")), Packed(Int32(2, "span")),
  Optional(Str(3, "leading_comments")), Optional(Str(4, "trailing_comments")),
  Repeated(Str(6, "leading_detached_comments"))>>)
GeneratedCodeInfo == MessageType("google.protobuf.GeneratedCodeInfo", <<
  Repeated(Nested(1, "annotation", "google.protobuf.GeneratedCodeInfo.Annotation"))>>)
GeneratedCodeInfo_Annotation == MessageType("google.protobuf.GeneratedCodeInfo.Annotation", <<
  Packed(Int32(1, "path")), Optional(Str(2, "source_file")),
  Optional(Int32(3, "begin")), Optional(Int32(4, "end"))>>)

\* google/protobuf/duration.ts
Duration == MessageType("google.protobuf.Duration", <<
  Int64(1, "seconds"), Int32(2, "nanos")>>)

\* google/protobuf/timestamp.ts
Timestamp == MessageType("google.protobuf.Timestamp", <<
  Int64(1, "seconds"), Int32(2, "nanos")>>)

Types == {
   Http, HttpRule, CustomHttpPattern, HttpBody, Any, FileDescriptorSet,
   FileDescriptorProto, DescriptorProto, DescriptorProto_ExtensionRange,
   DescriptorProto_ReservedRange, ExtensionRangeOptions,
   FieldDescriptorProto, OneofDescriptorProto, EnumDescriptorProto,
   EnumDescriptorProto_EnumReservedRange, EnumValueDescriptorProto,
   ServiceDescriptorProto, MethodDescriptorProto, FileOptions,
   MessageOptions, FieldOptions, OneofOptions, EnumOptions,
   EnumValueOptions, ServiceOptions, MethodOptions, UninterpretedOption,
   UninterpretedOption_NamePart, SourceCodeInfo, SourceCodeInfo_Location,
   GeneratedCodeInfo, GeneratedCodeInfo_Annotation, Duration, Timestamp}
=============================================================================
