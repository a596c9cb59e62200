---------------------------- MODULE DescriptorMessages ----------------------------
(***************************************************************************)
(* The messages and enumerations of google/protobuf/descriptor.proto, as   *)
(* web/src/generated/google/protobuf/descriptor.ts knows them.  Every      *)
(* message type of that file is an object with encode, decode, fromJSON,   *)
(* toJSON and fromPartial, written out field by field; all of them follow  *)
(* one scheme, so a message is modelled by the table that instantiates it: *)
(* the fields in the order of `encode`, each with its number, its kind,    *)
(* its label and the default of createBase.  The scheme itself is module   *)
(* ProtoCodec.                                                             *)
(***************************************************************************)
EXTENDS ProtoFields

(* Enumerations: the names and numbers of the enum and of the two          *)
(* functions xFromJSON and xToJSON.  UNRECOGNIZED (-1) belongs to all.     *)

Edition == [
  EDITION_UNKNOWN |-> 0, EDITION_LEGACY |-> 900, EDITION_PROTO2 |-> 998, EDITION_PROTO3 |-> 999,
  EDITION_2023 |-> 1000, EDITION_2024 |-> 1001, EDITION_1_TEST_ONLY |-> 1,
  EDITION_2_TEST_ONLY |-> 2, EDITION_99997_TEST_ONLY |-> 99997,
  EDITION_99998_TEST_ONLY |-> 99998, EDITION_99999_TEST_ONLY |-> 99999,
  EDITION_MAX |-> 2147483647 ]
ExtensionRangeOptions_VerificationState == [ DECLARATION |-> 0, UNVERIFIED |-> 1 ]
FieldDescriptorProto_Type == [
  TYPE_DOUBLE |-> 1, TYPE_FLOAT |-> 2, TYPE_INT64 |-> 3, TYPE_UINT64 |-> 4, TYPE_INT32 |-> 5,
  TYPE_FIXED64 |-> 6, TYPE_FIXED32 |-> 7, TYPE_BOOL |-> 8, TYPE_STRING |-> 9, TYPE_GROUP |-> 10,
  TYPE_MESSAGE |-> 11, TYPE_BYTES |-> 12, TYPE_UINT32 |-> 13, TYPE_ENUM |-> 14,
  TYPE_SFIXED32 |-> 15, TYPE_SFIXED64 |-> 16, TYPE_SINT32 |-> 17, TYPE_SINT64 |-> 18 ]
FieldDescriptorProto_Label == [
  LABEL_OPTIONAL |-> 1, LABEL_REPEATED |-> 3, LABEL_REQUIRED |-> 2 ]
FileOptions_OptimizeMode == [ SPEED |-> 1, CODE_SIZE |-> 2, LITE_RUNTIME |-> 3 ]
FieldOptions_CType == [ STRING |-> 0, CORD |-> 1, STRING_PIECE |-> 2 ]
FieldOptions_JSType == [ JS_NORMAL |-> 0, JS_STRING |-> 1, JS_NUMBER |-> 2 ]
FieldOptions_OptionRetention == [
  RETENTION_UNKNOWN |-> 0, RETENTION_RUNTIME |-> 1, RETENTION_SOURCE |-> 2 ]
FieldOptions_OptionTargetType == [
  TARGET_TYPE_UNKNOWN |-> 0, TARGET_TYPE_FILE |-> 1, TARGET_TYPE_EXTENSION_RANGE |-> 2,
  TARGET_TYPE_MESSAGE |-> 3, TARGET_TYPE_FIELD |-> 4, TARGET_TYPE_ONEOF |-> 5,
  TARGET_TYPE_ENUM |-> 6, TARGET_TYPE_ENUM_ENTRY |-> 7, TARGET_TYPE_SERVICE |-> 8,
  TARGET_TYPE_METHOD |-> 9 ]
MethodOptions_IdempotencyLevel == [
  IDEMPOTENCY_UNKNOWN |-> 0, NO_SIDE_EFFECTS |-> 1, IDEMPOTENT |-> 2 ]
FeatureSet_FieldPresence == [
  FIELD_PRESENCE_UNKNOWN |-> 0, EXPLICIT |-> 1, IMPLICIT |-> 2, LEGACY_REQUIRED |-> 3 ]
FeatureSet_EnumType == [ ENUM_TYPE_UNKNOWN |-> 0, OPEN |-> 1, CLOSED |-> 2 ]
FeatureSet_RepeatedFieldEncoding == [
  REPEATED_FIELD_ENCODING_UNKNOWN |-> 0, PACKED |-> 1, EXPANDED |-> 2 ]
FeatureSet_Utf8Validation == [ UTF8_VALIDATION_UNKNOWN |-> 0, VERIFY |-> 2, NONE |-> 3 ]
FeatureSet_MessageEncoding == [
  MESSAGE_ENCODING_UNKNOWN |-> 0, LENGTH_PREFIXED |-> 1, DELIMITED |-> 2 ]
FeatureSet_JsonFormat == [ JSON_FORMAT_UNKNOWN |-> 0, ALLOW |-> 1, LEGACY_BEST_EFFORT |-> 2 ]
FeatureSet_EnforceNamingStyle == [
  ENFORCE_NAMING_STYLE_UNKNOWN |-> 0, STYLE2024 |-> 1, STYLE_LEGACY |-> 2 ]
GeneratedCodeInfo_Annotation_Semantic == [ NONE |-> 0, SET |-> 1, ALIAS |-> 2 ]

DescriptorEnums == [
  Edition |-> Edition,
  ExtensionRangeOptions_VerificationState |-> ExtensionRangeOptions_VerificationState,
  FieldDescriptorProto_Type |-> FieldDescriptorProto_Type,
  FieldDescriptorProto_Label |-> FieldDescriptorProto_Label,
  FileOptions_OptimizeMode |-> FileOptions_OptimizeMode,
  FieldOptions_CType |-> FieldOptions_CType, FieldOptions_JSType |-> FieldOptions_JSType,
  FieldOptions_OptionRetention |-> FieldOptions_OptionRetention,
  FieldOptions_OptionTargetType |-> FieldOptions_OptionTargetType,
  MethodOptions_IdempotencyLevel |-> MethodOptions_IdempotencyLevel,
  FeatureSet_FieldPresence |-> FeatureSet_FieldPresence,
  FeatureSet_EnumType |-> FeatureSet_EnumType,
  FeatureSet_RepeatedFieldEncoding |-> FeatureSet_RepeatedFieldEncoding,
  FeatureSet_Utf8Validation |-> FeatureSet_Utf8Validation,
  FeatureSet_MessageEncoding |-> FeatureSet_MessageEncoding,
  FeatureSet_JsonFormat |-> FeatureSet_JsonFormat,
  FeatureSet_EnforceNamingStyle |-> FeatureSet_EnforceNamingStyle,
  GeneratedCodeInfo_Annotation_Semantic |-> GeneratedCodeInfo_Annotation_Semantic ]

-----------------------------------------------------------------------------
(* Messages.                                                               *)

FileDescriptorSet == << Repeated(1, "file", "FileDescriptorProto") >>
FileDescriptorProto == <<
  Text(1, "name"), Text(2, "package"), Repeated(3, "dependency", "string"),
  Numbers(10, "publicDependency", "int32"), Numbers(11, "weakDependency", "int32"),
  Repeated(4, "messageType", "DescriptorProto"), Repeated(5, "enumType", "EnumDescriptorProto"),
  Repeated(6, "service", "ServiceDescriptorProto"),
  Repeated(7, "extension", "FieldDescriptorProto"), Message(8, "options", "FileOptions"),
  Message(9, "sourceCodeInfo", "SourceCodeInfo"), Text(12, "syntax"),
  Choice(14, "edition", "Edition", 0) >>
DescriptorProto == <<
  Text(1, "name"), Repeated(2, "field", "FieldDescriptorProto"),
  Repeated(6, "extension", "FieldDescriptorProto"),
  Repeated(3, "nestedType", "DescriptorProto"), Repeated(4, "enumType", "EnumDescriptorProto"),
  Repeated(5, "extensionRange", "DescriptorProto_ExtensionRange"),
  Repeated(8, "oneofDecl", "OneofDescriptorProto"), Message(7, "options", "MessageOptions"),
  Repeated(9, "reservedRange", "DescriptorProto_ReservedRange"),
  Repeated(10, "reservedName", "string") >>
DescriptorProto_ExtensionRange == <<
  Number(1, "start"), Number(2, "end"), Message(3, "options", "ExtensionRangeOptions") >>
DescriptorProto_ReservedRange == << Number(1, "start"), Number(2, "end") >>
ExtensionRangeOptions == <<
  Repeated(999, "uninterpretedOption", "UninterpretedOption"),
  Repeated(2, "declaration", "ExtensionRangeOptions_Declaration"),
  Message(50, "features", "FeatureSet"),
  Choice(3, "verification", "ExtensionRangeOptions_VerificationState", 1) >>
ExtensionRangeOptions_Declaration == <<
  Number(1, "number"), Text(2, "fullName"), Text(3, "type"), Flag(5, "reserved"),
  Flag(6, "repeated") >>
FieldDescriptorProto == <<
  Text(1, "name"), Number(3, "number"), Choice(4, "label", "FieldDescriptorProto_Label", 1),
  Choice(5, "type", "FieldDescriptorProto_Type", 1), Text(6, "typeName"), Text(2, "extendee"),
  Text(7, "defaultValue"), Number(9, "oneofIndex"), Text(10, "jsonName"),
  Message(8, "options", "FieldOptions"), Flag(17, "proto3Optional") >>
OneofDescriptorProto == << Text(1, "name"), Message(2, "options", "OneofOptions") >>
EnumDescriptorProto == <<
  Text(1, "name"), Repeated(2, "value", "EnumValueDescriptorProto"),
  Message(3, "options", "EnumOptions"),
  Repeated(4, "reservedRange", "EnumDescriptorProto_EnumReservedRange"),
  Repeated(5, "reservedName", "string") >>
EnumDescriptorProto_EnumReservedRange == << Number(1, "start"), Number(2, "end") >>
EnumValueDescriptorProto == <<
  Text(1, "name"), Number(2, "number"), Message(3, "options", "EnumValueOptions") >>
ServiceDescriptorProto == <<
  Text(1, "name"), Repeated(2, "method", "MethodDescriptorProto"),
  Message(3, "options", "ServiceOptions") >>
MethodDescriptorProto == <<
  Text(1, "name"), Text(2, "inputType"), Text(3, "outputType"),
  Message(4, "options", "MethodOptions"), Flag(5, "clientStreaming"),
  Flag(6, "serverStreaming") >>
FileOptions == <<
  Text(1, "javaPackage"), Text(8, "javaOuterClassname"), Flag(10, "javaMultipleFiles"),
  Flag(20, "javaGenerateEqualsAndHash"), Flag(27, "javaStringCheckUtf8"),
  Choice(9, "optimizeFor", "FileOptions_OptimizeMode", 1), Text(11, "goPackage"),
  Flag(16, "ccGenericServices"), Flag(17, "javaGenericServices"), Flag(18, "pyGenericServices"),
  Flag(23, "deprecated"), Scalar(31, "ccEnableArenas", "bool", TRUE),
  Text(36, "objcClassPrefix"), Text(37, "csharpNamespace"), Text(39, "swiftPrefix"),
  Text(40, "phpClassPrefix"), Text(41, "phpNamespace"), Text(44, "phpMetadataNamespace"),
  Text(45, "rubyPackage"), Message(50, "features", "FeatureSet"),
  Repeated(999, "uninterpretedOption", "UninterpretedOption") >>
MessageOptions == <<
  Flag(1, "messageSetWireFormat"), Flag(2, "noStandardDescriptorAccessor"),
  Flag(3, "deprecated"), Flag(7, "mapEntry"), Flag(11, "deprecatedLegacyJsonFieldConflicts"),
  Message(12, "features", "FeatureSet"),
  Repeated(999, "uninterpretedOption", "UninterpretedOption") >>
FieldOptions == <<
  Choice(1, "ctype", "FieldOptions_CType", 0), Flag(2, "packed"),
  Choice(6, "jstype", "FieldOptions_JSType", 0), Flag(5, "lazy"), Flag(15, "unverifiedLazy"),
  Flag(3, "deprecated"), Flag(10, "weak"), Flag(16, "debugRedact"),
  Choice(17, "retention", "FieldOptions_OptionRetention", 0),
  Numbers(19, "targets", "FieldOptions_OptionTargetType"),
  Repeated(20, "editionDefaults", "FieldOptions_EditionDefault"),
  Message(21, "features", "FeatureSet"),
  Message(22, "featureSupport", "FieldOptions_FeatureSupport"),
  Repeated(999, "uninterpretedOption", "UninterpretedOption") >>
FieldOptions_EditionDefault == << Choice(3, "edition", "Edition", 0), Text(2, "value") >>
FieldOptions_FeatureSupport == <<
  Choice(1, "editionIntroduced", "Edition", 0), Choice(2, "editionDeprecated", "Edition", 0),
  Text(3, "deprecationWarning"), Choice(4, "editionRemoved", "Edition", 0) >>
OneofOptions == <<
  Message(1, "features", "FeatureSet"),
  Repeated(999, "uninterpretedOption", "UninterpretedOption") >>
EnumOptions == <<
  Flag(2, "allowAlias"), Flag(3, "deprecated"), Flag(6, "deprecatedLegacyJsonFieldConflicts"),
  Message(7, "features", "FeatureSet"),
  Repeated(999, "uninterpretedOption", "UninterpretedOption") >>
EnumValueOptions == <<
  Flag(1, "deprecated"), Message(2, "features", "FeatureSet"), Flag(3, "debugRedact"),
  Message(4, "featureSupport", "FieldOptions_FeatureSupport"),
  Repeated(999, "uninterpretedOption", "UninterpretedOption") >>
ServiceOptions == <<
  Message(34, "features", "FeatureSet"), Flag(33, "deprecated"),
  Repeated(999, "uninterpretedOption", "UninterpretedOption") >>
MethodOptions == <<
  Flag(33, "deprecated"), Choice(34, "idempotencyLevel", "MethodOptions_IdempotencyLevel", 0),
  Message(35, "features", "FeatureSet"),
  Repeated(999, "uninterpretedOption", "UninterpretedOption") >>
UninterpretedOption == <<
  Repeated(2, "name", "UninterpretedOption_NamePart"), Text(3, "identifierValue"),
  Scalar(4, "positiveIntValue", "uint64", 0), Scalar(5, "negativeIntValue", "int64", 0),
  Scalar(6, "doubleValue", "double", 0), Scalar(7, "stringValue", "bytes", ""),
  Text(8, "aggregateValue") >>
UninterpretedOption_NamePart == << Text3(1, "namePart"), Flag3(2, "isExtension") >>
FeatureSet == <<
  Choice(1, "fieldPresence", "FeatureSet_FieldPresence", 0),
  Choice(2, "enumType", "FeatureSet_EnumType", 0),
  Choice(3, "repeatedFieldEncoding", "FeatureSet_RepeatedFieldEncoding", 0),
  Choice(4, "utf8Validation", "FeatureSet_Utf8Validation", 0),
  Choice(5, "messageEncoding", "FeatureSet_MessageEncoding", 0),
  Choice(6, "jsonFormat", "FeatureSet_JsonFormat", 0),
  Choice(7, "enforceNamingStyle", "FeatureSet_EnforceNamingStyle", 0) >>
FeatureSetDefaults == <<
  Repeated(1, "defaults", "FeatureSetDefaults_FeatureSetEditionDefault"),
  Choice(4, "minimumEdition", "Edition", 0), Choice(5, "maximumEdition", "Edition", 0) >>
FeatureSetDefaults_FeatureSetEditionDefault == <<
  Choice(3, "edition", "Edition", 0), Message(4, "overridableFeatures", "FeatureSet"),
  Message(5, "fixedFeatures", "FeatureSet") >>
SourceCodeInfo == << Repeated(1, "location", "SourceCodeInfo_Location") >>
SourceCodeInfo_Location == <<
  Packed(1, "path"), Packed(2, "span"), Text(3, "leadingComments"), Text(4, "trailingComments"),
  Repeated(6, "leadingDetachedComments", "string") >>
GeneratedCodeInfo == << Repeated(1, "annotation", "GeneratedCodeInfo_Annotation") >>
GeneratedCodeInfo_Annotation == <<
  Packed(1, "path"), Text(2, "sourceFile"), Number(3, "begin"), Number(4, "end"),
  Choice(5, "semantic", "GeneratedCodeInfo_Annotation_Semantic", 0) >>

DescriptorTypes == [
  FileDescriptorSet |-> FileDescriptorSet, FileDescriptorProto |-> FileDescriptorProto,
  DescriptorProto |-> DescriptorProto,
  DescriptorProto_ExtensionRange |-> DescriptorProto_ExtensionRange,
  DescriptorProto_ReservedRange |-> DescriptorProto_ReservedRange,
  ExtensionRangeOptions |-> ExtensionRangeOptions,
  ExtensionRangeOptions_Declaration |-> ExtensionRangeOptions_Declaration,
  FieldDescriptorProto |-> FieldDescriptorProto, OneofDescriptorProto |-> OneofDescriptorProto,
  EnumDescriptorProto |-> EnumDescriptorProto,
  EnumDescriptorProto_EnumReservedRange |-> EnumDescriptorProto_EnumReservedRange,
  EnumValueDescriptorProto |-> EnumValueDescriptorProto,
  ServiceDescriptorProto |-> ServiceDescriptorProto,
  MethodDescriptorProto |-> MethodDescriptorProto, FileOptions |-> FileOptions,
  MessageOptions |-> MessageOptions, FieldOptions |-> FieldOptions,
  FieldOptions_EditionDefault |-> FieldOptions_EditionDefault,
  FieldOptions_FeatureSupport |-> FieldOptions_FeatureSupport, OneofOptions |-> OneofOptions,
  EnumOptions |-> EnumOptions, EnumValueOptions |-> EnumValueOptions,
  ServiceOptions |-> ServiceOptions, MethodOptions |-> MethodOptions,
  UninterpretedOption |-> UninterpretedOption,
  UninterpretedOption_NamePart |-> UninterpretedOption_NamePart, FeatureSet |-> FeatureSet,
  FeatureSetDefaults |-> FeatureSetDefaults,
  FeatureSetDefaults_FeatureSetEditionDefault |-> FeatureSetDefaults_FeatureSetEditionDefault,
  SourceCodeInfo |-> SourceCodeInfo, SourceCodeInfo_Location |-> SourceCodeInfo_Location,
  GeneratedCodeInfo |-> GeneratedCodeInfo,
  GeneratedCodeInfo_Annotation |-> GeneratedCodeInfo_Annotation ]
=============================================================================
