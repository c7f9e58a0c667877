CONSTANTS
  DeviceSeq <- MCDeviceSeq
  OsVersion <- MCOsVersion
  Versions <- MCVersions
  Classes = {"iPad"}
  DefaultClass = "iPhone SE"
  MaxChild = 2
  MaxSupported = 2
  MaxBooted = 1
  EnvKeys <- MCEnvKeys
SPECIFICATION Spec
INVARIANT TypeOK DeviceVersionAgreed ApiTestEnvComplete
