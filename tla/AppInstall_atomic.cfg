SPECIFICATION AppSpec
CONSTANTS
    Base <- BaseFiles
    Listed <- ListedFiles
    downloadRetries = 2
    Versions <- SomeVersions
    None = None
PROPERTY InstallsAtomic
