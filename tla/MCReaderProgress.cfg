CONSTANTS
    MaxLine <- MCMaxLine
    MaxPut <- MCMaxPut
    Scripts <- MCScripts

SPECIFICATION ReaderSpec

PROPERTY DecodeProgress
