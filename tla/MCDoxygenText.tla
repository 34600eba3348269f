---------------------------- MODULE MCDoxygenText ----------------------------
\* Documents of a few nodes that start at any class some document reaches.
EXTENDS DoxygenText, DoxygenSchema

MCRoots == DOMAIN Classes \ {"str", "docParaTypeSub"}
MCProse == {"descriptionType", "docTitleType", "docParaTypeSub", "docRefTextType",
            "docParamName", "docSect1Type", "docSect2Type", "docSect3Type",
            "docSect4Type", "docInternalType", "docInternalS1Type",
            "docInternalS2Type", "docInternalS3Type", "docInternalS4Type"}
=============================================================================
